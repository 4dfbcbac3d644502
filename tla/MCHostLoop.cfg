SPECIFICATION Spec
CONSTANTS
  Demos = {"ping_pong", "ring", "deadline", "deadlock", "greeter", "fanout", "front_desk", "ticker", "journal"}
  Rounds = 2
  Size = 3
  Lines = 2
  Entries = 2
  MaxMachine = 3
  MaxStutters = 2
  MaxKills = 2
  Workers = 2
  MaxSpurious = 1
  Steady = {"front_desk"}
INVARIANTS
  TypeOK
  SameTranscript
  SurvivorsComplete
  VerdictIsTrue
  NoMachineForgotten
  NeverRefused
  SchedulerIsExact
  TimersAreWanted
PROPERTY Ends
CHECK_DEADLOCK FALSE
