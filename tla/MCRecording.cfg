SPECIFICATION Either
CONSTANTS
  Base = 16
  W32 = 2
  W64 = 1
  Threads = {t1, t2}
  Setups <- RecordingSetups
  MaxCalls = 3
  MaxSlips = 1
  HostSorts <- Drivers
  MadeKinds <- Made
INVARIANTS
  BothTypeOK
  LogIsTheRun
  ReplayAgrees
  ReplayLeavesNothing
  HandlesAreUnique
  SavedLogSurvives
  HostReadsTheBatch
  AnswersArriveAsMeant
CHECK_DEADLOCK FALSE
