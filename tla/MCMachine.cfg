SPECIFICATION MachineSpec
CONSTANTS
  Threads = {p, o}
  Poller = p
  MaxId = 3
  MaxTells = 1
INVARIANTS
  CodesAreExact
  IdleOwesNothing
  CallsHandOverEverything
