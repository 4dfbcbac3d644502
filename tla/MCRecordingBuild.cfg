SPECIFICATION Either
CONSTANTS
  Base = 16
  W32 = 2
  W64 = 1
  Threads = {t1, t2}
  Setups <- BrokenSetups
  MaxCalls = 3
  MaxSlips = 1
  HostSorts <- None
  MadeKinds <- None
INVARIANT ReplayAgrees
CHECK_DEADLOCK FALSE
