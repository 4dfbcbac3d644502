SPECIFICATION Spec
CONSTANTS
  Threads = {t1, t2}
  MaxHandle = 2
  MaxCalls = 2
SYMMETRY Symmetry
INVARIANTS
  OneCallAtATime
  PinnedStaysHome
  NoWakeLost
  BadHandleMeansGone
