SPECIFICATION Spec
CONSTANTS
  Threads = {t1, t2}
  MaxHandle = 1
  MaxCalls = 2
INVARIANT PanickedNeverRuns
