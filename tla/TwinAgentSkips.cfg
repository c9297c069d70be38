CONSTANTS
  Jobs = {j1, j2}
  Threads = {t1, t2}
  NoJob = NoJob
  NoCursor = NoCursor
  NoThread = NoThread
  FeedMax = 2
  MaxTracked = 2
  RetrySize = 1
  FaultKinds = {"restart"}
  MaxFaults = 1
SPECIFICATION Spec
SYMMETRY Symmetry
INVARIANT PassedIsHandled
CHECK_DEADLOCK FALSE
