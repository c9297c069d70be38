CONSTANTS
  Jobs = {j1}
  Threads = {t1, t2}
  NoJob = NoJob
  NoCursor = NoCursor
  NoThread = NoThread
  FeedMax = 2
  MaxTracked = 1
  RetrySize = 1
  FaultKinds = {"pageLost"}
  MaxFaults = 1
SPECIFICATION BusySpec
PROPERTY ComesBack
