CONSTANTS
  Jobs = {j1}
  Threads = {t1, t2}
  NoJob = NoJob
  NoCursor = NoCursor
  NoThread = NoThread
  FeedMax = 2
  MaxTracked = 1
  RetrySize = 1
  FaultKinds = {"pageLost", "workerLost", "crash", "unseen", "restart", "remount"}
  MaxFaults = 1
SPECIFICATION FairSpec
INVARIANTS NothingSkipped HandledOnce
PROPERTIES AnswersOnce QuestionsAnswered
