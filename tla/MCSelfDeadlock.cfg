\* Default features: the sending thread records its own ranges.
CONSTANTS
  main = main
  worker = worker
  App = {main}
  Sender = Sender
  NoThread = NoThread
  Finalizers = {main}
  Capacity = 10
  CleanupAt = 5
  CleanupTo = 3
  FlushAt = 2
  HdrLen = 1
  LocalAttempt = 2
  LocalForce = 3
  SelfTracing = TRUE
  SendMayFail = FALSE
  MaxEvents <- OneEach
  MaxSelf = 4
  MaxFreq = 0
SPECIFICATION FairSpec
PROPERTY FinalizeReturns
CHECK_DEADLOCK FALSE
