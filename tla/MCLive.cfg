\* Without self-tracing: a worker whose second event fills its buffer, so that it
\* waits for the mutex after the attempt failed or was skipped, and main, which
\* may finalize.
CONSTANTS
  main = main
  worker = worker
  App = {main, worker}
  Sender = Sender
  NoThread = NoThread
  Finalizers = {main}
  Capacity = 8
  CleanupAt = 5
  CleanupTo = 3
  FlushAt = 2
  HdrLen = 1
  LocalAttempt = 1
  LocalForce = 2
  SelfTracing = FALSE
  SendMayFail = TRUE
  MaxEvents <- NoneAndTwo
  MaxSelf = 0
  MaxFreq = 1
SPECIFICATION FairSpec
PROPERTIES
  FinalizeReturns
  ForcedFlushReturns
