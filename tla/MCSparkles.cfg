\* Default features; the deadlock that self-tracing makes possible is reached
\* too and has its own run, so that stopping is not an error here.
CONSTANTS
  main = main
  worker = worker
  App = {main, worker}
  Sender = Sender
  NoThread = NoThread
  Finalizers = {main, worker}
  Capacity = 9
  CleanupAt = 5
  CleanupTo = 3
  FlushAt = 2
  HdrLen = 1
  LocalAttempt = 1
  LocalForce = 3
  SelfTracing = TRUE
  SendMayFail = TRUE
  MaxEvents <- OneAndTwo
  MaxSelf = 4
  MaxFreq = 0
SPECIFICATION Spec
INVARIANTS
  TypeOK
  LocalBufferBounded
  RingNeverOverruns
  StreamWellFormed
  EveryEventAccounted
  NobodyIsStuck
PROPERTIES
  FinalizeWaits
  ImplementsEventLog
CHECK_DEADLOCK FALSE
