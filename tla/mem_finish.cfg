SPECIFICATION Spec
CONSTANTS
  t1 = t1
  t2 = t2
  Thread <- TwoThreads
  MaxPush <- Push22
  Reader = {0}
INVARIANT MemSafe
PROPERTY FinishLive
PROPERTY ImplementsShutdown
