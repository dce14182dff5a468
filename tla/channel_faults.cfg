SPECIFICATION FairFaultSpec
CONSTANTS
  t1 = t1
  t2 = t2
  k1 = k1
  k2 = k2
  Thread <- OneThread
  Key <- OneKey
  Window = {0, 1}
  MaxPush <- Push20
  Fault <- AllFaults
  MaxFault = 1
INVARIANT SafeUnlessOvercounted
PROPERTY FinishLive
PROPERTY ThrottleReleased
CHECK_DEADLOCK FALSE
