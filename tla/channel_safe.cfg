SPECIFICATION Spec
CONSTANTS
  t1 = t1
  t2 = t2
  k1 = k1
  k2 = k2
  Thread <- TwoThreads
  Key <- TwoKeys
  Window = {1}
  MaxPush <- Push31
  Fault <- NoFault
  MaxFault = 0
SYMMETRY Symmetry
INVARIANT TypeOK
INVARIANT PortSafe
INVARIANT OutboxDone
INVARIANT AckOnce
INVARIANT ThrottleBound
PROPERTY ImplementsShutdown
