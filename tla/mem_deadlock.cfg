SPECIFICATION Spec
CONSTANTS
  t1 = t1
  t2 = t2
  Thread <- OneThread
  MaxPush <- Push11
  Reader = {}
PROPERTY FinishLive
CHECK_DEADLOCK FALSE
