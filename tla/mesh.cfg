SPECIFICATION MeshSpec
CONSTANTS
  N = 3
  RetryTimes = 1
  MaxLate = 2
INVARIANT MeshSafe
PROPERTY ConnectEnds
PROPERTY FinishLive
CHECK_DEADLOCK FALSE
