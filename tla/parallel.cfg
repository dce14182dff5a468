SPECIFICATION FairSpec
CONSTANTS
  Callers = {11, 12}
  Workers = {1, 2}
  DefaultThreads = 2
  ThreadCounts = {1, 3}
  Work <- MCWorkOf
  NestedWork <- MCNested
  MaxSets = 1
INVARIANTS
  EachOnce
  ReduceCorrect
PROPERTY CallsReturn
CHECK_DEADLOCK FALSE
