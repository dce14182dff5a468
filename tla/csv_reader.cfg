CONSTANTS
  r1 = r1
  r2 = r2
  Reader <- TwoReaders
  Root = r1
  Files <- SmallFiles
  Selections <- NumbersAndNames
  BatchSize = 2
  Sizes = {1, 3}
SPECIFICATION CsvSpec
INVARIANTS
  ReaderConsistent
  NextFalseIsEof
  ColumnsReadable
CHECK_DEADLOCK FALSE
