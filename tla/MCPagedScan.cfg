CONSTANTS
  MaxKey = 3
  ProbKeys = {}
  RangeDeletes <- MCRangeDeletes
  Bounds <- MCBounds
  Scanners <- MCScanners
  Sessions <- MCSessions
  Seek = "at"
  MergeStructure = "heap"
  PageSize = 1
  BufferSize = 1
  MaxTables = 2
  MaxSeq = 4
  MaxSessionSeq = 2
  MaxTurns = 2
SPECIFICATION FairSpec
CHECK_DEADLOCK FALSE
INVARIANTS
  ScanCorrect
  ChangePending
PROPERTIES
  ChangeSeen
