CONSTANTS
  MaxKey = 2
  ProbKeys = {}
  SnapKeys = {}
  Memtables <- MCRebuild
  Strategies = {"tiered"}
  MaxHeight = 2
  L0Trigger = 2
  L1Max = 1
  LevelSizeMultiplier = 1
  MinMergeThreshold = 2
  QuietClear = TRUE
  MaxSeq = 5
  MaxCrashes = 2
  MaxClears = 1
SPECIFICATION Spec
INVARIANTS
  RebuiltReads
