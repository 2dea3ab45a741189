CONSTANTS
  MaxKey = 3
  ProbKeys = {3}
  SnapKeys = {1}
  Memtables <- MCMemtables
  Strategies = {"leveled", "tiered"}
  MaxHeight = 4
  L0Trigger = 2
  L1Max = 2
  LevelSizeMultiplier = 1
  MinMergeThreshold = 2
  QuietClear = TRUE
  MaxSeq = 4
  MaxCrashes = 1
  MaxClears = 1
SPECIFICATION Spec
INVARIANTS
  ReadsNewest
  VersionsKept
  OperandsKept
  LayersDisjoint
  ManifestAgrees
