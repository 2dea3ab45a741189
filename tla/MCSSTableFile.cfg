CONSTANTS
  Keys = {1, 2, 3, 4, 5}
  KeyLen <- MCKeyLen
  SharedLen = 4
  Vals <- MCVals
  Versions <- MCVersions
  Dels <- MCDels
  BlockSize = 160
  RestartInterval = 2
  DictThreshold = 2
  DictWindow = 2
  IdsPerByte = 1
  MaxRecords = 5
  MaxCorrupt = 1
SPECIFICATION Spec
CHECK_DEADLOCK FALSE
INVARIANTS
  ScanWhole
  BlocksNeverOverflow
  GetNewest
  SeekFirstNotLess
  MerkleDetects
