CONSTANTS
  Writers = {w1, w2}
  Keys = {k1}
  MergeKeys = {}
  MaxTables = 2
  MaxEntries = 1
  MaxPuts = 4
  MaxResets = 1
SPECIFICATION FairSpec
INVARIANTS
  TypeOK
  ImmutableBound
  ActiveBound
  Conservation
  NoLostWakeup
  FlushedInOrder
  PanicNeedsReset
PROPERTIES
  PutReturns
  CloseTerminates
