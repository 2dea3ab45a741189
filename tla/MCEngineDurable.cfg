CONSTANTS
  Keys = {k1, k2}
  Ranges <- FullRange
  MaxEntries = 2
  MaxTables = 1
  CacheSize = 0
  MaxBatch = 2
  DropTombstones = TRUE
  Leveled = TRUE
  MaxWrites = 4
  MaxCrashes = 2
SPECIFICATION Spec
INVARIANTS
  TypeOK
  Durable
  LogOrdered
