CONSTANTS
  Keys = {k1}
  Ranges <- NoRanges
  MaxEntries = 1
  MaxTables = 2
  CacheSize = 1
  MaxBatch = 1
  DropTombstones = TRUE
  Leveled = TRUE
  MaxWrites = 4
  MaxCrashes = 2
SPECIFICATION FairSpec
PROPERTIES
  Dictionary
  ReadyAgain
