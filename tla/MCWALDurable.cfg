CONSTANTS
  HeaderSize = 3
  BlockSize = 8
  MaxBlocks = 2
  Payloads = {1}
  MaxBatch = 1
  Capacities = {2}
  MaxOps = 4
  MaxFlushes = 3
  MaxCrashes = 2
SPECIFICATION FairSpec
INVARIANTS
  Durable
  FlushNeverFails
PROPERTIES
  Progress
