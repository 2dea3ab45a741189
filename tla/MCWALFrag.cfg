CONSTANTS
  HeaderSize = 1
  BlockSize = 4
  MaxBlocks = 3
  Payloads = {1, 7}
  MaxBatch = 2
  Capacities = {2}
  MaxOps = 4
  MaxFlushes = 2
  MaxCrashes = 1
SPECIFICATION Spec
INVARIANTS
  DurableAtRest
  BatchAtomic
