CONSTANTS
  HeaderSize = 2
  BlockSize = 7
  MaxBlocks = 1
  Payloads = {2}
  MaxBatch = 0
  Capacities = {2}
  MaxOps = 3
  MaxFlushes = 0
  MaxCrashes = 0
SPECIFICATION Spec
INVARIANTS
  Durable
