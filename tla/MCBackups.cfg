CONSTANTS
  MaxWrites = 2
  MaxBackups = 3
  MaxCheckpoints = 1
  MaxRaced = 1
  MaxUpsets = 1
SPECIFICATION Spec
CHECK_DEADLOCK FALSE
INVARIANTS
  
  
  ListedComplete
  
