CONSTANTS
  Kinds = {"btree", "skiplist", "hashmap", "rbtree", "avl"}
  Keys = {1, 2, 3, 4, 5, 6, 7, 8, 9}
  SnapKeys = {3}
  MinimumDegree = 2
  MaxLevel = 2
  Preloads <- MCPreloads
  MaxPuts = 3
  MaxRollbacks = 1
SPECIFICATION Spec
CHECK_DEADLOCK FALSE
INVARIANTS
  FindsNewest
  InOrder
  SeekWhereSound
  Balanced
