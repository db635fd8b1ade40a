SPECIFICATION Spec
CONSTANTS
  e1 = e1
  e2 = e2
  e3 = e3
  e4 = e4
  Elements <- MCElements
  Key <- MCKey
  Hash <- MCHash
  Block <- MCBlock
  HASH_INITIAL_NUM_BUCKETS = 1
  HASH_BKT_CAPACITY_THRESH = 1
  MAX_BUCKETS = 16
  NULL = NULL
  Wild = Wild
SYMMETRY Symmetry
CHECK_DEADLOCK FALSE
INVARIANTS IInv Integrity ChainsBounded
PROPERTIES MissesExplained NameTableSpec
