SPECIFICATION Spec
CONSTANTS
  Threads = {t1, t2}
  BLOCKS = 3
  PARTS = 2
  MAX_CALLS = 2
CHECK_DEADLOCK FALSE
INVARIANTS IdleIsClean AloneIsRight DamageBounded
