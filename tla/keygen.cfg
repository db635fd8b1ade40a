SPECIFICATION Spec
CONSTANTS
  Threads = {t1, t2}
  RandValues <- MCRandValues
  urandomb <- MCurandomb
  key_bitlength = 6
  FirstSecond = 2
  LastSecond = 3
CHECK_DEADLOCK FALSE
SYMMETRY Symmetric
INVARIANTS PrimesFresh SeededBeforeUse KeysWork
