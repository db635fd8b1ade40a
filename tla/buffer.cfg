SPECIFICATION FairSpec
CONSTANTS
  Conns = {c1, c2}
  Leavers = {c2}
  Reader = Reader
  MAX_MESSAGES = 1
  Odd = Odd
  NULL = NULL
CHECK_DEADLOCK FALSE
INVARIANTS IInv KeyAgreement NamesKept Attribution
PROPERTIES LoginCompletes MessagesArrive
