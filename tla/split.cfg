SPECIFICATION FairSpec
CONSTANTS
  Chars = {a, b}
  Delim = bar
  MAX_LENGTH = 6
  Callers = {"read", "login", "kick"}
CHECK_DEADLOCK FALSE
INVARIANTS ArrayFits SplitsIntoTokens ReadsStored
PROPERTY SplitReturns
