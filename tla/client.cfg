SPECIFICATION FairSpec
CONSTANTS
  BUFFER_LENGTH = 4
  LOGIN_LENGTH = 2
  USERNAME_MAXLENGTH = 3
  NOTICES = {0, 2, 5}
  LINES = {2, 3, 9}
  EXIT = 2
  SOCKET_SPACE = 8
  MAX_LINES = 2
  MAX_FORWARDS = 2
  MAX_CUTS = 1
CHECK_DEADLOCK FALSE
INVARIANTS IInv FramesWhole PromptsInStep
PROPERTY ClientEnds
