SPECIFICATION FairSpec
CONSTANTS
  MAX_HOSTS = 2
  Handles = {h1}
  Usernames = {u1}
  LoginThreads = {l1, l2}
  Listener = Listener
  Reader = Reader
  Writer = Writer
  Main = Main
  NULL = NULL
  Commands = {"kick", "end"}
CHECK_DEADLOCK FALSE
INVARIANT NoDoubleFree
PROPERTIES DepartedCleared LockReleased ShutdownEnds SessionsSpec
