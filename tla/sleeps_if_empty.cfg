SPECIFICATION Spec
CONSTANTS
  MAX_HOSTS = 2
  Handles = {h1, h2}
  Usernames = {u1}
  LoginThreads = {l1, l2}
  Listener = Listener
  Reader = Reader
  Writer = Writer
  Main = Main
  NULL = NULL
  Commands = {}
SYMMETRY Symmetry
CHECK_DEADLOCK FALSE
INVARIANT SleepsOnlyIfEmpty
