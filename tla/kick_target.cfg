SPECIFICATION Spec
CONSTANTS
  MAX_HOSTS = 1
  Handles = {h1, h2}
  Usernames = {u1, u2}
  LoginThreads = {l1, l2}
  Listener = Listener
  Reader = Reader
  Writer = Writer
  Main = Main
  NULL = NULL
  Commands = {"kick"}
SYMMETRY Symmetry
CHECK_DEADLOCK FALSE
INVARIANT KickHitsTarget
