\* All commands.  Everything may end: the clients gone, the server waiting.
CONSTANTS
  Client = {c1, c2, c3}
  None = None
  Commands = {"get", "up", "ls", "text"}
  MaxSend = 1
SPECIFICATION Spec
SYMMETRY ClientSymmetry
CHECK_DEADLOCK FALSE
INVARIANTS WatchesOpen AnswersGoForward ExitsExplained
