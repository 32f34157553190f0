CONSTANTS
  Client = {c1, c2}
  None = None
  Commands = {"get", "up", "ls", "text"}
  MaxSend = 1
SPECIFICATION Spec
CHECK_DEADLOCK FALSE
INVARIANT LoopGoesOn
