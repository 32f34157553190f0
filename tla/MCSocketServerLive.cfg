\* All commands.  Everything may end: the clients gone, the server waiting.
CONSTANTS
  Client = {c1, c2}
  None = None
  Commands = {"get", "up", "ls", "text"}
  MaxSend = 2
SPECIFICATION FairSpec
CHECK_DEADLOCK FALSE
PROPERTY ClientsServed
