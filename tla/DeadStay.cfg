SPECIFICATION FairSpec
CONSTANTS
  c1 = c1
  c2 = c2
  None = None
  Client = {c1, c2}
  NumBlocks = 2
  MaxDepth = 2
  Used = {"list"}
PROPERTY
  DeadAreDisconnected
CHECK_DEADLOCK FALSE
