SPECIFICATION Spec
CONSTANTS
  c1 = c1
  c2 = c2
  None = None
  Client = {c1, c2}
  NumBlocks = 2
  MaxDepth = 3
  Used = {"list", "ban", "lobby", "bare"}
INVARIANTS
  TypeOK
  UsedIsThere
  OnlyCrossings
SYMMETRY Symmetry
CHECK_DEADLOCK FALSE
