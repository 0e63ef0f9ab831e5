SPECIFICATION Spec
CONSTANTS
  Clients = {c1, c2, c3}
  OnV2 = {}
  OnGC = {c1, c2, c3}
  Version <- MCVersion
  DefaultLobbies = {l1}
  Games = {g1}
  None = None
  LobbyMax = 3
  GameMax = 3
  MaxTime = 0
  MaxQueue = 1
  Disciplined = TRUE
  OpenMenus = TRUE
  JoinPending = FALSE
INVARIANTS
  LeavesNoTrace
