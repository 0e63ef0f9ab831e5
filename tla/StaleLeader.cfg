SPECIFICATION Spec
CONSTANTS
  Clients = {c1, c2, c3}
  OnV2 = {c1, c2, c3}
  OnGC = {}
  Version <- MCVersion
  DefaultLobbies = {l1}
  Games = {g1}
  None = None
  LobbyMax = 3
  GameMax = 3
  MaxTime = 1
  MaxQueue = 1
  Disciplined = TRUE
  OpenMenus = TRUE
  JoinPending = FALSE
INVARIANTS
  LeaderIsMember
