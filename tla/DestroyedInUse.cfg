SPECIFICATION Spec
CONSTANTS
  Clients = {c1, c2}
  OnV2 = {}
  OnGC = {c2}
  Version <- MCVersion
  DefaultLobbies = {l1}
  Games = {g1}
  None = None
  LobbyMax = 2
  GameMax = 2
  MaxTime = 0
  MaxQueue = 1
  Disciplined = TRUE
  OpenMenus = TRUE
  JoinPending = TRUE
PROPERTIES
  DestroyedHasNoMembers
