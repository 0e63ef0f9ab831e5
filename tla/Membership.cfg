SPECIFICATION Spec
CONSTANTS
  Clients = {c1, c2, c3}
  OnV2 = {c1, c2}
  OnGC = {c3}
  Version <- MCVersion
  DefaultLobbies = {l1, l2}
  Games = {g1}
  None = None
  LobbyMax = 3
  GameMax = 3
  MaxTime = 2
  MaxQueue = 1
  Disciplined = TRUE
  OpenMenus = TRUE
  JoinPending = FALSE
SYMMETRY Symmetry
CONSTRAINTS
  QuietLater
  OneLobbyLater
INVARIANTS
  TypeOK
  SlotsAgree
  CountsAgree
  QueueOnlyWhileBursting
  BurstHasOneBurster
  NoEmptyGame
PROPERTIES
  SuccessorIsLongest
