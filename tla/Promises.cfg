SPECIFICATION FairSpec
CONSTANTS
  Clients = {c1, c2, c3}
  OnV2 = {c1, c2}
  OnGC = {}
  Version <- MCVersion
  DefaultLobbies = {l1}
  Games = {g1}
  None = None
  LobbyMax = 2
  GameMax = 2
  MaxTime = 0
  MaxQueue = 0
  Disciplined = TRUE
  OpenMenus = TRUE
  JoinPending = FALSE
INVARIANTS
  SlotsAgree
  BurstHasOneBurster
PROPERTIES
  KeepsRoster
  BurstEnds
