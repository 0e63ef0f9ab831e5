SPECIFICATION Spec
CONSTANTS
  Clients = {c1, c2}
  None = None
  saber = saber
  mate = mate
  Meseta = meseta
  Kinds = {saber, mate, meseta}
  Stack <- MCStack
  Price <- MCPrice
  Unsold <- MCUnsold
  Loaded <- MCLoaded
  MaxClients = 2
  MaxInv = 2
  MaxBank = 1
  MaxNumber = 2
  MaxItems = 3
  MaxDoubled = 3
SYMMETRY Symmetry
INVARIANTS
  FloorIdsDiffer
