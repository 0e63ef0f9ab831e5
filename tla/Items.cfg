SPECIFICATION Spec
CONSTANTS
  Clients = {c1, c2}
  None = None
  saber = saber
  mate = mate
  Meseta = meseta
  Kinds = {saber, mate, meseta}
  Stack <- MCStack
  Price <- MCPrice
  Unsold <- MCUnsold
  Loaded <- MCLoaded
  MaxClients = 2
  MaxInv = 1
  MaxBank = 1
  MaxNumber = 1
  MaxItems = 2
  MaxDoubled = 3
VIEW View
CONSTRAINT Bounded
SYMMETRY Symmetry
INVARIANTS
  TypeOK
  Conserved
  NothingFromNothing
