SPECIFICATION FairSpec
CONSTANTS
  s1 = s1
  s2 = s2
  c1 = c1
  c2 = c2
  card = card
  menu = menu
  None = None
  Ships = {s1, s2}
  Clients = {c1, c2}
  Account <- MCShared
  BB = {c2}
  Menu <- MCMenu
  NumBlocks = 2
  MaxConns = 3
  MaxWaiting = 1
CONSTRAINT Few
INVARIANTS
  TypeOK
  RowsBacked
  NoGhosts
  FleetsAgree
  MenuReaches
  CountHeardInOrder
PROPERTY
  Rejoins
