SPECIFICATION Spec
CONSTANTS
    a1 = a1  s1 = s1
    c1 = c1  c2 = c2
    i1 = i1
    Accounts = {a1}
    Ships = {s1}
    Clients = {c1, c2}
    Items = {i1}
    Blank = Blank
    MaxQueue = 4
    MaxFaults = 1
    Account <- MCAccount
    Home <- MCHome
    Block <- MCBlock
INVARIANT BankIsStored
CONSTRAINT FewPackets
