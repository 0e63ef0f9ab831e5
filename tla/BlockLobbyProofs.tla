-------------------------- MODULE BlockLobbyProofs --------------------------
(***************************************************************************)
(* Type correctness of BlockLobby: what every operator returns, and that   *)
(* every handler keeps the types of the block's variables.                 *)
(*                                                                         *)
(* Then, from the types alone, that packets wait in a game's queue only    *)
(* while a client bursts into it.                                          *)
(***************************************************************************)
EXTENDS BlockLobby, FiniteSetTheorems, TLAPS

-----------------------------------------------------------------------------
\* The slots s after x is put in slot i.
Put(s, i, x) == [s EXCEPT ![i] = x]

-----------------------------------------------------------------------------
(* The types of what the operators on lobby and client records return.     *)

LEMMA SlotZero == 0 \in Slots /\ 1 \in Slots /\ Slots \subseteq Nat
BY ConstantsAssumption DEF Slots

LEMMA EmptyType ==
    ASSUME NEW st \in {"free", "pending", "listed"}, NEW v \in Versions,
           NEW i \in Slots
    PROVE  Empty(st, v, i) \in LobbyRec
<1>1. [j \in Slots |-> None] \in [Slots -> Clients \cup {None}]
    OBVIOUS
<1>2. <<>> \in Seq(Clients)
    OBVIOUS
<1>. QED BY <1>1, <1>2 DEF Empty, LobbyRec

LEMMA FreedType == Freed \in LobbyRec
BY EmptyType, SlotZero DEF Freed, Versions

LEMMA NewGameType ==
    ASSUME NEW c \in Clients, NEW st \in {"pending", "listed"}
    PROVE  NewGame(c, st) \in LobbyRec
<1>1. Version[c] \in Versions
    BY ConstantsAssumption
<1>2. (IF Version[c] = "bb" THEN 0 ELSE 1) \in Slots
    BY SlotZero
<1>. QED BY <1>1, <1>2, EmptyType DEF NewGame

LEMMA FreshType == \A up \in BOOLEAN : Fresh(up) \in ClientRec
BY SlotZero DEF Fresh, ClientRec

LEMMA AddClientType ==
    ASSUME NEW L \in LobbyRec, NEW c \in Clients, NEW i \in Slots
    PROVE  /\ AddClient(L, c, i) \in LobbyRec
           /\ AddClient(L, c, i).slot = Put(L.slot, i, c)
           /\ AddClient(L, c, i).num = L.num + 1
           /\ AddClient(L, c, i).state = L.state
<1>1. L.slot \in [Slots -> Clients \cup {None}] /\ L.num \in Int /\ L.leader \in Slots
    BY DEF LobbyRec
<1>2. [L.slot EXCEPT ![i] = c] \in [Slots -> Clients \cup {None}]
    BY <1>1
<1>3. (IF L.num = 0 THEN i ELSE L.leader) \in Slots
    BY <1>1
<1>4. AddClient(L, c, i) =
        [L EXCEPT !.slot = [L.slot EXCEPT ![i] = c], !.num = L.num + 1,
                  !.leader = IF L.num = 0 THEN i ELSE L.leader]
    BY DEF AddClient, LobbyRec
<1>5. L.num + 1 \in Int
    BY <1>1
<1>. HIDE DEF AddClient
<1>. QED BY <1>2, <1>3, <1>4, <1>5 DEF LobbyRec, Put

LEMMA WinnerType ==
    ASSUME NEW L, NEW S \in SUBSET Slots
    PROVE  Winner(L, S) \in Slots
BY SlotZero DEF Winner

LEMMA ElectType ==
    ASSUME NEW L \in LobbyRec
    PROVE  /\ Elect(L) \in LobbyRec
           /\ Elect(L).slot = L.slot
           /\ Elect(L).num = L.num
           /\ Elect(L).state = L.state
<1>1. \A V : Candidates(L, V) \in SUBSET Slots
    BY DEF Candidates
<1>2. \A V : Winner(L, Candidates(L, V)) \in Slots
    BY <1>1, WinnerType
<1>3. "gc" \in Versions
    BY DEF Versions
<1>4. \A i \in Slots : [L EXCEPT !.leader = i] \in LobbyRec
    BY DEF LobbyRec
<1>5. \A i \in Slots, b \in BOOLEAN, v \in Versions :
        [L EXCEPT !.leader = i, !.gcOK = b, !.ver = v] \in LobbyRec
    BY DEF LobbyRec
<1>6. L.ver \in Versions /\ L.gcOK \in BOOLEAN
    BY DEF LobbyRec
<1>. DEFINE cross == L.ver = "v2" /\ L.gcOK
            old   == Candidates(L, {"v2"})
            all   == Candidates(L, Versions)
            A     == [L EXCEPT !.leader = Winner(L, old)]
            B     == [L EXCEPT !.leader = Winner(L, all),
                               !.gcOK = L.gcOK /\ ~cross,
                               !.ver = IF cross THEN "gc" ELSE L.ver]
<1>7. A \in LobbyRec /\ A.slot = L.slot /\ A.num = L.num /\ A.state = L.state
    <2>1. A \in LobbyRec
        BY <1>2, <1>4
    <2>2. A.slot = L.slot /\ A.num = L.num /\ A.state = L.state
        BY DEF LobbyRec
    <2>. QED BY <2>1, <2>2
<1>8. B \in LobbyRec /\ B.slot = L.slot /\ B.num = L.num /\ B.state = L.state
    <2>1. (L.gcOK /\ ~cross) \in BOOLEAN
        OBVIOUS
    <2>2. (IF cross THEN "gc" ELSE L.ver) \in Versions
        BY <1>3, <1>6
    <2>3. B \in LobbyRec
        BY <1>2, <1>5, <2>1, <2>2
    <2>4. B.slot = L.slot /\ B.num = L.num /\ B.state = L.state
        BY DEF LobbyRec
    <2>. QED BY <2>3, <2>4
<1>9. Elect(L) = IF cross /\ old # {} THEN A ELSE B
    BY DEF Elect
<1>. QED BY <1>7, <1>8, <1>9

LEMMA RemoveClientType ==
    ASSUME NEW L \in LobbyRec, NEW c \in Clients, NEW i \in Slots
    PROVE  /\ RemoveClient(L, c, i) \in LobbyRec
           /\ RemoveClient(L, c, i).state = L.state
           /\ L.slot[i] = c =>
                /\ RemoveClient(L, c, i).slot = Put(L.slot, i, None)
                /\ RemoveClient(L, c, i).num = L.num - 1
<1>. DEFINE E == IF i = L.leader THEN Elect(L) ELSE L
<1>1. /\ E \in LobbyRec
      /\ E.slot = L.slot
      /\ E.num = L.num
      /\ E.state = L.state
    BY ElectType
<1>2. RemoveClient(L, c, i) =
        IF L.slot[i] # c THEN L
        ELSE [E EXCEPT !.slot[i] = None, !.num = @ - 1]
    BY DEF RemoveClient
<1>. HIDE DEF E
<1>3. CASE L.slot[i] # c
    BY <1>2, <1>3
<1>4. CASE L.slot[i] = c
    <2>. DEFINE s == [E.slot EXCEPT ![i] = None]
    <2>1. s \in [Slots -> Clients \cup {None}] /\ E.num - 1 \in Int
        BY <1>1 DEF LobbyRec
    <2>2. RemoveClient(L, c, i) = [E EXCEPT !.slot = s, !.num = E.num - 1]
        BY <1>1, <1>2, <1>4 DEF LobbyRec
    <2>. HIDE DEF s
    <2>3. /\ RemoveClient(L, c, i) \in LobbyRec
          /\ RemoveClient(L, c, i).state = E.state
          /\ RemoveClient(L, c, i).slot = s
          /\ RemoveClient(L, c, i).num = E.num - 1
        BY <1>1, <2>1, <2>2 DEF LobbyRec
    <2>. QED BY <1>1, <2>3 DEF s, Put
<1>. QED BY <1>3, <1>4

LEMMA EndBurstType ==
    ASSUME NEW L \in LobbyRec
    PROVE  /\ EndBurst(L) \in LobbyRec
           /\ EndBurst(L).slot = L.slot
           /\ EndBurst(L).num = L.num
           /\ EndBurst(L).state = L.state
<1>1. <<>> \in Seq(Clients)
    OBVIOUS
<1>. QED BY <1>1 DEF EndBurst, LobbyRec

LEMMA SeatedType ==
    ASSUME NEW lb \in [LobbyIds -> LobbyRec], NEW c \in Clients,
           NEW r \in LobbyIds, NEW i \in Slots
    PROVE  /\ Seated(lb, c, r, i) \in LobbyRec
           /\ Seated(lb, c, r, i).slot = Put(lb[r].slot, i, c)
           /\ Seated(lb, c, r, i).num = lb[r].num + 1
           /\ Seated(lb, c, r, i).state = lb[r].state
<1>. DEFINE A == AddClient(lb[r], c, i)
<1>1. /\ A \in LobbyRec
      /\ A.slot = Put(lb[r].slot, i, c)
      /\ A.num = lb[r].num + 1
      /\ A.state = lb[r].state
    BY AddClientType
<1>2. Seated(lb, c, r, i) = IF r \in Games THEN [A EXCEPT !.bursting = TRUE] ELSE A
    BY DEF Seated
<1>. HIDE DEF A
<1>3. LET B == [A EXCEPT !.bursting = TRUE]
      IN  B \in LobbyRec /\ B.slot = A.slot /\ B.num = A.num /\ B.state = A.state
    BY <1>1 DEF LobbyRec
<1>. QED BY <1>1, <1>2, <1>3

LEMMA PlacedType ==
    ASSUME NEW C \in ClientRec, NEW r \in LobbyIds, NEW i \in Slots,
           now \in Nat
    PROVE  /\ Placed(C, r, i) \in ClientRec
           /\ Placed(C, r, i).lobby = r
           /\ Placed(C, r, i).id = i
           /\ Placed(C, r, i).up = C.up
           /\ Placed(C, r, i).menu = C.menu
           /\ Placed(C, r, i).create = C.create
BY DEF Placed, ClientRec

LEMMA VacatedType ==
    ASSUME TypeOK, NEW lb \in [LobbyIds -> LobbyRec], NEW c \in Clients,
           client[c].lobby # None
    PROVE  Vacated(lb, c) \in LobbyRec
<1>1. client[c].lobby \in LobbyIds /\ client[c].id \in Slots
    BY DEF TypeOK, ClientRec
<1>2. lb[client[c].lobby] \in LobbyRec
    BY <1>1
<1>. QED BY <1>1, <1>2, FreedType, RemoveClientType DEF Vacated

\* The updates of flags that leave the members of a lobby alone.
LEMMA FlagsType ==
    ASSUME NEW L \in LobbyRec
    PROVE  /\ \A b \in BOOLEAN :
                /\ [L EXCEPT !.bursting = b] \in LobbyRec
                /\ [L EXCEPT !.questsel = b] \in LobbyRec
                /\ [L EXCEPT !.gcOK = b] \in LobbyRec
           /\ \A v \in Versions : [L EXCEPT !.ver = v] \in LobbyRec
           /\ [L EXCEPT !.state = "listed"] \in LobbyRec
           /\ \A j \in BOOLEAN :
                [L EXCEPT !.questing = TRUE, !.questsel = FALSE, !.joinable = j]
                  \in LobbyRec
           /\ \A c \in Clients : Enqueue(L, c) \in LobbyRec
<1>1. \A c \in Clients : Append(L.queue, c) \in Seq(Clients)
    BY DEF LobbyRec
<1>2. \A q \in Seq(Clients) : [L EXCEPT !.queue = q] \in LobbyRec
    BY DEF LobbyRec
<1>3. \A c \in Clients : Enqueue(L, c) \in LobbyRec
    BY <1>1, <1>2 DEF Enqueue
<1>4. /\ \A b \in BOOLEAN :
                /\ [L EXCEPT !.bursting = b] \in LobbyRec
                /\ [L EXCEPT !.questsel = b] \in LobbyRec
                /\ [L EXCEPT !.gcOK = b] \in LobbyRec
      /\ \A v \in Versions : [L EXCEPT !.ver = v] \in LobbyRec
      /\ [L EXCEPT !.state = "listed"] \in LobbyRec
      /\ \A j \in BOOLEAN :
           [L EXCEPT !.questing = TRUE, !.questsel = FALSE, !.joinable = j]
             \in LobbyRec
    BY DEF LobbyRec
<1>. QED BY <1>3, <1>4

LEMMA ClientFlagsType ==
    ASSUME NEW C \in ClientRec
    PROVE  /\ \A b \in BOOLEAN :
                /\ [C EXCEPT !.bursting = b] \in ClientRec
                /\ [C EXCEPT !.browsing = b] \in ClientRec
                /\ [C EXCEPT !.menu = b] \in ClientRec
                /\ [C EXCEPT !.create = None, !.menu = b] \in ClientRec
                /\ \A g \in Games :
                     [C EXCEPT !.create = g, !.menu = b] \in ClientRec
           /\ \A b, d \in BOOLEAN :
                /\ [C EXCEPT !.bursting = b, !.waitq = d] \in ClientRec
                /\ [C EXCEPT !.waitq = b, !.qloaded = d] \in ClientRec
                /\ [C EXCEPT !.qloaded = b, !.held = d] \in ClientRec
                /\ [C EXCEPT !.held = b, !.qloaded = d] \in ClientRec
           /\ [C EXCEPT !.qloaded = FALSE, !.held = FALSE, !.browsing = FALSE]
                \in ClientRec
           /\ [C EXCEPT !.lobby = None, !.id = 0, !.held = FALSE,
                        !.browsing = FALSE] \in ClientRec
<1>1. \A b \in BOOLEAN :
         /\ [C EXCEPT !.bursting = b] \in ClientRec
         /\ [C EXCEPT !.browsing = b] \in ClientRec
         /\ [C EXCEPT !.menu = b] \in ClientRec
         /\ [C EXCEPT !.create = None, !.menu = b] \in ClientRec
    BY DEF ClientRec
<1>2. \A b \in BOOLEAN, g \in Games :
         [C EXCEPT !.create = g, !.menu = b] \in ClientRec
    BY DEF ClientRec
<1>3. \A b, d \in BOOLEAN :
         /\ [C EXCEPT !.bursting = b, !.waitq = d] \in ClientRec
         /\ [C EXCEPT !.waitq = b, !.qloaded = d] \in ClientRec
    BY DEF ClientRec
<1>4. \A b, d \in BOOLEAN :
         /\ [C EXCEPT !.qloaded = b, !.held = d] \in ClientRec
         /\ [C EXCEPT !.held = b, !.qloaded = d] \in ClientRec
    BY DEF ClientRec
<1>5. /\ [C EXCEPT !.qloaded = FALSE, !.held = FALSE, !.browsing = FALSE]
           \in ClientRec
      /\ [C EXCEPT !.lobby = None, !.id = 0, !.held = FALSE,
                   !.browsing = FALSE] \in ClientRec
    BY SlotZero DEF ClientRec
<1>. QED BY <1>1, <1>2, <1>3, <1>4, <1>5

LEMMA MoveType ==
    ASSUME TypeOK, NEW lb \in [LobbyIds -> LobbyRec], NEW n \in Int,
           NEW c \in Clients, NEW C \in ClientRec, NEW r \in LobbyIds,
           client[c].lobby # None, Move(lb, n, c, C, r)
    PROVE  /\ lobby' \in [LobbyIds -> LobbyRec]
           /\ client' \in [Clients -> ClientRec]
           /\ numGames' \in Int
<1>. DEFINE l == client[c].lobby
<1>1. PICK i \in Slots :
         /\ lobby' = [lb EXCEPT ![r] = Seated(lb, c, r, i), ![l] = Vacated(lb, c)]
         /\ client' = [client EXCEPT ![c] = Placed(C, r, i)]
         /\ numGames' = IF Empties(lb, c) THEN n - 1 ELSE n
    BY DEF Move
<1>2. Seated(lb, c, r, i) \in LobbyRec
    BY SeatedType
<1>3. Vacated(lb, c) \in LobbyRec
    BY VacatedType
<1>4. Placed(C, r, i) \in ClientRec
    BY PlacedType DEF TypeOK
<1>5. lobby' \in [LobbyIds -> LobbyRec]
    BY <1>1, <1>2, <1>3
<1>6. client' \in [Clients -> ClientRec]
    BY <1>1, <1>4 DEF TypeOK
<1>7. numGames' \in Int
    BY <1>1
<1>. QED BY <1>5, <1>6, <1>7

LEMMA AddToAnyType ==
    ASSUME TypeOK, NEW lb \in [LobbyIds -> LobbyRec], NEW n \in Int,
           NEW c \in Clients, NEW C \in ClientRec, AddToAny(lb, n, c, C)
    PROVE  /\ lobby' \in [LobbyIds -> LobbyRec]
           /\ client' \in [Clients -> ClientRec]
           /\ numGames' \in Int
<1>1. PICK d \in DefaultLobbies, i \in Slots :
         /\ lobby' = [lb EXCEPT ![d] = Seated(lb, c, d, i)]
         /\ client' = [client EXCEPT ![c] = Placed(C, d, i)]
         /\ numGames' = n
    BY DEF AddToAny
<1>2. d \in LobbyIds
    BY DEF LobbyIds
<1>3. Seated(lb, c, d, i) \in LobbyRec
    BY <1>2, SeatedType
<1>4. Placed(C, d, i) \in ClientRec
    BY <1>2, PlacedType DEF TypeOK
<1>. QED BY <1>1, <1>3, <1>4 DEF TypeOK

LEMMA RejoinType ==
    ASSUME TypeOK, NEW c \in Clients, NEW ok \in ClientRec, InGame(c), Rejoin(c, ok)
    PROVE  /\ lobby' \in [LobbyIds -> LobbyRec]
           /\ client' \in [Clients -> ClientRec]
           /\ numGames' \in Int
<1>. DEFINE l == client[c].lobby
            L == [lobby[l] EXCEPT !.bursting = TRUE]
            C == [ok EXCEPT !.bursting = TRUE]
<1>1. l \in LobbyIds
    BY DEF InGame, LobbyIds
<1>2. L \in LobbyRec
    BY <1>1, FlagsType DEF TypeOK
<1>3. C \in ClientRec
    BY ClientFlagsType
<1>4. /\ lobby' = [lobby EXCEPT ![l] = L]
      /\ client' = [client EXCEPT ![c] = C]
      /\ numGames' = numGames
    BY DEF Rejoin
<1>. HIDE DEF L, C, l
<1>. QED BY <1>2, <1>3, <1>4 DEF TypeOK

LEMMA JoinNewType ==
    ASSUME TypeOK, NEW lb \in [LobbyIds -> LobbyRec], NEW n \in Int,
           NEW c \in Clients, NEW g \in Games, NEW ok \in ClientRec,
           NEW failed \in ClientRec, JoinNew(lb, n, c, g, ok, failed)
    PROVE  /\ lobby' \in [LobbyIds -> LobbyRec]
           /\ client' \in [Clients -> ClientRec]
           /\ numGames' \in Int
<1>1. g \in LobbyIds
    BY DEF LobbyIds
<1>2. CASE client[c].lobby # None /\ Move(lb, n, c, ok, g)
    BY <1>1, <1>2, MoveType
<1>3. CASE AddToAny(lb, n, c, ok)
    BY <1>3, AddToAnyType
<1>4. CASE /\ lobby' = lb
           /\ client' = [client EXCEPT ![c] = ok]
           /\ numGames' = n
    BY <1>4 DEF TypeOK
<1>5. CASE /\ lobby' = [lb EXCEPT ![g] = Freed]
           /\ client' = [client EXCEPT ![c] = failed]
           /\ numGames' = n - 1
    <2>1. lobby' \in [LobbyIds -> LobbyRec]
        BY <1>5, FreedType
    <2>2. client' \in [Clients -> ClientRec]
        BY <1>5 DEF TypeOK
    <2>. QED BY <1>5, <2>1, <2>2
<1>. QED BY <1>2, <1>3, <1>4, <1>5 DEF JoinNew

LEMMA RemovePlayerType ==
    ASSUME TypeOK, NEW c \in Clients, client[c].lobby # None, RemovePlayer(c)
    PROVE  lobby' \in [LobbyIds -> LobbyRec] /\ numGames' \in Int
<1>. DEFINE l  == client[c].lobby
            lb == IF client[c].bursting
                    THEN [lobby EXCEPT ![l] = EndBurst(lobby[l])]
                    ELSE lobby
<1>1. l \in LobbyIds
    BY DEF TypeOK, ClientRec
<1>2. EndBurst(lobby[l]) \in LobbyRec
    BY <1>1, EndBurstType DEF TypeOK
<1>3. lb \in [LobbyIds -> LobbyRec]
    BY <1>2 DEF TypeOK
<1>4. /\ lobby' = [lb EXCEPT ![l] = Vacated(lb, c)]
      /\ numGames' = IF Empties(lb, c) THEN numGames - 1 ELSE numGames
    BY DEF RemovePlayer
<1>. HIDE DEF lb
<1>5. Vacated(lb, c) \in LobbyRec
    BY <1>3, VacatedType
<1>6. lobby' \in [LobbyIds -> LobbyRec]
    BY <1>3, <1>4, <1>5
<1>7. numGames' \in Int
    BY <1>4 DEF TypeOK
<1>. QED BY <1>6, <1>7

-----------------------------------------------------------------------------
(* Type correctness, one step per action.                                  *)

LEMMA TypeInit == Init => TypeOK
<1> SUFFICES ASSUME Init PROVE TypeOK
    OBVIOUS
<1>1. \A l \in LobbyIds :
        (IF l \in Games THEN Freed ELSE Empty("listed", "v2", 0)) \in LobbyRec
    BY FreedType, EmptyType, SlotZero DEF Versions
<1>2. \A c \in Clients : Fresh(FALSE) \in ClientRec
    BY FreshType
<1>3. lobby \in [LobbyIds -> LobbyRec]
    BY <1>1 DEF Init
<1>4. client \in [Clients -> ClientRec]
    BY <1>2 DEF Init
<1>5. numGames = 0 /\ numClients = 0 /\ now = 0
    BY DEF Init
<1>. QED BY <1>3, <1>4, <1>5 DEF TypeOK

LEMMA ConnectType ==
    ASSUME TypeOK, NEW c \in Clients, Connect(c)
    PROVE  TypeOK'
<1>1. client' \in [Clients -> ClientRec]
    BY FreshType DEF Connect, TypeOK
<1>2. numClients' = numClients + 1
    BY DEF Connect
<1>3. lobby' = lobby /\ numGames' = numGames /\ now' = now
    BY DEF Connect
<1>. QED BY <1>1, <1>2, <1>3 DEF TypeOK

LEMMA DropType ==
    ASSUME TypeOK, NEW c \in Clients, Drop(c)
    PROVE  TypeOK'
<1>1. client' \in [Clients -> ClientRec]
    BY FreshType DEF Drop, TypeOK
<1>2. numClients' = numClients - 1 /\ now' = now
    BY DEF Drop
<1>3. lobby' \in [LobbyIds -> LobbyRec] /\ numGames' \in Int
    <2>1. CASE client[c].lobby = None
        <3>1. lobby' = lobby /\ numGames' = numGames
            BY <2>1 DEF Drop
        <3>. QED BY <3>1 DEF TypeOK
    <2>2. CASE client[c].lobby # None
        <3>1. RemovePlayer(c)
            BY <2>2 DEF Drop
        <3>. QED BY <2>2, <3>1, RemovePlayerType
    <2>. QED BY <2>1, <2>2
<1>. QED BY <1>1, <1>2, <1>3 DEF TypeOK

LEMMA MovesType ==
    ASSUME TypeOK, NEW c \in Clients, Moves(c)
    PROVE  TypeOK'
<1>a. /\ lobby \in [LobbyIds -> LobbyRec]
      /\ client \in [Clients -> ClientRec]
      /\ client[c] \in ClientRec
      /\ numGames \in Int /\ numClients \in Int /\ now \in Nat
    BY DEF TypeOK
<1>b. client[c].lobby \in LobbyIds \cup {None}
    BY <1>a DEF ClientRec
<1>1. CASE EnterLobby(c)
    <2>1. AddToAny(lobby, numGames, c, client[c])
        BY <1>1 DEF EnterLobby
    <2>2. numClients' = numClients /\ now' = now
        BY <1>1 DEF EnterLobby
    <2>3. /\ lobby' \in [LobbyIds -> LobbyRec]
          /\ client' \in [Clients -> ClientRec]
          /\ numGames' \in Int
        BY <1>a, <2>1, AddToAnyType
    <2>. QED BY <1>a, <2>2, <2>3 DEF TypeOK
<1>2. CASE LeaveGame(c)
    <2>. DEFINE C == [client[c] EXCEPT !.lobby = None, !.id = 0, !.held = FALSE,
                                       !.browsing = FALSE]
    <2>1. C \in ClientRec
        BY <1>a, ClientFlagsType
    <2>2. client' = [client EXCEPT ![c] = C]
        BY <1>2 DEF LeaveGame
    <2>. HIDE DEF C
    <2>3. client' \in [Clients -> ClientRec]
        BY <1>a, <2>1, <2>2
    <2>4. RemovePlayer(c) /\ client[c].lobby # None
        BY <1>2 DEF LeaveGame
    <2>5. lobby' \in [LobbyIds -> LobbyRec] /\ numGames' \in Int
        BY <2>4, RemovePlayerType
    <2>6. numClients' = numClients /\ now' = now
        BY <1>2 DEF LeaveGame
    <2>. QED BY <1>a, <2>3, <2>5, <2>6 DEF TypeOK
<1>3. ASSUME NEW r \in LobbyIds, ChangeLobby(c, r) \/ SelectGame(c, r)
      PROVE  TypeOK'
    <2>1. Move(lobby, numGames, c, client[c], r) /\ client[c].lobby # None
        BY <1>3 DEF ChangeLobby, SelectGame
    <2>2. /\ lobby' \in [LobbyIds -> LobbyRec]
          /\ client' \in [Clients -> ClientRec]
          /\ numGames' \in Int
        BY <1>a, <2>1, MoveType
    <2>3. numClients' = numClients /\ now' = now
        BY <1>3 DEF ChangeLobby, SelectGame
    <2>. QED BY <1>a, <2>2, <2>3 DEF TypeOK
<1>4. CASE RejoinGame(c)
    <2>1. client[c] \in ClientRec /\ InGame(c) /\ Rejoin(c, client[c])
        BY <1>a, <1>4 DEF RejoinGame
    <2>2. numClients' = numClients /\ now' = now
        BY <1>4 DEF RejoinGame
    <2>. QED BY <1>a, <2>1, <2>2, RejoinType DEF TypeOK
<1>5. Games \subseteq LobbyIds
    BY DEF LobbyIds
<1>. QED BY <1>1, <1>2, <1>3, <1>4, <1>5 DEF Moves

LEMMA CreatesType ==
    ASSUME TypeOK, NEW c \in Clients, Creates(c)
    PROVE  TypeOK'
<1>a. /\ lobby \in [LobbyIds -> LobbyRec]
      /\ client \in [Clients -> ClientRec]
      /\ client[c] \in ClientRec
      /\ numGames \in Int /\ numClients \in Int /\ now \in Nat
    BY DEF TypeOK
<1>b. client[c].create \in Games \cup {None}
    BY <1>a DEF ClientRec
<1>c. Games \subseteq LobbyIds
    BY DEF LobbyIds
<1>1. ASSUME NEW g \in Games, CreateGame(c, g) PROVE TypeOK'
    <2>. DEFINE lb == [lobby EXCEPT ![g] = NewGame(c, "listed")]
    <2>1. lb \in [LobbyIds -> LobbyRec]
        BY <1>a, NewGameType
    <2>2. JoinNew(lb, numGames + 1, c, g, client[c], client[c])
        BY <1>1 DEF CreateGame
    <2>3. numClients' = numClients /\ now' = now
        BY <1>1 DEF CreateGame
    <2>. HIDE DEF lb
    <2>4. /\ lobby' \in [LobbyIds -> LobbyRec]
          /\ client' \in [Clients -> ClientRec]
          /\ numGames' \in Int
        BY <1>a, <2>1, <2>2, JoinNewType
    <2>. QED BY <1>a, <2>3, <2>4 DEF TypeOK
<1>2. ASSUME NEW g \in Games, CreatePending(c, g) PROVE TypeOK'
    <2>. DEFINE C == [client[c] EXCEPT !.create = g, !.menu = TRUE]
    <2>1. C \in ClientRec
        BY <1>a, ClientFlagsType
    <2>2. client' = [client EXCEPT ![c] = C]
        BY <1>2 DEF CreatePending
    <2>. HIDE DEF C
    <2>3. client' \in [Clients -> ClientRec]
        BY <1>a, <2>1, <2>2
    <2>4. lobby' \in [LobbyIds -> LobbyRec]
        BY <1>a, <1>2, NewGameType DEF CreatePending
    <2>5. numGames' \in Int
        BY <1>a, <1>2 DEF CreatePending
    <2>6. numClients' = numClients /\ now' = now
        BY <1>2 DEF CreatePending
    <2>. QED BY <1>a, <2>3, <2>4, <2>5, <2>6 DEF TypeOK
<1>. DEFINE h == client[c].create
<1>3. CASE ChooseType(c)
    <2>. DEFINE lb     == [lobby EXCEPT ![h] = [lobby[h] EXCEPT !.state = "listed"]]
                closed == [client[c] EXCEPT !.create = None, !.menu = FALSE]
    <2>1. h \in Games
        BY <1>b, <1>3 DEF ChooseType
    <2>2. [lobby[h] EXCEPT !.state = "listed"] \in LobbyRec
        BY <1>a, <1>c, <2>1, FlagsType
    <2>3. lb \in [LobbyIds -> LobbyRec]
        BY <1>a, <2>2
    <2>4. closed \in ClientRec
        BY <1>a, ClientFlagsType
    <2>5. JoinNew(lb, numGames + 1, c, h, closed, closed)
        BY <1>3 DEF ChooseType
    <2>6. numClients' = numClients /\ now' = now
        BY <1>3 DEF ChooseType
    <2>. HIDE DEF lb, closed, h
    <2>7. /\ lobby' \in [LobbyIds -> LobbyRec]
          /\ client' \in [Clients -> ClientRec]
          /\ numGames' \in Int
        BY <1>a, <2>1, <2>3, <2>4, <2>5, JoinNewType
    <2>. QED BY <1>a, <2>6, <2>7 DEF TypeOK
<1>4. CASE ChooseVersion(c)
    <2>1. h \in Games
        BY <1>b, <1>4 DEF ChooseVersion, Answers
    <2>2. /\ \A v \in Versions : [lobby[h] EXCEPT !.ver = v] \in LobbyRec
          /\ [lobby[h] EXCEPT !.gcOK = TRUE] \in LobbyRec
        BY <1>a, <1>c, <2>1, FlagsType
    <2>3. \E L \in LobbyRec : lobby' = [lobby EXCEPT ![h] = L]
        <3>1. CASE lobby' = [lobby EXCEPT ![h].gcOK = TRUE]
            BY <2>2, <3>1
        <3>2. ASSUME NEW v \in Versions, lobby' = [lobby EXCEPT ![h].ver = v]
              PROVE  \E L \in LobbyRec : lobby' = [lobby EXCEPT ![h] = L]
            BY <2>2, <3>2
        <3>3. "v2" \in Versions /\ "bb" \in Versions
            BY DEF Versions
        <3>. QED BY <1>4, <3>1, <3>2, <3>3 DEF ChooseVersion
    <2>4. lobby' \in [LobbyIds -> LobbyRec]
        BY <1>a, <2>3
    <2>5. UNCHANGED <<client, numGames, numClients, now>>
        BY <1>4 DEF ChooseVersion
    <2>. QED BY <1>a, <2>4, <2>5 DEF TypeOK
<1>5. CASE ChooseDrop(c)
    <2>. DEFINE ok     == [client[c] EXCEPT !.create = None, !.menu = FALSE]
                failed == [client[c] EXCEPT !.menu = FALSE]
    <2>1. h \in Games
        BY <1>b, <1>5 DEF ChooseDrop, Answers
    <2>2. ok \in ClientRec /\ failed \in ClientRec
        BY <1>a, ClientFlagsType
    <2>3. \/ InGame(c) /\ Rejoin(c, ok)
          \/ JoinNew(lobby, numGames, c, h, ok, failed)
        BY <1>5, <2>1 DEF ChooseDrop, InGame
    <2>4. numClients' = numClients /\ now' = now
        BY <1>5 DEF ChooseDrop
    <2>. HIDE DEF ok, failed, h
    <2>5. /\ lobby' \in [LobbyIds -> LobbyRec]
          /\ client' \in [Clients -> ClientRec]
          /\ numGames' \in Int
        <3>1. CASE InGame(c) /\ Rejoin(c, ok)
            BY <2>2, <3>1, RejoinType
        <3>2. CASE JoinNew(lobby, numGames, c, h, ok, failed)
            BY <1>a, <2>1, <2>2, <3>2, JoinNewType
        <3>. QED BY <2>3, <3>1, <3>2
    <2>. QED BY <1>a, <2>4, <2>5 DEF TypeOK
<1>6. CASE CancelCreate(c)
    <2>. DEFINE C == [client[c] EXCEPT !.menu = FALSE]
    <2>1. C \in ClientRec
        BY <1>a, ClientFlagsType
    <2>2. client' = [client EXCEPT ![c] = C]
        BY <1>6 DEF CancelCreate
    <2>. HIDE DEF C
    <2>3. client' \in [Clients -> ClientRec]
        BY <1>a, <2>1, <2>2
    <2>4. lobby' \in [LobbyIds -> LobbyRec]
        BY <1>a, <1>6, FreedType DEF CancelCreate
    <2>5. numGames' = numGames - 1 /\ numClients' = numClients /\ now' = now
        BY <1>6 DEF CancelCreate
    <2>. QED BY <1>a, <2>3, <2>4, <2>5 DEF TypeOK
<1>. QED BY <1>1, <1>2, <1>3, <1>4, <1>5, <1>6 DEF Creates

LEMMA PlaysType ==
    ASSUME TypeOK, NEW c \in Clients, Plays(c)
    PROVE  TypeOK'
<1>. DEFINE l == client[c].lobby
<1>a. /\ lobby \in [LobbyIds -> LobbyRec]
      /\ client \in [Clients -> ClientRec]
      /\ client[c] \in ClientRec
      /\ numGames \in Int /\ numClients \in Int /\ now \in Nat
    BY DEF TypeOK
<1>1. UNCHANGED <<numGames, numClients, now>>
    BY DEF Plays, Subcmd, DoneBurst, Ping, QuestList, QuestListEnd, SetupQuest,
           QloadDone, AllowGC
<1>2. l \in LobbyIds
    <2>1. l \in LobbyIds \cup {None}
        BY <1>a DEF ClientRec
    <2>2. InGame(c) \/ l # None
        BY DEF Plays, Subcmd, DoneBurst, Ping, QuestList, QuestListEnd,
               SetupQuest, QloadDone, AllowGC
    <2>. QED BY <2>1, <2>2 DEF InGame, LobbyIds
<1>3. lobby[l] \in LobbyRec
    BY <1>a, <1>2
<1>4. EndBurst(lobby[l]) \in LobbyRec
    BY <1>3, EndBurstType
<1>. SUFFICES /\ lobby' \in [LobbyIds -> LobbyRec]
              /\ client' \in [Clients -> ClientRec]
    BY <1>a, <1>1 DEF TypeOK
<1>5. CASE Subcmd(c)
    <2>1. Enqueue(lobby[l], c) \in LobbyRec
        BY <1>3, FlagsType
    <2>2. lobby' = [lobby EXCEPT ![l] = Enqueue(lobby[l], c)] /\ client' = client
        BY <1>5 DEF Subcmd
    <2>. QED BY <1>a, <2>1, <2>2
<1>6. CASE DoneBurst(c)
    <2>1. CASE lobby[l].questing
        <3>. DEFINE C == [client[c] EXCEPT !.waitq = TRUE, !.qloaded = FALSE]
        <3>1. C \in ClientRec
            BY <1>a, ClientFlagsType
        <3>2. client' = [client EXCEPT ![c] = C] /\ lobby' = lobby
            BY <1>6, <2>1 DEF DoneBurst
        <3>. QED BY <1>a, <3>1, <3>2
    <2>2. CASE ~lobby[l].questing
        <3>. DEFINE C == [client[c] EXCEPT !.bursting = FALSE]
        <3>1. C \in ClientRec
            BY <1>a, ClientFlagsType
        <3>2. /\ client' = [client EXCEPT ![c] = C]
              /\ lobby' = [lobby EXCEPT ![l] = EndBurst(lobby[l])]
            BY <1>6, <2>2 DEF DoneBurst
        <3>. QED BY <1>a, <1>4, <3>1, <3>2
    <2>. QED BY <2>1, <2>2
<1>7. CASE Ping(c)
    <2>. DEFINE C == [client[c] EXCEPT !.bursting = FALSE, !.waitq = FALSE]
    <2>1. C \in ClientRec
        BY <1>a, ClientFlagsType
    <2>2. /\ client' = [client EXCEPT ![c] = C]
          /\ lobby' = [lobby EXCEPT ![l] = EndBurst(lobby[l])]
        BY <1>7 DEF Ping
    <2>. QED BY <1>a, <1>4, <2>1, <2>2
<1>8. ASSUME NEW b \in BOOLEAN,
             lobby' = [lobby EXCEPT ![l].questsel = b],
             client' = [client EXCEPT ![c].browsing = b]
      PROVE  /\ lobby' \in [LobbyIds -> LobbyRec]
             /\ client' \in [Clients -> ClientRec]
    <2>. DEFINE L == [lobby[l] EXCEPT !.questsel = b]
                C == [client[c] EXCEPT !.browsing = b]
    <2>1. L \in LobbyRec
        BY <1>3, FlagsType
    <2>2. C \in ClientRec
        BY <1>a, ClientFlagsType
    <2>3. lobby' = [lobby EXCEPT ![l] = L] /\ client' = [client EXCEPT ![c] = C]
        BY <1>8
    <2>. QED BY <1>a, <2>1, <2>2, <2>3
<1>9. CASE SetupQuest(c)
    <2>1. CASE /\ lobby' = [lobby EXCEPT ![l].questsel = FALSE]
               /\ client' = [client EXCEPT ![c].browsing = FALSE]
        BY <1>8, <2>1
    <2>2. ASSUME NEW j \in BOOLEAN,
                 lobby' = [lobby EXCEPT ![l].questing = TRUE,
                                        ![l].questsel = FALSE,
                                        ![l].joinable = j],
                 client' =
                   [d \in Clients |->
                      IF client[d].lobby = l
                        THEN [client[d] EXCEPT !.qloaded = FALSE,
                                               !.held = FALSE,
                                               !.browsing = FALSE]
                        ELSE client[d]]
          PROVE  /\ lobby' \in [LobbyIds -> LobbyRec]
                 /\ client' \in [Clients -> ClientRec]
        <3>. DEFINE L == [lobby[l] EXCEPT !.questing = TRUE, !.questsel = FALSE,
                                          !.joinable = j]
        <3>1. L \in LobbyRec
            BY <1>3, FlagsType
        <3>2. lobby' = [lobby EXCEPT ![l] = L]
            BY <2>2
        <3>3. \A d \in Clients :
                /\ client[d] \in ClientRec
                /\ [client[d] EXCEPT !.qloaded = FALSE, !.held = FALSE,
                                     !.browsing = FALSE] \in ClientRec
            BY <1>a, ClientFlagsType
        <3>. QED BY <1>a, <2>2, <3>1, <3>2, <3>3
    <2>3. lobby[l].joinable \in BOOLEAN
        BY <1>3 DEF LobbyRec
    <2>. QED BY <1>9, <2>1, <2>2, <2>3 DEF SetupQuest
<1>10. CASE QloadDone(c)
    <2>1. lobby' = lobby
        BY <1>10 DEF QloadDone
    <2>2. CASE client' = [client EXCEPT ![c].qloaded = TRUE, ![c].held = TRUE]
        <3>. DEFINE C == [client[c] EXCEPT !.qloaded = TRUE, !.held = TRUE]
        <3>1. C \in ClientRec
            BY <1>a, ClientFlagsType
        <3>2. client' = [client EXCEPT ![c] = C]
            BY <2>2
        <3>. QED BY <1>a, <2>1, <3>1, <3>2
    <2>3. CASE client' =
                 [d \in Clients |->
                    IF client[d].lobby = l
                      THEN [client[d] EXCEPT !.held = FALSE,
                                             !.qloaded = @ \/ d = c]
                      ELSE client[d]]
        <3>1. \A d \in Clients : client[d] \in ClientRec
            BY <1>a
        <3>2. \A d \in Clients, b \in BOOLEAN :
                [client[d] EXCEPT !.held = FALSE, !.qloaded = b] \in ClientRec
            BY <3>1, ClientFlagsType
        <3>3. \A d \in Clients : (client[d].qloaded \/ d = c) \in BOOLEAN
            OBVIOUS
        <3>4. \A d \in Clients :
                [client[d] EXCEPT !.held = FALSE,
                                  !.qloaded = client[d].qloaded \/ d = c]
                  \in ClientRec
            BY <3>2, <3>3
        <3>. QED BY <1>a, <2>1, <2>3, <3>1, <3>4
    <2>. QED BY <1>10, <2>2, <2>3 DEF QloadDone
<1>11. CASE AllowGC(c)
    <2>1. PICK b \in BOOLEAN : lobby' = [lobby EXCEPT ![l].gcOK = b]
        BY <1>11 DEF AllowGC
    <2>2. client' = client
        BY <1>11 DEF AllowGC
    <2>. DEFINE L == [lobby[l] EXCEPT !.gcOK = b]
    <2>3. L \in LobbyRec
        BY <1>3, FlagsType
    <2>4. lobby' = [lobby EXCEPT ![l] = L]
        BY <2>1
    <2>. QED BY <1>a, <2>2, <2>3, <2>4
<1>12. CASE QuestList(c) \/ QuestListEnd(c)
    BY <1>8, <1>12 DEF QuestList, QuestListEnd
<1>. QED BY <1>5, <1>6, <1>7, <1>9, <1>10, <1>11, <1>12 DEF Plays

LEMMA TypeStep == TypeOK /\ [Next]_vars => TypeOK'
<1> SUFFICES ASSUME TypeOK, [Next]_vars PROVE TypeOK'
    OBVIOUS
<1>1. CASE Tick
    BY <1>1 DEF Tick, TypeOK
<1>2. CASE UNCHANGED vars
    BY <1>2 DEF vars, TypeOK
<1>3. ASSUME NEW c \in Clients,
             Connect(c) \/ Drop(c) \/ Moves(c) \/ Creates(c) \/ Plays(c)
      PROVE  TypeOK'
    BY <1>3, ConnectType, DropType, MovesType, CreatesType, PlaysType
<1>. QED BY <1>1, <1>2, <1>3 DEF Next

\* Every variable keeps its type, for any set of clients, lobbies and games:
\* in particular the leader_id that lobby_elect_leader stores is a slot, also
\* when the election finds nobody and -1 has to be replaced.
THEOREM TypeCorrect == Spec => []TypeOK
<1>1. Init => TypeOK
    BY TypeInit
<1>2. TypeOK /\ [Next]_vars => TypeOK'
    BY TypeStep
<1>. QED BY <1>1, <1>2, PTL DEF Spec

-----------------------------------------------------------------------------
(* The queues.  One place fills a queue (lobby_enqueue_pkt, during a burst) *)
(* and many can end a burst: every one of them must play the queue.  The    *)
(* invariant needs nothing else than the types, so it holds for clients     *)
(* that send any packet at any moment, and for games whose creator is still *)
(* in the menus.                                                            *)

\* No packet is left in a lobby that is open.
Played(L) == L.queue # <<>> => L.bursting

AllPlayed(lb) == \A l \in LobbyIds : Played(lb[l])

-----------------------------------------------------------------------------
(* The operators.                                                          *)

LEMMA EmptyPlayed == Played(Freed) /\ \A c, st : Played(NewGame(c, st))
BY DEF Played, Freed, NewGame, Empty

LEMMA EndBurstPlayed ==
    ASSUME NEW L \in LobbyRec
    PROVE  Played(EndBurst(L))
BY DEF Played, EndBurst, LobbyRec

\* An election changes neither the queue nor the flag.
LEMMA RemovePlayed ==
    ASSUME NEW L \in LobbyRec, NEW c \in Clients, NEW i \in Slots, Played(L)
    PROVE  Played(RemoveClient(L, c, i))
<1>. DEFINE E == IF i = L.leader THEN Elect(L) ELSE L
            s == [E.slot EXCEPT ![i] = None]
<1>1. /\ Elect(L) \in LobbyRec
      /\ Elect(L).queue = L.queue
      /\ Elect(L).bursting = L.bursting
    <2>1. \E x, b, v : \/ Elect(L) = [L EXCEPT !.leader = x]
                       \/ Elect(L) = [L EXCEPT !.leader = x, !.gcOK = b, !.ver = v]
        BY DEF Elect
    <2>. QED BY <2>1, ElectType DEF LobbyRec
<1>2. E \in LobbyRec /\ E.queue = L.queue /\ E.bursting = L.bursting
    BY <1>1
<1>3. RemoveClient(L, c, i) =
        IF L.slot[i] # c THEN L
        ELSE [E EXCEPT !.slot[i] = None, !.num = @ - 1]
    BY DEF RemoveClient
<1>. HIDE DEF E
<1>4. [E EXCEPT !.slot[i] = None, !.num = @ - 1] =
        [E EXCEPT !.slot = s, !.num = E.num - 1]
    BY <1>2 DEF LobbyRec
<1>. HIDE DEF s
<1>5. Played([E EXCEPT !.slot = s, !.num = E.num - 1])
    BY <1>2 DEF Played, LobbyRec
<1>. QED BY <1>3, <1>4, <1>5

LEMMA VacatedPlayed ==
    ASSUME TypeOK, NEW lb \in [LobbyIds -> LobbyRec], NEW c \in Clients,
           client[c].lobby # None, AllPlayed(lb)
    PROVE  Played(Vacated(lb, c))
<1>1. client[c].lobby \in LobbyIds /\ client[c].id \in Slots
    BY DEF TypeOK, ClientRec
<1>. QED BY <1>1, EmptyPlayed, RemovePlayed DEF Vacated, AllPlayed

LEMMA SeatedPlayed ==
    ASSUME NEW lb \in [LobbyIds -> LobbyRec], NEW c \in Clients,
           NEW r \in LobbyIds, NEW i \in Slots, AllPlayed(lb)
    PROVE  Played(Seated(lb, c, r, i))
<1>. DEFINE L == lb[r]
            s == [L.slot EXCEPT ![i] = c]
            x == IF L.num = 0 THEN i ELSE L.leader
            A == [L EXCEPT !.slot = s, !.num = L.num + 1, !.leader = x]
<1>1. L \in LobbyRec /\ Played(L)
    BY DEF AllPlayed
<1>2. Seated(lb, c, r, i) = IF r \in Games THEN [A EXCEPT !.bursting = TRUE] ELSE A
    BY <1>1 DEF Seated, AddClient, LobbyRec
<1>. HIDE DEF s, x, L
<1>3. /\ A.queue = L.queue /\ A.bursting = L.bursting
      /\ [A EXCEPT !.bursting = TRUE].bursting = TRUE
    BY <1>1 DEF LobbyRec
<1>. HIDE DEF A
<1>. QED BY <1>1, <1>2, <1>3 DEF Played

LEMMA MovePlayed ==
    ASSUME TypeOK, NEW lb \in [LobbyIds -> LobbyRec], NEW n, NEW c \in Clients,
           NEW C, NEW r \in LobbyIds, client[c].lobby # None, AllPlayed(lb),
           Move(lb, n, c, C, r)
    PROVE  AllPlayed(lobby')
<1>. DEFINE l == client[c].lobby
<1>1. PICK i \in Slots :
         lobby' = [lb EXCEPT ![r] = Seated(lb, c, r, i), ![l] = Vacated(lb, c)]
    BY DEF Move
<1>2. Played(Seated(lb, c, r, i)) /\ Played(Vacated(lb, c))
    BY SeatedPlayed, VacatedPlayed
<1>. QED BY <1>1, <1>2 DEF AllPlayed

LEMMA AddToAnyPlayed ==
    ASSUME NEW lb \in [LobbyIds -> LobbyRec], NEW n, NEW c \in Clients, NEW C,
           AllPlayed(lb), AddToAny(lb, n, c, C)
    PROVE  AllPlayed(lobby')
<1>1. PICK d \in DefaultLobbies, i \in Slots :
         lobby' = [lb EXCEPT ![d] = Seated(lb, c, d, i)]
    BY DEF AddToAny
<1>2. d \in LobbyIds
    BY DEF LobbyIds
<1>. QED BY <1>1, <1>2, SeatedPlayed DEF AllPlayed

LEMMA RejoinPlayed ==
    ASSUME TypeOK, AllPlayed(lobby), NEW c \in Clients, NEW ok, InGame(c),
           Rejoin(c, ok)
    PROVE  AllPlayed(lobby')
<1>1. /\ client[c].lobby \in LobbyIds
      /\ lobby' = [lobby EXCEPT ![client[c].lobby].bursting = TRUE]
    BY DEF Rejoin, InGame, LobbyIds
<1>2. Played([lobby[client[c].lobby] EXCEPT !.bursting = TRUE])
    BY <1>1 DEF Played, LobbyRec, TypeOK
<1>. QED BY <1>1, <1>2 DEF AllPlayed, TypeOK

LEMMA JoinNewPlayed ==
    ASSUME TypeOK, NEW lb \in [LobbyIds -> LobbyRec], NEW n, NEW c \in Clients,
           NEW g \in Games, NEW ok, NEW failed, AllPlayed(lb),
           JoinNew(lb, n, c, g, ok, failed)
    PROVE  AllPlayed(lobby')
<1>1. g \in LobbyIds
    BY DEF LobbyIds
<1>2. CASE client[c].lobby # None /\ Move(lb, n, c, ok, g)
    BY <1>1, <1>2, MovePlayed
<1>3. CASE AddToAny(lb, n, c, ok)
    BY <1>3, AddToAnyPlayed
<1>4. CASE lobby' = lb
    BY <1>4
<1>5. CASE lobby' = [lb EXCEPT ![g] = Freed]
    BY <1>1, <1>5, EmptyPlayed DEF AllPlayed
<1>. QED BY <1>2, <1>3, <1>4, <1>5 DEF JoinNew

\* lobby_remove_player ends the leaving client's burst before it removes it.
LEMMA RemovePlayerPlayed ==
    ASSUME TypeOK, AllPlayed(lobby), NEW c \in Clients, client[c].lobby # None,
           RemovePlayer(c)
    PROVE  AllPlayed(lobby')
<1>. DEFINE l  == client[c].lobby
            lb == IF client[c].bursting
                    THEN [lobby EXCEPT ![l] = EndBurst(@)]
                    ELSE lobby
<1>1. l \in LobbyIds /\ lobby[l] \in LobbyRec
    BY DEF TypeOK, ClientRec
<1>2. lb \in [LobbyIds -> LobbyRec]
    BY <1>1, EndBurstType DEF TypeOK
<1>3. AllPlayed(lb)
    BY <1>1, EndBurstPlayed DEF AllPlayed, TypeOK
<1>4. lobby' = [lb EXCEPT ![l] = Vacated(lb, c)]
    BY DEF RemovePlayer
<1>. HIDE DEF lb
<1>5. Played(Vacated(lb, c))
    BY <1>2, <1>3, VacatedPlayed
<1>. QED BY <1>2, <1>3, <1>4, <1>5 DEF AllPlayed

-----------------------------------------------------------------------------
(* The handlers.                                                           *)

LEMMA MovesPlayed ==
    ASSUME TypeOK, AllPlayed(lobby), NEW c \in Clients, Moves(c)
    PROVE  AllPlayed(lobby')
<1>a. lobby \in [LobbyIds -> LobbyRec] /\ Games \subseteq LobbyIds
    BY DEF TypeOK, LobbyIds
<1>1. CASE EnterLobby(c)
    BY <1>a, <1>1, AddToAnyPlayed DEF EnterLobby
<1>2. CASE LeaveGame(c)
    BY <1>2, RemovePlayerPlayed DEF LeaveGame
<1>3. ASSUME NEW r \in LobbyIds, ChangeLobby(c, r)
      PROVE  AllPlayed(lobby')
    BY <1>a, <1>3, MovePlayed DEF ChangeLobby
<1>4. ASSUME NEW g \in Games, SelectGame(c, g)
      PROVE  AllPlayed(lobby')
    BY <1>a, <1>4, MovePlayed DEF SelectGame
<1>5. CASE RejoinGame(c)
    BY <1>5, RejoinPlayed DEF RejoinGame
<1>. QED BY <1>1, <1>2, <1>3, <1>4, <1>5 DEF Moves

LEMMA CreatesPlayed ==
    ASSUME TypeOK, AllPlayed(lobby), NEW c \in Clients, Creates(c)
    PROVE  AllPlayed(lobby')
<1>. DEFINE g == client[c].create
<1>a. /\ lobby \in [LobbyIds -> LobbyRec]
      /\ Games \subseteq LobbyIds
      /\ g # None => g \in Games
    BY DEF TypeOK, LobbyIds, ClientRec
<1>b. \A k \in Games, st \in {"pending", "listed"} :
        LET lb == [lobby EXCEPT ![k] = NewGame(c, st)]
        IN  lb \in [LobbyIds -> LobbyRec] /\ AllPlayed(lb)
    BY <1>a, NewGameType, EmptyPlayed DEF AllPlayed
<1>c. ASSUME g # None
      PROVE  /\ Played([lobby[g] EXCEPT !.state = "listed"])
             /\ [lobby[g] EXCEPT !.state = "listed"] \in LobbyRec
             /\ Played([lobby[g] EXCEPT !.gcOK = TRUE])
             /\ \A v : Played([lobby[g] EXCEPT !.ver = v])
    <2>1. lobby[g] \in LobbyRec /\ Played(lobby[g])
        BY <1>a, <1>c DEF AllPlayed
    <2>2. [lobby[g] EXCEPT !.state = "listed"] \in LobbyRec
        BY <2>1, FlagsType
    <2>. HIDE DEF g
    <2>3. /\ Played([lobby[g] EXCEPT !.state = "listed"])
          /\ Played([lobby[g] EXCEPT !.gcOK = TRUE])
          /\ \A v : Played([lobby[g] EXCEPT !.ver = v])
        BY <2>1 DEF Played, LobbyRec
    <2>. QED BY <2>2, <2>3
<1>1. ASSUME NEW k \in Games, CreateGame(c, k)
      PROVE  AllPlayed(lobby')
    BY <1>b, <1>1, JoinNewPlayed DEF CreateGame
<1>2. ASSUME NEW k \in Games, CreatePending(c, k)
      PROVE  AllPlayed(lobby')
    BY <1>b, <1>2 DEF CreatePending
<1>3. CASE ChooseType(c)
    <2>. DEFINE lb     == [lobby EXCEPT ![g] = [lobby[g] EXCEPT !.state = "listed"]]
                closed == [client[c] EXCEPT !.create = None, !.menu = FALSE]
    <2>1. g \in Games /\ JoinNew(lb, numGames + 1, c, g, closed, closed)
        BY <1>a, <1>3 DEF ChooseType
    <2>2. g \in LobbyIds /\ g # None
        BY <1>a, <2>1, <1>3 DEF ChooseType
    <2>3. lb \in [LobbyIds -> LobbyRec]
        BY <1>a, <1>c, <2>2
    <2>4. AllPlayed(lb)
        BY <1>a, <1>c, <2>2 DEF AllPlayed
    <2>. HIDE DEF lb, closed, g
    <2>. QED BY <2>1, <2>3, <2>4, JoinNewPlayed
<1>4. CASE ChooseVersion(c)
    BY <1>a, <1>c, <1>4 DEF ChooseVersion, Answers, AllPlayed
<1>5. CASE ChooseDrop(c)
    <2>. DEFINE ok     == [client[c] EXCEPT !.create = None, !.menu = FALSE]
                failed == [client[c] EXCEPT !.menu = FALSE]
    <2>1. g \in Games
        BY <1>a, <1>5 DEF ChooseDrop, Answers
    <2>2. \/ InGame(c) /\ Rejoin(c, ok)
          \/ JoinNew(lobby, numGames, c, g, ok, failed)
        BY <1>5, <2>1 DEF ChooseDrop, InGame
    <2>. HIDE DEF ok, failed, g
    <2>. QED BY <1>a, <2>1, <2>2, RejoinPlayed, JoinNewPlayed
<1>6. CASE CancelCreate(c)
    BY <1>a, <1>6, EmptyPlayed DEF CancelCreate, Answers, AllPlayed
<1>. QED BY <1>1, <1>2, <1>3, <1>4, <1>5, <1>6 DEF Creates

LEMMA PlaysPlayed ==
    ASSUME TypeOK, AllPlayed(lobby), NEW c \in Clients, Plays(c)
    PROVE  AllPlayed(lobby')
<1>. DEFINE l == client[c].lobby
<1>a. /\ lobby \in [LobbyIds -> LobbyRec]
      /\ Games \subseteq LobbyIds
      /\ l # None => l \in LobbyIds
    BY DEF TypeOK, LobbyIds, ClientRec
<1>b. ASSUME NEW L \in LobbyRec, Played(L)
      PROVE  /\ \A b \in BOOLEAN : /\ Played([L EXCEPT !.questsel = b])
                                   /\ Played([L EXCEPT !.gcOK = b])
                                   /\ Played([L EXCEPT !.questing = TRUE,
                                                       !.questsel = FALSE,
                                                       !.joinable = b])
             /\ L.bursting => Played(Enqueue(L, c))
    BY <1>b DEF Played, Enqueue, LobbyRec
<1>c. ASSUME l \in LobbyIds, NEW M, Played(M),
             lobby' = [lobby EXCEPT ![l] = M]
      PROVE  AllPlayed(lobby')
    BY <1>a, <1>c DEF AllPlayed
<1>d. ASSUME l \in LobbyIds
      PROVE  lobby[l] \in LobbyRec /\ Played(lobby[l])
    BY <1>a, <1>d DEF AllPlayed
<1>1. CASE Subcmd(c)
    BY <1>a, <1>b, <1>c, <1>d, <1>1 DEF Subcmd, InGame
<1>2. CASE DoneBurst(c)
    BY <1>a, <1>c, <1>d, <1>2, EndBurstPlayed DEF DoneBurst, InGame
<1>3. CASE Ping(c)
    BY <1>a, <1>c, <1>d, <1>3, EndBurstPlayed DEF Ping
<1>4. CASE QuestList(c) \/ QuestListEnd(c)
    <2>1. /\ l \in LobbyIds
          /\ \E b \in BOOLEAN :
               lobby' = [lobby EXCEPT ![l] = [lobby[l] EXCEPT !.questsel = b]]
        BY <1>a, <1>4 DEF QuestList, QuestListEnd, InGame
    <2>. QED BY <1>b, <1>c, <1>d, <2>1
<1>5. CASE SetupQuest(c)
    <2>1. l \in LobbyIds /\ lobby[l] \in LobbyRec /\ Played(lobby[l])
        BY <1>a, <1>d, <1>5 DEF SetupQuest
    <2>2. lobby[l].joinable \in BOOLEAN
        BY <2>1 DEF LobbyRec
    <2>3. \/ \E j \in BOOLEAN :
               lobby' = [lobby EXCEPT ![l].questing = TRUE,
                                      ![l].questsel = FALSE,
                                      ![l].joinable = j]
          \/ lobby' = [lobby EXCEPT ![l].questsel = FALSE]
        BY <2>2, <1>5 DEF SetupQuest
    <2>4. \/ \E j \in BOOLEAN :
               lobby' = [lobby EXCEPT ![l] =
                           [lobby[l] EXCEPT !.questing = TRUE,
                                            !.questsel = FALSE,
                                            !.joinable = j]]
          \/ lobby' = [lobby EXCEPT ![l] = [lobby[l] EXCEPT !.questsel = FALSE]]
        BY <1>a, <2>1, <2>3
    <2>. QED BY <1>b, <1>c, <2>1, <2>4
<1>6. CASE QloadDone(c)
    BY <1>6 DEF QloadDone
<1>7. CASE AllowGC(c)
    <2>1. /\ l \in LobbyIds
          /\ \E b \in BOOLEAN :
               lobby' = [lobby EXCEPT ![l] = [lobby[l] EXCEPT !.gcOK = b]]
        BY <1>a, <1>7 DEF AllowGC, InGame
    <2>. QED BY <1>b, <1>c, <1>d, <2>1
<1>. QED BY <1>1, <1>2, <1>3, <1>4, <1>5, <1>6, <1>7 DEF Plays

LEMMA QueueStep == TypeOK /\ AllPlayed(lobby) /\ [Next]_vars => AllPlayed(lobby')
<1> SUFFICES ASSUME TypeOK, AllPlayed(lobby), [Next]_vars PROVE AllPlayed(lobby')
    OBVIOUS
<1>1. CASE Tick \/ UNCHANGED vars
    BY <1>1 DEF Tick, vars
<1>2. ASSUME NEW c \in Clients, Connect(c)
      PROVE  AllPlayed(lobby')
    BY <1>2 DEF Connect
<1>3. ASSUME NEW c \in Clients, Drop(c)
      PROVE  AllPlayed(lobby')
    BY <1>3, RemovePlayerPlayed DEF Drop
<1>4. ASSUME NEW c \in Clients, Moves(c) \/ Creates(c) \/ Plays(c)
      PROVE  AllPlayed(lobby')
    BY <1>4, MovesPlayed, CreatesPlayed, PlaysPlayed
<1>. QED BY <1>1, <1>2, <1>3, <1>4 DEF Next

\* A queued packet waits for a burst that is still going on, for any clients,
\* lobbies and games and whatever packets the clients send (until, without
\* OpenMenus, a game is freed under its members): every way a burst can end
\* (lobby_handle_done_burst from the client's answer, from its ping or from
\* lobby_remove_player, and the destruction of the game) empties the queue.
THEOREM QueueCorrect == Spec => []QueueOnlyWhileBursting
<1>1. Init => TypeOK /\ AllPlayed(lobby)
    BY TypeInit, EmptyPlayed
    DEF Init, AllPlayed, Played, Empty
<1>2. TypeOK /\ AllPlayed(lobby) /\ [Next]_vars => (TypeOK /\ AllPlayed(lobby))'
    BY TypeStep, QueueStep
<1>3. AllPlayed(lobby) => QueueOnlyWhileBursting
    BY DEF AllPlayed, Played, QueueOnlyWhileBursting
<1>. QED BY <1>1, <1>2, <1>3, PTL DEF Spec
=============================================================================
