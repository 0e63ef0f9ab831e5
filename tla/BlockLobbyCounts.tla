-------------------------- MODULE BlockLobbyCounts --------------------------
(***************************************************************************)
(* Proof that the counts of a block are the true ones, as long as nobody   *)
(* joins a game whose creator is still in the creation menus, and nobody   *)
(* answers a creation menu that is closed.                                 *)
(*                                                                         *)
(* The number of games goes up when a game is listed and down when one is  *)
(* destroyed.  So a game that is destroyed must be one that was listed: it *)
(* has a member, or it is the game of an open BB menu; and a game that a   *)
(* PC menu lists must not have been listed before.                         *)
(***************************************************************************)
EXTENDS BlockLobbySlots

\* The listed games, as a handler sees them half-way.
On(lb) == {g \in Games : lb[g].state = "listed"}

\* No lobby is over its limit.
Fits(lb) == \A l \in LobbyIds : lb[l].num <= Cap(l)

Right(lb, n) == Fits(lb) /\ n = Cardinality(On(lb))

Up == {c \in Clients : client[c].up}

\* Whoever is in a game is in a listed one.
PlayedListed ==
    \A c \in Clients : InGame(c) => lobby[client[c].lobby].state = "listed"

\* A BB menu is about a listed game, a PC menu about one that is in no list.
MenuStates ==
    \A c \in Clients : client[c].menu =>
        lobby[client[c].create].state =
            IF Version[c] = "bb" THEN "listed" ELSE "pending"

CountsInv ==
    /\ Right(lobby, numGames)
    /\ PlayedListed
    /\ MenuStates
    /\ numClients = Cardinality(Up)

-----------------------------------------------------------------------------
(* The operators.                                                          *)

LEMMA GamesFinite ==
    \A lb : IsFiniteSet(On(lb)) /\ Cardinality(On(lb)) \in Nat
<1>1. \A lb : On(lb) \in SUBSET Games
    BY DEF On
<1>. QED BY <1>1, ConstantsAssumption, FS_Subset, FS_CardinalityType

\* A destroyed game was counted before and is not any more.
LEMMA Uncounted ==
    ASSUME NEW lb, NEW lc, NEW g \in On(lb), On(lc) = On(lb) \ {g}
    PROVE  Cardinality(On(lc)) = Cardinality(On(lb)) - 1
BY GamesFinite, FS_RemoveElement

LEMMA Counted ==
    ASSUME NEW lb, NEW lc, NEW g \in Games, g \notin On(lb),
           On(lc) = On(lb) \cup {g}
    PROVE  Cardinality(On(lc)) = Cardinality(On(lb)) + 1
BY GamesFinite, FS_AddElement

LEMMA Caps == \A l \in LobbyIds : Cap(l) \in Nat
BY ConstantsAssumption DEF Cap

\* What is left of a lobby has no more members than before.
LEMMA VacatedCount ==
    ASSUME TypeOK, NEW lb \in [LobbyIds -> LobbyRec], NEW c \in Clients,
           client[c].lobby # None
    PROVE  LET V == Vacated(lb, c)
           IN  /\ V.num \in Int
               /\ V.num <= lb[client[c].lobby].num \/ V.num = 0
               /\ Empties(lb, c) => V.state = "free"
               /\ ~Empties(lb, c) => V.state = lb[client[c].lobby].state
<1>. DEFINE l == client[c].lobby
            V == Vacated(lb, c)
<1>1. l \in LobbyIds /\ client[c].id \in Slots
    BY DEF TypeOK, ClientRec
<1>2. lb[l] \in LobbyRec /\ lb[l].num \in Int
    BY <1>1 DEF LobbyRec
<1>3. CASE Empties(lb, c)
    BY <1>3 DEF Vacated, Freed, Empty
<1>4. CASE ~Empties(lb, c)
    <2>1. V = RemoveClient(lb[l], c, client[c].id)
        BY <1>4 DEF Vacated
    <2>2. CASE lb[l].slot[client[c].id] = c
        <3>1. V.num = lb[l].num - 1 /\ V.state = lb[l].state
            BY <1>1, <1>2, <2>1, <2>2, RemoveClientType
        <3>. QED BY <1>2, <1>4, <3>1
    <2>3. CASE lb[l].slot[client[c].id] # c
        <3>1. V = lb[l]
            BY <2>1, <2>3 DEF RemoveClient
        <3>. QED BY <1>2, <1>4, <3>1
    <2>. QED BY <2>2, <2>3
<1>. QED BY <1>3, <1>4

LEMMA MoveCounts ==
    ASSUME TypeOK, NEW lb \in [LobbyIds -> LobbyRec], NEW n, Right(lb, n),
           NEW c \in Clients, NEW C, NEW r \in LobbyIds,
           client[c].lobby \notin {None, r},
           client[c].lobby \in Games => lb[client[c].lobby].state = "listed",
           Move(lb, n, c, C, r)
    PROVE  /\ Right(lobby, numGames)'
           /\ \A g \in Games : lobby'[g].state \in {lb[g].state, "free"}
           /\ lobby'[r].state = lb[r].state
<1>. DEFINE l == client[c].lobby
<1>1. PICK i \in Slots :
         /\ TakesSlot(lb[r], r, i)
         /\ lobby' = [lb EXCEPT ![r] = Seated(lb, c, r, i), ![l] = Vacated(lb, c)]
         /\ numGames' = IF Empties(lb, c) THEN n - 1 ELSE n
    BY DEF Move
<1>2. l \in LobbyIds /\ l # r
    BY DEF TypeOK, ClientRec
<1>3. \A k \in LobbyIds : lobby'[k] = IF k = l THEN Vacated(lb, c)
                                      ELSE IF k = r THEN Seated(lb, c, r, i)
                                      ELSE lb[k]
    BY <1>1, <1>2
<1>4. /\ Seated(lb, c, r, i).num = lb[r].num + 1
      /\ Seated(lb, c, r, i).state = lb[r].state
      /\ lb[r].num < Cap(r)
      /\ lb[r].num \in Int
    <2>1. lb[r] \in LobbyRec
        OBVIOUS
    <2>2. lb[r].num \in Int
        BY <2>1 DEF LobbyRec
    <2>. QED BY <1>1, <2>2, SeatedType DEF TakesSlot
<1>5. /\ Vacated(lb, c).num \in Int
      /\ Vacated(lb, c).num <= lb[l].num \/ Vacated(lb, c).num = 0
      /\ Empties(lb, c) => Vacated(lb, c).state = "free"
      /\ ~Empties(lb, c) => Vacated(lb, c).state = lb[l].state
    BY VacatedCount
<1>6. Fits(lobby')
    <2>1. \A k \in LobbyIds : lb[k].num \in Int
        BY DEF LobbyRec
    <2>. QED BY <1>2, <1>3, <1>4, <1>5, <2>1, Caps DEF Fits, Right
<1>7. \A g \in Games : lobby'[g].state =
         IF g = l /\ Empties(lb, c) THEN "free" ELSE lb[g].state
    BY <1>3, <1>4, <1>5 DEF LobbyIds
<1>8. numGames' = Cardinality(On(lobby'))
    <2>1. CASE Empties(lb, c)
        <3>1. l \in On(lb)
            BY <2>1 DEF Empties, On
        <3>2. On(lobby') = On(lb) \ {l}
            BY <1>7, <2>1 DEF On
        <3>. QED BY <1>1, <2>1, <3>1, <3>2, Uncounted DEF Right
    <2>2. CASE ~Empties(lb, c)
        <3>1. On(lobby') = On(lb)
            BY <1>7, <2>2 DEF On
        <3>. QED BY <1>1, <2>2, <3>1 DEF Right
    <2>. QED BY <2>1, <2>2
<1>9. lobby'[r].state = lb[r].state
    BY <1>2, <1>3, <1>4
<1>. QED BY <1>6, <1>7, <1>8, <1>9 DEF Right

LEMMA AddToAnyCounts ==
    ASSUME NEW lb \in [LobbyIds -> LobbyRec], NEW n, Right(lb, n),
           NEW c \in Clients, NEW C, AddToAny(lb, n, c, C)
    PROVE  /\ Right(lobby, numGames)'
           /\ \A g \in Games : lobby'[g] = lb[g]
<1>1. PICK r \in DefaultLobbies, i \in Slots :
         /\ TakesSlot(lb[r], r, i)
         /\ lobby' = [lb EXCEPT ![r] = Seated(lb, c, r, i)]
         /\ numGames' = n
    BY DEF AddToAny
<1>2. r \in LobbyIds /\ r \notin Games /\ Games \subseteq LobbyIds
    BY ConstantsAssumption DEF LobbyIds
<1>3. \A k \in LobbyIds : lobby'[k] = IF k = r THEN Seated(lb, c, r, i) ELSE lb[k]
    BY <1>1
<1>4. /\ Seated(lb, c, r, i).num = lb[r].num + 1
      /\ lb[r].num < Cap(r)
      /\ lb[r].num \in Int
    <2>1. lb[r] \in LobbyRec
        BY <1>2
    <2>2. lb[r].num \in Int
        BY <2>1 DEF LobbyRec
    <2>. QED BY <1>1, <1>2, <2>2, SeatedType DEF TakesSlot
<1>5. Fits(lobby')
    BY <1>3, <1>4, Caps DEF Fits, Right
<1>6. \A g \in Games : lobby'[g] = lb[g]
    BY <1>2, <1>3
<1>7. On(lobby') = On(lb)
    BY <1>6 DEF On
<1>. QED BY <1>1, <1>5, <1>6, <1>7 DEF Right

LEMMA RemovePlayerCounts ==
    ASSUME TypeOK, Right(lobby, numGames), PlayedListed, NEW c \in Clients,
           client[c].lobby # None, RemovePlayer(c)
    PROVE  /\ Right(lobby, numGames)'
           /\ \A g \in Games : lobby'[g].state \in {lobby[g].state, "free"}
<1>. DEFINE l  == client[c].lobby
            lb == IF client[c].bursting
                    THEN [lobby EXCEPT ![l] = EndBurst(lobby[l])]
                    ELSE lobby
<1>1. l \in LobbyIds /\ lobby[l] \in LobbyRec /\ lobby \in [LobbyIds -> LobbyRec]
    BY DEF TypeOK, ClientRec
<1>2. /\ lobby' = [lb EXCEPT ![l] = Vacated(lb, c)]
      /\ numGames' = IF Empties(lb, c) THEN numGames - 1 ELSE numGames
    BY DEF RemovePlayer
<1>3. /\ lb \in [LobbyIds -> LobbyRec]
      /\ \A k \in LobbyIds : lb[k].num = lobby[k].num /\ lb[k].state = lobby[k].state
    BY <1>1, EndBurstType
<1>. HIDE DEF lb
<1>4. /\ Vacated(lb, c).num \in Int
      /\ Vacated(lb, c).num <= lb[l].num \/ Vacated(lb, c).num = 0
      /\ Empties(lb, c) => Vacated(lb, c).state = "free"
      /\ ~Empties(lb, c) => Vacated(lb, c).state = lb[l].state
    BY <1>3, VacatedCount
<1>5. \A k \in LobbyIds : lobby'[k] = IF k = l THEN Vacated(lb, c) ELSE lb[k]
    BY <1>1, <1>2, <1>3
<1>6. Fits(lobby')
    <2>1. \A k \in LobbyIds : lobby[k].num \in Int
        BY <1>1 DEF LobbyRec
    <2>. QED BY <1>1, <1>3, <1>4, <1>5, <2>1, Caps DEF Fits, Right
<1>7. \A g \in Games : lobby'[g].state =
         IF g = l /\ Empties(lb, c) THEN "free" ELSE lobby[g].state
    BY <1>3, <1>4, <1>5 DEF LobbyIds
<1>8. numGames' = Cardinality(On(lobby'))
    <2>1. CASE Empties(lb, c)
        <3>1. l \in On(lobby)
            BY <2>1 DEF Empties, On, PlayedListed, InGame
        <3>2. On(lobby') = On(lobby) \ {l}
            BY <1>7, <2>1 DEF On
        <3>. QED BY <1>2, <2>1, <3>1, <3>2, Uncounted DEF Right
    <2>2. CASE ~Empties(lb, c)
        <3>1. On(lobby') = On(lobby)
            BY <1>7, <2>2 DEF On
        <3>. QED BY <1>2, <2>2, <3>1 DEF Right
    <2>. QED BY <2>1, <2>2
<1>. QED BY <1>6, <1>7, <1>8 DEF Right

\* A client joins the game g it has made, or g is destroyed.
LEMMA JoinNewCounts ==
    ASSUME TypeOK, NEW lb \in [LobbyIds -> LobbyRec], NEW n, Right(lb, n),
           NEW c \in Clients, NEW g \in Games, lb[g].state = "listed",
           client[c].lobby # g,
           client[c].lobby \in Games => lb[client[c].lobby].state = "listed",
           NEW ok, NEW failed, JoinNew(lb, n, c, g, ok, failed)
    PROVE  /\ Right(lobby, numGames)'
           /\ \A h \in Games : lobby'[h].state \in {lb[h].state, "free"}
<1>1. g \in LobbyIds
    BY DEF LobbyIds
<1>2. CASE client[c].lobby # None /\ Move(lb, n, c, ok, g)
    BY <1>1, <1>2, MoveCounts
<1>3. CASE AddToAny(lb, n, c, ok)
    BY <1>3, AddToAnyCounts
<1>4. CASE lobby' = lb /\ numGames' = n
    BY <1>4 DEF Right
<1>5. CASE lobby' = [lb EXCEPT ![g] = Freed] /\ numGames' = n - 1
    <2>1. \A k \in LobbyIds : lobby'[k] = IF k = g THEN Freed ELSE lb[k]
        BY <1>5
    <2>2. Freed.num = 0 /\ Freed.state = "free"
        BY DEF Freed, Empty
    <2>3. Fits(lobby')
        BY <2>1, <2>2, Caps DEF Fits, Right
    <2>4. g \in On(lb) /\ On(lobby') = On(lb) \ {g}
        BY <2>1, <2>2 DEF On, LobbyIds
    <2>5. numGames' = Cardinality(On(lobby'))
        BY <1>5, <2>4, Uncounted DEF Right
    <2>. QED BY <2>1, <2>2, <2>3, <2>5 DEF Right, LobbyIds
<1>. QED BY <1>2, <1>3, <1>4, <1>5 DEF JoinNew

-----------------------------------------------------------------------------
(* The actions.                                                            *)

\* Games in S may have been listed by the step; nobody was in one, or in a
\* menu about one that is still open.
LEMMA StatesKept ==
    ASSUME PlayedListed, MenuStates, GamesHeld', MenusOwnGames', NEW S,
           \A h \in Games \ S : lobby'[h].state \in {lobby[h].state, "free"},
           \A d \in Clients : client'[d].menu =>
               /\ client[d].menu
               /\ client'[d].create = client[d].create
               /\ client[d].create \notin S,
           \A d \in Clients : client'[d].lobby \in Games =>
               \/ lobby'[client'[d].lobby].state \in {"listed", "free"}
               \/ client'[d].lobby = client[d].lobby /\ client[d].lobby \notin S
    PROVE  PlayedListed' /\ MenuStates'
<1>1. ASSUME NEW d \in Clients, client'[d].lobby \in Games
      PROVE  lobby'[client'[d].lobby].state = "listed"
    <2>1. lobby'[client'[d].lobby].state # "free"
        BY <1>1 DEF GamesHeld, InGame
    <2>2. CASE client'[d].lobby = client[d].lobby /\ client[d].lobby \notin S
        <3>1. lobby[client[d].lobby].state = "listed"
            BY <1>1, <2>2 DEF PlayedListed, InGame
        <3>. QED BY <1>1, <2>1, <2>2, <3>1
    <2>. QED BY <1>1, <2>1, <2>2
<1>2. ASSUME NEW d \in Clients, client'[d].menu
      PROVE  lobby'[client'[d].create].state =
                IF Version[d] = "bb" THEN "listed" ELSE "pending"
    <2>1. client'[d].create \in Games /\ lobby'[client'[d].create].state # "free"
        BY <1>2 DEF MenusOwnGames
    <2>2. /\ client'[d].create = client[d].create
          /\ client[d].create \notin S
          /\ lobby[client[d].create].state =
               IF Version[d] = "bb" THEN "listed" ELSE "pending"
        BY <1>2 DEF MenuStates
    <2>. QED BY <2>1, <2>2
<1>. QED BY <1>1, <1>2 DEF PlayedListed, InGame, MenuStates

LEMMA SameUp ==
    ASSUME numClients = Cardinality(Up), numClients' = numClients,
           \A d \in Clients : client'[d].up = client[d].up
    PROVE  numClients' = Cardinality(Up')
<1>1. Up' = Up
    BY DEF Up
<1>. QED BY <1>1

\* A step that changes neither states nor counts nor places nor menus.
LEMMA FlagsCount ==
    ASSUME IInv, CountsInv, IInv', numGames' = numGames, numClients' = numClients,
           \A k \in LobbyIds : /\ lobby'[k].num = lobby[k].num
                               /\ lobby'[k].state = lobby[k].state,
           \A d \in Clients : /\ client'[d].lobby = client[d].lobby
                              /\ client'[d].up = client[d].up
                              /\ client'[d].menu = client[d].menu
                              /\ client'[d].create = client[d].create
    PROVE  CountsInv'
<1>1. Games \subseteq LobbyIds
    BY DEF LobbyIds
<1>2. On(lobby') = On(lobby)
    BY <1>1 DEF On
<1>3. Right(lobby, numGames)'
    BY <1>2 DEF Right, Fits, CountsInv
<1>4. PlayedListed' /\ MenuStates'
    BY <1>1 DEF CountsInv, PlayedListed, MenuStates, InGame, IInv, MenusOwnGames
<1>5. numClients' = Cardinality(Up')
    BY SameUp DEF CountsInv
<1>. QED BY <1>3, <1>4, <1>5 DEF CountsInv

LEMMA ConnectCounts ==
    ASSUME IInv, CountsInv, IInv', NEW c \in Clients, Connect(c)
    PROVE  CountsInv'
<1>1. /\ ~client[c].up
      /\ client' = [client EXCEPT ![c] = Fresh(TRUE)]
      /\ lobby' = lobby /\ numGames' = numGames
      /\ numClients' = numClients + 1
    BY DEF Connect
<1>2. client'[c] = Fresh(TRUE) /\ \A d \in Clients \ {c} : client'[d] = client[d]
    BY <1>1 DEF IInv, TypeOK
<1>3. Fresh(TRUE).up /\ Fresh(TRUE).lobby = None /\ ~Fresh(TRUE).menu
    BY DEF Fresh
<1>4. Right(lobby, numGames)'
    BY <1>1 DEF Right, CountsInv, Fits, On
<1>5. None \notin Games
    BY ConstantsAssumption DEF LobbyIds
<1>6. PlayedListed' /\ MenuStates'
    <2>1. PlayedListed /\ MenuStates
        BY DEF CountsInv
    <2>2. PlayedListed'
        BY <1>1, <1>2, <1>3, <1>5, <2>1 DEF PlayedListed, InGame
    <2>3. MenuStates'
        BY <1>1, <1>2, <1>3, <2>1 DEF MenuStates
    <2>. QED BY <2>2, <2>3
<1>7. numClients' = Cardinality(Up')
    <2>1. Up' = Up \cup {c} /\ c \notin Up
        BY <1>1, <1>2, <1>3 DEF Up
    <2>2. Up \in SUBSET Clients /\ IsFiniteSet(Up)
        BY ConstantsAssumption, FS_Subset DEF Up
    <2>. QED BY <1>1, <2>1, <2>2, FS_AddElement DEF CountsInv
<1>. QED BY <1>4, <1>6, <1>7 DEF CountsInv

LEMMA DropCounts ==
    ASSUME IInv, CountsInv, IInv', NEW c \in Clients, Drop(c)
    PROVE  CountsInv'
<1>1. /\ client[c].up
      /\ client' = [client EXCEPT ![c] = Fresh(FALSE)]
      /\ numClients' = numClients - 1
    BY DEF Drop
<1>2. client'[c] = Fresh(FALSE) /\ \A d \in Clients \ {c} : client'[d] = client[d]
    BY <1>1 DEF IInv, TypeOK
<1>3. Fresh(FALSE).up = FALSE /\ Fresh(FALSE).lobby = None /\ ~Fresh(FALSE).menu
    BY DEF Fresh
<1>4. /\ Right(lobby, numGames)'
      /\ \A g \in Games : lobby'[g].state \in {lobby[g].state, "free"}
    <2>1. CASE client[c].lobby = None
        <3>1. lobby' = lobby /\ numGames' = numGames
            BY <2>1 DEF Drop
        <3>. QED BY <3>1 DEF Right, CountsInv, Fits, On
    <2>2. CASE client[c].lobby # None
        <3>1. RemovePlayer(c)
            BY <2>2 DEF Drop
        <3>. QED BY <2>2, <3>1, RemovePlayerCounts DEF CountsInv, IInv
    <2>. QED BY <2>1, <2>2
<1>. DEFINE S == {}
<1>5. None \notin Games
    BY ConstantsAssumption DEF LobbyIds
<1>6. PlayedListed' /\ MenuStates'
    <2>1. \A h \in Games \ S : lobby'[h].state \in {lobby[h].state, "free"}
        BY <1>4
    <2>2. \A d \in Clients : client'[d].menu =>
             /\ client[d].menu
             /\ client'[d].create = client[d].create
             /\ client[d].create \notin S
        BY <1>2, <1>3
    <2>3. \A d \in Clients : client'[d].lobby \in Games =>
             client'[d].lobby = client[d].lobby /\ client[d].lobby \notin S
        BY <1>2, <1>3, <1>5
    <2>4. PlayedListed /\ MenuStates /\ GamesHeld' /\ MenusOwnGames'
        BY DEF CountsInv, IInv, PlacesInv
    <2>. HIDE DEF S
    <2>. QED BY <2>1, <2>2, <2>3, <2>4, StatesKept
<1>7. numClients' = Cardinality(Up')
    <2>1. Up' = Up \ {c} /\ c \in Up
        BY <1>1, <1>2, <1>3 DEF Up
    <2>2. Up \in SUBSET Clients /\ IsFiniteSet(Up)
        BY ConstantsAssumption, FS_Subset DEF Up
    <2>. QED BY <1>1, <2>1, <2>2, FS_RemoveElement DEF CountsInv
<1>. QED BY <1>4, <1>6, <1>7 DEF CountsInv

LEMMA SameClients ==
    ASSUME TypeOK, NEW c \in Clients, NEW C \in ClientRec,
           client' = [client EXCEPT ![c] = C]
    PROVE  client'[c] = C /\ \A d \in Clients \ {c} : client'[d] = client[d]
BY DEF TypeOK

\* A client goes to a listed lobby.
LEMMA MoveStepCounts ==
    ASSUME IInv, CountsInv, IInv', NEW c \in Clients, NEW r \in Listed,
           client[c].lobby \notin {None, r},
           Move(lobby, numGames, c, client[c], r), numClients' = numClients
    PROVE  CountsInv'
<1>1. /\ TypeOK /\ Right(lobby, numGames) /\ PlayedListed /\ MenuStates
      /\ GamesHeld' /\ MenusOwnGames'
    BY DEF IInv, PlacesInv, CountsInv
<1>2. r \in LobbyIds /\ lobby[r].state = "listed"
    BY DEF Listed
<1>3. client[c] \in ClientRec /\ lobby \in [LobbyIds -> LobbyRec] /\ now \in Nat
    BY <1>1 DEF TypeOK
<1>4. /\ Right(lobby, numGames)'
      /\ \A g \in Games : lobby'[g].state \in {lobby[g].state, "free"}
      /\ lobby'[r].state = lobby[r].state
    <2>1. client[c].lobby \in Games => lobby[client[c].lobby].state = "listed"
        BY <1>1 DEF PlayedListed, InGame
    <2>. QED BY <1>1, <1>2, <1>3, <2>1, MoveCounts
<1>5. PICK i \in Slots : client' = [client EXCEPT ![c] = Placed(client[c], r, i)]
    BY DEF Move
<1>6. /\ client'[c].lobby = r
      /\ client'[c].up = client[c].up
      /\ client'[c].menu = client[c].menu
      /\ client'[c].create = client[c].create
      /\ \A d \in Clients \ {c} : client'[d] = client[d]
    <2>1. /\ Placed(client[c], r, i) \in ClientRec
          /\ Placed(client[c], r, i).lobby = r
          /\ Placed(client[c], r, i).up = client[c].up
          /\ Placed(client[c], r, i).menu = client[c].menu
          /\ Placed(client[c], r, i).create = client[c].create
        BY <1>2, <1>3, PlacedType
    <2>. QED BY <1>1, <1>5, <2>1, SameClients
<1>. DEFINE S == {}
<1>7. \A d \in Clients : client'[d].menu =>
         /\ client[d].menu
         /\ client'[d].create = client[d].create
         /\ client[d].create \notin S
    BY <1>6
<1>8. \A d \in Clients : client'[d].lobby \in Games =>
         \/ lobby'[client'[d].lobby].state \in {"listed", "free"}
         \/ client'[d].lobby = client[d].lobby /\ client[d].lobby \notin S
    BY <1>2, <1>4, <1>6
<1>9. \A h \in Games \ S : lobby'[h].state \in {lobby[h].state, "free"}
    BY <1>4
<1>. HIDE DEF S
<1>10. PlayedListed' /\ MenuStates'
    BY <1>1, <1>7, <1>8, <1>9, StatesKept
<1>11. numClients' = Cardinality(Up')
    BY <1>6, SameUp DEF CountsInv
<1>. QED BY <1>4, <1>10, <1>11 DEF CountsInv

LEMMA EnterCounts ==
    ASSUME IInv, CountsInv, IInv', NEW c \in Clients, EnterLobby(c)
    PROVE  CountsInv'
<1>1. /\ TypeOK /\ Right(lobby, numGames) /\ PlayedListed /\ MenuStates
      /\ GamesHeld' /\ MenusOwnGames'
    BY DEF IInv, PlacesInv, CountsInv
<1>2. client[c] \in ClientRec /\ lobby \in [LobbyIds -> LobbyRec] /\ now \in Nat
    BY <1>1 DEF TypeOK
<1>3. AddToAny(lobby, numGames, c, client[c]) /\ numClients' = numClients
    BY DEF EnterLobby
<1>4. Right(lobby, numGames)' /\ \A g \in Games : lobby'[g] = lobby[g]
    BY <1>1, <1>2, <1>3, AddToAnyCounts
<1>5. PICK r \in DefaultLobbies, i \in Slots :
         client' = [client EXCEPT ![c] = Placed(client[c], r, i)]
    BY <1>3 DEF AddToAny
<1>6. r \in LobbyIds /\ r \notin Games
    BY ConstantsAssumption DEF LobbyIds
<1>7. /\ client'[c].lobby = r
      /\ client'[c].up = client[c].up
      /\ client'[c].menu = client[c].menu
      /\ client'[c].create = client[c].create
      /\ \A d \in Clients \ {c} : client'[d] = client[d]
    <2>1. /\ Placed(client[c], r, i) \in ClientRec
          /\ Placed(client[c], r, i).lobby = r
          /\ Placed(client[c], r, i).up = client[c].up
          /\ Placed(client[c], r, i).menu = client[c].menu
          /\ Placed(client[c], r, i).create = client[c].create
        BY <1>2, <1>6, PlacedType
    <2>. QED BY <1>1, <1>5, <2>1, SameClients
<1>. DEFINE S == {}
<1>8. \A d \in Clients : client'[d].menu =>
         /\ client[d].menu
         /\ client'[d].create = client[d].create
         /\ client[d].create \notin S
    BY <1>7
<1>9. \A d \in Clients : client'[d].lobby \in Games =>
         client'[d].lobby = client[d].lobby /\ client[d].lobby \notin S
    BY <1>6, <1>7
<1>10. \A h \in Games \ S : lobby'[h].state \in {lobby[h].state, "free"}
    BY <1>4
<1>. HIDE DEF S
<1>11. PlayedListed' /\ MenuStates'
    BY <1>1, <1>8, <1>9, <1>10, StatesKept
<1>12. numClients' = Cardinality(Up')
    BY <1>3, <1>7, SameUp DEF CountsInv
<1>. QED BY <1>4, <1>11, <1>12 DEF CountsInv

LEMMA LeaveCounts ==
    ASSUME IInv, CountsInv, IInv', NEW c \in Clients, LeaveGame(c)
    PROVE  CountsInv'
<1>. DEFINE C == [client[c] EXCEPT !.lobby = None, !.id = 0, !.held = FALSE,
                                   !.browsing = FALSE]
<1>1. /\ TypeOK /\ Right(lobby, numGames) /\ PlayedListed /\ MenuStates
      /\ GamesHeld' /\ MenusOwnGames'
    BY DEF IInv, PlacesInv, CountsInv
<1>2. /\ client[c].lobby # None
      /\ RemovePlayer(c)
      /\ client' = [client EXCEPT ![c] = C]
      /\ numClients' = numClients
    BY DEF LeaveGame
<1>3. /\ Right(lobby, numGames)'
      /\ \A g \in Games : lobby'[g].state \in {lobby[g].state, "free"}
    BY <1>1, <1>2, RemovePlayerCounts
<1>4. client[c] \in ClientRec
    BY <1>1 DEF TypeOK
<1>5. /\ C.lobby = None /\ C.up = client[c].up
      /\ C.menu = client[c].menu /\ C.create = client[c].create
    BY <1>4 DEF ClientRec
<1>. HIDE DEF C
<1>6. client'[c] = C /\ \A d \in Clients \ {c} : client'[d] = client[d]
    BY <1>1, <1>2 DEF TypeOK
<1>7. None \notin Games
    BY ConstantsAssumption DEF LobbyIds
<1>. DEFINE S == {}
<1>8. \A d \in Clients : client'[d].menu =>
         /\ client[d].menu
         /\ client'[d].create = client[d].create
         /\ client[d].create \notin S
    BY <1>5, <1>6
<1>9. \A d \in Clients : client'[d].lobby \in Games =>
         client'[d].lobby = client[d].lobby /\ client[d].lobby \notin S
    BY <1>5, <1>6, <1>7
<1>10. \A h \in Games \ S : lobby'[h].state \in {lobby[h].state, "free"}
    BY <1>3
<1>. HIDE DEF S
<1>11. PlayedListed' /\ MenuStates'
    BY <1>1, <1>8, <1>9, <1>10, StatesKept
<1>12. numClients' = Cardinality(Up')
    <2>1. \A d \in Clients : client'[d].up = client[d].up
        BY <1>5, <1>6
    <2>. QED BY <1>2, <2>1, SameUp DEF CountsInv
<1>. QED BY <1>3, <1>11, <1>12 DEF CountsInv

LEMMA MovesCount ==
    ASSUME IInv, CountsInv, IInv', NEW c \in Clients, Moves(c)
    PROVE  CountsInv'
<1>1. CASE EnterLobby(c)
    BY <1>1, EnterCounts
<1>2. CASE LeaveGame(c)
    BY <1>2, LeaveCounts
<1>3. ASSUME NEW r \in LobbyIds, ChangeLobby(c, r) PROVE CountsInv'
    <2>1. /\ client[c].lobby \notin {None, r}
          /\ r \in Listed
          /\ Move(lobby, numGames, c, client[c], r)
          /\ numClients' = numClients
        BY <1>3 DEF ChangeLobby
    <2>. QED BY <2>1, MoveStepCounts
<1>4. ASSUME NEW g \in Games, SelectGame(c, g) PROVE CountsInv'
    <2>1. /\ client[c].lobby \notin {None, g}
          /\ g \in Listed
          /\ Move(lobby, numGames, c, client[c], g)
          /\ numClients' = numClients
        BY <1>4 DEF SelectGame
    <2>. QED BY <2>1, MoveStepCounts
<1>5. CASE RejoinGame(c)
    <2>. DEFINE l == client[c].lobby
    <2>1. /\ lobby' = [lobby EXCEPT ![l].bursting = TRUE]
          /\ client' = [client EXCEPT ![c].bursting = TRUE]
          /\ numGames' = numGames /\ numClients' = numClients
        BY <1>5 DEF RejoinGame, Rejoin
    <2>2. \A k \in LobbyIds : /\ lobby'[k].num = lobby[k].num
                              /\ lobby'[k].state = lobby[k].state
        BY <2>1 DEF IInv, TypeOK, LobbyRec
    <2>3. \A d \in Clients : /\ client'[d].lobby = client[d].lobby
                             /\ client'[d].up = client[d].up
                             /\ client'[d].menu = client[d].menu
                             /\ client'[d].create = client[d].create
        BY <2>1 DEF IInv, TypeOK, ClientRec
    <2>. QED BY <2>1, <2>2, <2>3, FlagsCount
<1>. QED BY <1>1, <1>2, <1>3, <1>4, <1>5 DEF Moves

\* Where a client is that has joined the game it has made, or has not.
LEMMA JoinNewClient ==
    ASSUME TypeOK, NEW lb, NEW n, NEW c \in Clients, NEW g \in Games,
           NEW ok \in ClientRec, NEW failed \in ClientRec,
           \A C \in {ok, failed} : /\ C.lobby = client[c].lobby
                                   /\ C.up = client[c].up
                                   /\ C.menu => C.create = client[c].create
                                   /\ C.menu => client[c].menu,
           JoinNew(lb, n, c, g, ok, failed)
    PROVE  /\ \A d \in Clients \ {c} : client'[d] = client[d]
           /\ client'[c].up = client[c].up
           /\ client'[c].lobby \in {client[c].lobby, g} \cup DefaultLobbies
           /\ client'[c].menu => /\ client[c].menu
                                 /\ client'[c].create = client[c].create
<1>1. now \in Nat /\ g \in LobbyIds /\ DefaultLobbies \subseteq LobbyIds
    BY DEF TypeOK, LobbyIds
<1>2. ASSUME NEW r \in {g} \cup DefaultLobbies, NEW i \in Slots,
             client' = [client EXCEPT ![c] = Placed(ok, r, i)]
      PROVE  /\ \A d \in Clients \ {c} : client'[d] = client[d]
             /\ client'[c].up = ok.up
             /\ client'[c].lobby = r
             /\ client'[c].menu = ok.menu
             /\ client'[c].create = ok.create
    <2>1. r \in LobbyIds
        BY <1>1
    <2>2. /\ Placed(ok, r, i) \in ClientRec
          /\ Placed(ok, r, i).up = ok.up
          /\ Placed(ok, r, i).lobby = r
          /\ Placed(ok, r, i).menu = ok.menu
          /\ Placed(ok, r, i).create = ok.create
        BY <1>1, <2>1, PlacedType
    <2>. QED BY <1>2, <2>2, SameClients
<1>3. CASE Move(lb, n, c, ok, g) \/ AddToAny(lb, n, c, ok)
    <2>1. PICK r \in {g} \cup DefaultLobbies, i \in Slots :
             client' = [client EXCEPT ![c] = Placed(ok, r, i)]
        BY <1>3 DEF Move, AddToAny
    <2>. QED BY <1>2, <2>1
<1>4. CASE client' = [client EXCEPT ![c] = ok]
    <2>1. client'[c] = ok /\ \A d \in Clients \ {c} : client'[d] = client[d]
        BY <1>4, SameClients
    <2>. QED BY <2>1
<1>5. CASE client' = [client EXCEPT ![c] = failed]
    <2>1. client'[c] = failed /\ \A d \in Clients \ {c} : client'[d] = client[d]
        BY <1>5, SameClients
    <2>. QED BY <2>1
<1>. QED BY <1>3, <1>4, <1>5 DEF JoinNew

LEMMA JoinNewStep ==
    ASSUME IInv, CountsInv, IInv', numClients' = numClients,
           NEW lb \in [LobbyIds -> LobbyRec], NEW n, Right(lb, n),
           NEW c \in Clients, NEW g \in Games, lb[g].state = "listed",
           Members(g) = {},
           \A h \in Games \ {g} : lb[h].state = lobby[h].state,
           \A d \in Clients \ {c} : client[d].menu => client[d].create # g,
           NEW ok \in ClientRec, NEW failed \in ClientRec,
           \A C \in {ok, failed} : /\ C.lobby = client[c].lobby
                                   /\ C.up = client[c].up
                                   /\ C.menu => C.create = client[c].create
                                   /\ C.menu => client[c].menu
                                   /\ C.menu => C.create # g,
           JoinNew(lb, n, c, g, ok, failed)
    PROVE  CountsInv'
<1>1. /\ TypeOK /\ PlayedListed /\ MenuStates /\ GamesHeld' /\ MenusOwnGames'
    BY DEF IInv, PlacesInv, CountsInv
<1>2. /\ \A d \in Clients \ {c} : client'[d] = client[d]
      /\ client'[c].up = client[c].up
      /\ client'[c].lobby \in {client[c].lobby, g} \cup DefaultLobbies
      /\ client'[c].menu => /\ client[c].menu
                            /\ client'[c].create = client[c].create
    <2>1. \A C \in {ok, failed} : /\ C.lobby = client[c].lobby
                                  /\ C.up = client[c].up
                                  /\ C.menu => C.create = client[c].create
                                  /\ C.menu => client[c].menu
        OBVIOUS
    <2>. QED BY <1>1, <2>1, JoinNewClient
<1>3. \A d \in Clients : client[d].lobby # g
    BY DEF Members
<1>4. /\ Right(lobby, numGames)'
      /\ \A h \in Games : lobby'[h].state \in {lb[h].state, "free"}
    <2>1. client[c].lobby \in Games => lb[client[c].lobby].state = "listed"
        BY <1>1, <1>3 DEF PlayedListed, InGame
    <2>. QED BY <1>1, <1>3, <2>1, JoinNewCounts
<1>5. DefaultLobbies \cap Games = {}
    BY ConstantsAssumption
<1>. DEFINE S == {g}
<1>6. \A h \in Games \ S : lobby'[h].state \in {lobby[h].state, "free"}
    BY <1>4
<1>7. client[c].menu /\ client[c].create = g => ~client'[c].menu
    <2>1. CASE client'[c].menu
        <3>1. \E C \in {ok, failed} : C.menu
            <4>1. now \in Nat /\ g \in LobbyIds /\ DefaultLobbies \subseteq LobbyIds
                BY <1>1 DEF TypeOK, LobbyIds
            <4>2. \A r \in LobbyIds, i \in Slots : Placed(ok, r, i).menu = ok.menu
                BY <4>1, PlacedType
            <4>3. client'[c] \in {ok, failed} \cup {Placed(ok, r, i) : r \in LobbyIds, i \in Slots}
                BY <1>1, <4>1 DEF JoinNew, Move, AddToAny, TypeOK
            <4>. QED BY <2>1, <4>2, <4>3
        <3>2. client[c].create # g
            BY <3>1
        <3>. QED BY <3>2
    <2>. QED BY <2>1
<1>8. \A d \in Clients : client'[d].menu =>
         /\ client[d].menu
         /\ client'[d].create = client[d].create
         /\ client[d].create \notin S
    BY <1>2, <1>7
<1>9. \A d \in Clients : client'[d].lobby \in Games =>
         \/ lobby'[client'[d].lobby].state \in {"listed", "free"}
         \/ client'[d].lobby = client[d].lobby /\ client[d].lobby \notin S
    BY <1>2, <1>3, <1>4, <1>5
<1>. HIDE DEF S
<1>10. PlayedListed' /\ MenuStates'
    BY <1>1, <1>6, <1>8, <1>9, StatesKept
<1>11. numClients' = Cardinality(Up')
    <2>1. \A d \in Clients : client'[d].up = client[d].up
        BY <1>2
    <2>. QED BY <2>1, SameUp DEF CountsInv
<1>. QED BY <1>4, <1>10, <1>11 DEF CountsInv

\* A game that was in no list is listed and counted.
LEMMA ListedRight ==
    ASSUME TypeOK, Right(lobby, numGames), NEW g \in Games,
           lobby[g].state # "listed", NEW L, L.state = "listed", L.num <= Cap(g),
           NEW lb, lb = [lobby EXCEPT ![g] = L]
    PROVE  /\ Right(lb, numGames + 1)
           /\ lb[g] = L
           /\ \A k \in LobbyIds \ {g} : lb[k] = lobby[k]
<1>1. g \in LobbyIds /\ Games \subseteq LobbyIds
    BY DEF LobbyIds
<1>2. lb[g] = L /\ \A k \in LobbyIds \ {g} : lb[k] = lobby[k]
    BY <1>1 DEF TypeOK
<1>3. Fits(lb)
    BY <1>2 DEF Fits, Right
<1>4. On(lb) = On(lobby) \cup {g} /\ g \notin On(lobby)
    BY <1>1, <1>2 DEF On
<1>5. Cardinality(On(lb)) = Cardinality(On(lobby)) + 1
    BY <1>4, Counted
<1>. QED BY <1>2, <1>3, <1>5 DEF Right

LEMMA CreatesCount ==
    ASSUME OpenMenus, IInv, CountsInv, IInv', NEW c \in Clients, Creates(c)
    PROVE  CountsInv'
<1>. DEFINE g == client[c].create
<1>a. /\ TypeOK /\ PlacesInv /\ MenusOwnGames
      /\ Right(lobby, numGames) /\ PlayedListed /\ MenuStates
      /\ GamesHeld' /\ MenusOwnGames'
    BY DEF IInv, PlacesInv, CountsInv
<1>b. /\ lobby \in [LobbyIds -> LobbyRec]
      /\ client \in [Clients -> ClientRec]
      /\ client[c] \in ClientRec
      /\ Games \subseteq LobbyIds
    BY <1>a DEF TypeOK, LobbyIds
<1>c. client[c].menu =>
        /\ g \in Games
        /\ Members(g) = {}
        /\ \A d \in Clients \ {c} : client[d].menu => client[d].create # g
        /\ lobby[g].state = IF Version[c] = "bb" THEN "listed" ELSE "pending"
    BY <1>a DEF MenusOwnGames, MenuStates
<1>1. ASSUME NEW h \in Games, CreateGame(c, h) PROVE CountsInv'
    <2>. DEFINE lb == [lobby EXCEPT ![h] = NewGame(c, "listed")]
    <2>1. /\ lobby[h].state = "free"
          /\ JoinNew(lb, numGames + 1, c, h, client[c], client[c])
          /\ numClients' = numClients
        BY <1>1 DEF CreateGame, MayCreate
    <2>2. Members(h) = {} /\ lb \in [LobbyIds -> LobbyRec]
        BY <1>a, <2>1, AlikeNew
    <2>3. NewGame(c, "listed").state = "listed" /\ NewGame(c, "listed").num <= Cap(h)
        BY <1>b, Caps DEF NewGame, Empty
    <2>. HIDE DEF lb
    <2>4. /\ Right(lb, numGames + 1)
          /\ lb[h].state = "listed"
          /\ \A k \in Games \ {h} : lb[k].state = lobby[k].state
        BY <1>a, <1>b, <2>1, <2>3, ListedRight DEF lb
    <2>5. \A d \in Clients : client[d].menu => client[d].create # h
        BY <1>a, <2>1 DEF MenusOwnGames
    <2>. DEFINE C == client[c]
    <2>6. \A D \in {C, C} : /\ D.lobby = client[c].lobby
                            /\ D.up = client[c].up
                            /\ D.menu => D.create = client[c].create
                            /\ D.menu => client[c].menu
                            /\ D.menu => D.create # h
        BY <2>5
    <2>7. JoinNew(lb, numGames + 1, c, h, C, C) /\ C \in ClientRec
        BY <1>b, <2>1
    <2>. HIDE DEF C
    <2>. QED BY <2>1, <2>2, <2>4, <2>5, <2>6, <2>7, JoinNewStep
<1>2. ASSUME NEW h \in Games, CreatePending(c, h) PROVE CountsInv'
    <2>. DEFINE C == [client[c] EXCEPT !.create = h, !.menu = TRUE]
    <2>1. /\ lobby[h].state = "free"
          /\ Version[c] # "gc"
          /\ client' = [client EXCEPT ![c] = C]
          /\ numClients' = numClients
        BY <1>2 DEF CreatePending, MayCreate
    <2>2. /\ C.create = h /\ C.menu
          /\ C.lobby = client[c].lobby /\ C.up = client[c].up
        BY <1>b DEF ClientRec
    <2>3. client'[c] = C /\ \A d \in Clients \ {c} : client'[d] = client[d]
        BY <1>b, <2>1
    <2>. HIDE DEF C
    <2>. DEFINE st == IF Version[c] = "bb" THEN "listed" ELSE "pending"
    <2>4. /\ lobby' = [lobby EXCEPT ![h] = NewGame(c, st)]
          /\ numGames' = IF st = "listed" THEN numGames + 1 ELSE numGames
        BY <1>2 DEF CreatePending
    <2>5. NewGame(c, st).state = st /\ NewGame(c, st).num <= Cap(h)
        BY <1>b, Caps DEF NewGame, Empty
    <2>6. st \in {"listed", "pending"} /\ (st = "listed" <=> Version[c] = "bb")
        OBVIOUS
    <2>. HIDE DEF st
    <2>7. lobby'[h] = NewGame(c, st) /\ \A k \in LobbyIds \ {h} : lobby'[k] = lobby[k]
        BY <1>b, <2>4
    <2>8. Right(lobby, numGames)'
        <3>1. CASE st = "listed"
            <4>1. Right(lobby', numGames + 1)
                BY <1>a, <2>1, <2>4, <2>5, <3>1, ListedRight
            <4>. QED BY <2>4, <3>1, <4>1
        <3>2. CASE st # "listed"
            <4>1. On(lobby') = On(lobby)
                BY <1>b, <2>1, <2>5, <2>7, <3>2 DEF On
            <4>2. Fits(lobby')
                BY <1>a, <1>b, <2>5, <2>7 DEF Fits, Right
            <4>. QED BY <1>a, <2>4, <3>2, <4>1, <4>2 DEF Right
        <3>. QED BY <3>1, <3>2
    <2>9. PlayedListed'
        <3>1. \A d \in Clients : client'[d].lobby = client[d].lobby
            BY <2>2, <2>3
        <3>2. \A d \in Clients : client[d].lobby # h
            BY <1>a, <2>1 DEF PlayedListed, InGame
        <3>. QED BY <1>a, <1>b, <2>7, <3>1, <3>2 DEF PlayedListed, InGame
    <2>10. MenuStates'
        <3>1. \A d \in Clients \ {c} : client[d].menu =>
                 client[d].create # h /\ client[d].create \in LobbyIds
            BY <1>a, <1>b, <2>1 DEF MenusOwnGames
        <3>2. \A d \in Clients \ {c} : client[d].menu =>
                 lobby'[client[d].create].state =
                   IF Version[d] = "bb" THEN "listed" ELSE "pending"
            BY <1>a, <2>7, <3>1 DEF MenuStates
        <3>3. lobby'[client'[c].create].state =
                 IF Version[c] = "bb" THEN "listed" ELSE "pending"
            BY <2>2, <2>3, <2>5, <2>6, <2>7
        <3>. QED BY <2>3, <3>2, <3>3 DEF MenuStates
    <2>11. numClients' = Cardinality(Up')
        <3>1. \A d \in Clients : client'[d].up = client[d].up
            BY <2>2, <2>3
        <3>. QED BY <2>1, <3>1, SameUp DEF CountsInv
    <2>. QED BY <2>8, <2>9, <2>10, <2>11 DEF CountsInv
<1>3. CASE ChooseType(c)
    <2>. DEFINE L      == [lobby[g] EXCEPT !.state = "listed"]
                lb     == [lobby EXCEPT ![g] = L]
                closed == [client[c] EXCEPT !.create = None, !.menu = FALSE]
    <2>1. /\ client[c].menu
          /\ Version[c] = "v2"
          /\ JoinNew(lb, numGames + 1, c, g, closed, closed)
          /\ numClients' = numClients
        BY <1>3 DEF ChooseType
    <2>2. g \in Games /\ g \in LobbyIds /\ lobby[g].state = "pending"
        BY <1>b, <1>c, <2>1
    <2>3. L \in LobbyRec /\ L.num = lobby[g].num /\ L.state = "listed"
        <3>1. lobby[g] \in LobbyRec
            BY <1>b, <2>2
        <3>. QED BY <3>1, FlagsType, FlagsSame DEF SamePlace
    <2>. HIDE DEF L
    <2>4. lb \in [LobbyIds -> LobbyRec]
        BY <1>b, <2>3
    <2>5. closed \in ClientRec
        BY <1>b, ClientFlagsType
    <2>6. \A C \in {closed, closed} : /\ C.lobby = client[c].lobby
                                      /\ C.up = client[c].up
                                      /\ C.menu => C.create = client[c].create
                                      /\ C.menu => client[c].menu
                                      /\ C.menu => C.create # g
        BY <1>b DEF ClientRec
    <2>. HIDE DEF lb, closed
    <2>7. /\ Right(lb, numGames + 1)
          /\ lb[g].state = "listed"
          /\ \A k \in Games \ {g} : lb[k].state = lobby[k].state
        <3>1. L.num <= Cap(g)
            BY <1>a, <2>2, <2>3 DEF Right, Fits
        <3>. QED BY <1>a, <1>b, <2>2, <2>3, <3>1, ListedRight DEF lb
    <2>8. /\ Members(g) = {}
          /\ \A d \in Clients \ {c} : client[d].menu => client[d].create # g
        BY <1>c, <2>1
    <2>. HIDE DEF g
    <2>. QED BY <2>1, <2>2, <2>4, <2>5, <2>6, <2>7, <2>8, JoinNewStep
<1>4. CASE ChooseVersion(c)
    <2>1. client' = client /\ numGames' = numGames /\ numClients' = numClients
        BY <1>4 DEF ChooseVersion
    <2>2. \/ lobby' = [lobby EXCEPT ![g] = [lobby[g] EXCEPT !.gcOK = TRUE]]
          \/ \E v \in {"v2", "bb"} :
               lobby' = [lobby EXCEPT ![g] = [lobby[g] EXCEPT !.ver = v]]
        BY <1>4 DEF ChooseVersion
    <2>3. g \in Games /\ lobby[g] \in LobbyRec
        BY <1>4, <1>b, <1>c DEF ChooseVersion, Answers
    <2>4. \E M : SamePlace(lobby[g], M) /\ lobby' = [lobby EXCEPT ![g] = M]
        BY <2>2, <2>3, FlagsSame
    <2>5. \A k \in LobbyIds : SamePlace(lobby[k], lobby'[k])
        BY <1>b, <2>3, <2>4 DEF SamePlace
    <2>. QED BY <2>1, <2>5, FlagsCount DEF SamePlace
<1>5. CASE ChooseDrop(c)
    <2>. DEFINE ok     == [client[c] EXCEPT !.create = None, !.menu = FALSE]
                failed == [client[c] EXCEPT !.menu = FALSE]
    <2>1. /\ client[c].menu
          /\ Version[c] = "bb"
          /\ JoinNew(lobby, numGames, c, g, ok, failed)
          /\ numClients' = numClients
        BY <1>a, <1>5, DropJoins DEF ChooseDrop, Answers
    <2>2. ok \in ClientRec /\ failed \in ClientRec
        BY <1>b, ClientFlagsType
    <2>3. \A C \in {ok, failed} : /\ C.lobby = client[c].lobby
                                  /\ C.up = client[c].up
                                  /\ C.menu => C.create = client[c].create
                                  /\ C.menu => client[c].menu
                                  /\ C.menu => C.create # g
        BY <1>b DEF ClientRec
    <2>. HIDE DEF ok, failed
    <2>4. /\ g \in Games
          /\ lobby[g].state = "listed"
          /\ Members(g) = {}
          /\ \A d \in Clients \ {c} : client[d].menu => client[d].create # g
          /\ \A k \in Games \ {g} : lobby[k].state = lobby[k].state
        BY <1>c, <2>1
    <2>. HIDE DEF g
    <2>. QED BY <1>a, <1>b, <2>1, <2>2, <2>3, <2>4, JoinNewStep
<1>6. CASE CancelCreate(c)
    <2>. DEFINE C == [client[c] EXCEPT !.menu = FALSE]
    <2>1. /\ client[c].menu
          /\ Version[c] = "bb"
          /\ client' = [client EXCEPT ![c] = C]
          /\ lobby' = [lobby EXCEPT ![g] = Freed]
          /\ numGames' = numGames - 1
          /\ numClients' = numClients
        BY <1>6 DEF CancelCreate, Answers
    <2>2. /\ C.lobby = client[c].lobby /\ C.up = client[c].up
          /\ C.menu = FALSE
        BY <1>b DEF ClientRec
    <2>. HIDE DEF C
    <2>3. client'[c] = C /\ \A d \in Clients \ {c} : client'[d] = client[d]
        BY <1>b, <2>1
    <2>4. /\ g \in Games /\ g \in LobbyIds
          /\ lobby[g].state = "listed"
          /\ Members(g) = {}
          /\ \A d \in Clients \ {c} : client[d].menu => client[d].create # g
        BY <1>b, <1>c, <2>1
    <2>5. \A k \in LobbyIds : lobby'[k] = IF k = g THEN Freed ELSE lobby[k]
        BY <1>b, <2>1
    <2>6. Freed.num = 0 /\ Freed.state = "free"
        BY DEF Freed, Empty
    <2>7. Right(lobby, numGames)'
        <3>1. Fits(lobby')
            BY <1>a, <2>5, <2>6, Caps DEF Fits, Right
        <3>2. g \in On(lobby) /\ On(lobby') = On(lobby) \ {g}
            BY <1>b, <2>4, <2>5, <2>6 DEF On
        <3>3. Cardinality(On(lobby')) = Cardinality(On(lobby)) - 1
            BY <3>2, Uncounted
        <3>. QED BY <1>a, <2>1, <3>1, <3>3 DEF Right
    <2>. DEFINE S == {g}
    <2>8. \A k \in Games \ S : lobby'[k].state \in {lobby[k].state, "free"}
        BY <1>b, <2>5
    <2>9. \A d \in Clients : client'[d].menu =>
             /\ client[d].menu
             /\ client'[d].create = client[d].create
             /\ client[d].create \notin S
        BY <2>2, <2>3, <2>4
    <2>10. \A d \in Clients : client'[d].lobby \in Games =>
             client'[d].lobby = client[d].lobby /\ client[d].lobby \notin S
        BY <2>2, <2>3, <2>4 DEF Members
    <2>. HIDE DEF S
    <2>11. PlayedListed' /\ MenuStates'
        BY <1>a, <2>8, <2>9, <2>10, StatesKept
    <2>12. numClients' = Cardinality(Up')
        <3>1. \A d \in Clients : client'[d].up = client[d].up
            BY <2>2, <2>3
        <3>. QED BY <2>1, <3>1, SameUp DEF CountsInv
    <2>. QED BY <2>7, <2>11, <2>12 DEF CountsInv
<1>. QED BY <1>1, <1>2, <1>3, <1>4, <1>5, <1>6 DEF Creates

LEMMA PlaysCount ==
    ASSUME IInv, CountsInv, IInv', NEW c \in Clients, Plays(c)
    PROVE  CountsInv'
<1>1. numGames' = numGames /\ numClients' = numClients
    BY DEF Plays, Subcmd, DoneBurst, Ping, QuestList, QuestListEnd, SetupQuest,
           QloadDone, AllowGC
<1>. QED BY <1>1, PlaysFlags, FlagsCount DEF IInv, SamePlace

LEMMA CountsStep ==
    ASSUME OpenMenus, IInv, CountsInv, IInv', [Next]_vars
    PROVE  CountsInv'
<1>1. CASE Tick \/ UNCHANGED vars
    <2>1. UNCHANGED <<lobby, client, numGames, numClients>>
        BY <1>1 DEF Tick, vars
    <2>. QED BY <2>1, FlagsCount
<1>2. ASSUME NEW c \in Clients,
             Connect(c) \/ Drop(c) \/ Moves(c) \/ Creates(c) \/ Plays(c)
      PROVE  CountsInv'
    BY <1>2, ConnectCounts, DropCounts, MovesCount, CreatesCount, PlaysCount
<1>. QED BY <1>1, <1>2 DEF Next

LEMMA CountsInit == Init => CountsInv
<1> SUFFICES ASSUME Init PROVE CountsInv
    OBVIOUS
<1>1. None \notin Games
    BY ConstantsAssumption DEF LobbyIds
<1>2. \A c \in Clients : client[c].lobby = None /\ ~client[c].menu /\ ~client[c].up
    BY DEF Init, Fresh
<1>3. \A l \in LobbyIds : lobby[l].num = 0
    BY DEF Init, Freed, Empty
<1>4. On(lobby) = {} /\ Up = {}
    BY <1>2 DEF On, Up, Init, Freed, Empty, LobbyIds
<1>5. numGames = Cardinality(On(lobby)) /\ numClients = Cardinality(Up)
    BY <1>4, FS_EmptySet DEF Init
<1>. QED BY <1>1, <1>2, <1>3, <1>5, Caps
         DEF CountsInv, Right, Fits, PlayedListed, MenuStates, InGame

\* The counts the server reports and decides by are the true ones, for any
\* clients, lobbies and games and any order of packets of clients that answer
\* a creation menu only while it is open (and may otherwise send anything at
\* any time), as long as nobody joins a game whose creator is still in the
\* creation menus: no path of lobby_change_lobby, lobby_remove_player,
\* lobby_create_game or lobby_destroy counts a member or a game twice, or
\* forgets one.
THEOREM CountsCorrect ==
    ASSUME ~JoinPending, OpenMenus PROVE Spec => []CountsAgree
<1>1. Init => IInv /\ CountsInv
    BY InitInv, CountsInit
<1>2. IInv /\ CountsInv /\ [Next]_vars => (IInv /\ CountsInv)'
    BY StepKeeps, CountsStep
<1>3. IInv /\ CountsInv => CountsAgree
    <2>1. Listed \cap Games = On(lobby) /\ Up = {c \in Clients : client[c].up}
        BY DEF Listed, On, Up, LobbyIds
    <2>. QED BY <2>1 DEF IInv, PlacesInv, NumsAgree, CountsInv, Right, Fits, CountsAgree
<1>. QED BY <1>1, <1>2, <1>3, PTL DEF Spec
=============================================================================
