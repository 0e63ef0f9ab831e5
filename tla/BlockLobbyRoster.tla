------------------------- MODULE BlockLobbyRoster -------------------------
(***************************************************************************)
(* Proofs about who is in a game and what that means for it, as long as    *)
(* nobody joins a game whose creator is still in the creation menus:       *)
(*                                                                         *)
(*   - every step of the block is a step of Roster, or none, so that the   *)
(*     block implements it; and, without BB clients, no game is listed     *)
(*     with nobody in it;                                                  *)
(*   - a game is closed by a burst exactly as long as one of its members   *)
(*     bursts;                                                             *)
(*   - the member that takes over a game has been in it longest.           *)
(*                                                                         *)
(* The first two are about clients that send a packet only when the game   *)
(* client would: one that asked for another lobby in the middle of its     *)
(* burst would leave a game behind that is closed and empty of bursts.     *)
(* The third asks only that they answer no creation menu they have closed. *)
(***************************************************************************)
EXTENDS BlockLobbyCounts, WellFoundedInduction

-----------------------------------------------------------------------------
(* The promises of Roster.  A step of the block is a step of Roster about  *)
(* the client that took it, or none.                                       *)

\* An open creation menu covers the screen of a client in a default lobby.
MenusAtHome ==
    \A c \in Clients : client[c].menu => client[c].lobby \in DefaultLobbies

\* The games that are left once c is gone from where it is.
Without(lb, c) == {g \in On(lb) : Members(g) # {c}}

\* c, and nobody else, goes to r.
Goes(c, r) ==
    /\ client'[c].lobby = r
    /\ \A d \in Clients \ {c} : client'[d].lobby = client[d].lobby

LEMMA RosterState ==
    /\ Listed \cap Games = On(lobby)
    /\ \A l : R!Inside(l) = Members(l)
    /\ \A c : R!OpenWithout(c) = Without(lobby, c)
    /\ \A l \in LobbyIds : [k \in LobbyIds |-> Cap(k)][l] = Cap(l)
<1>1. Listed \cap Games = On(lobby)
    BY DEF Listed, On, LobbyIds
<1>2. \A l : R!Inside(l) = Members(l)
    BY DEF R!Inside, Members
<1>. QED BY <1>1, <1>2 DEF R!OpenWithout, Without

LEMMA RosterStateNext == (Listed \cap Games)' = On(lobby')
BY DEF Listed, On, LobbyIds

LEMMA GoesAt ==
    ASSUME NEW c \in Clients, NEW r, Goes(c, r)
    PROVE  [d \in Clients |-> client'[d].lobby] =
             [[d \in Clients |-> client[d].lobby] EXCEPT ![c] = r]
BY DEF Goes

LEMMA EnterRoster ==
    ASSUME NEW c \in Clients, NEW r \in DefaultLobbies \cup On(lobby),
           client[c].lobby # r, Cardinality(Members(r)) < Cap(r),
           Goes(c, r), On(lobby') = Without(lobby, c)
    PROVE  R!Step
<1>1. r \in LobbyIds
    BY DEF LobbyIds, On
<1>2. R!Cardinality(Members(r)) = Cardinality(Members(r))
    BY DEF R!Cardinality, Cardinality
<1>3. R!Enter(c, r)
    BY <1>1, <1>2, RosterState, RosterStateNext, GoesAt DEF R!Enter
<1>. QED BY <1>3, RosterState DEF R!Step

LEMMA FoundRoster ==
    ASSUME NEW c \in Clients, NEW g \in Games, g \notin On(lobby),
           client[c].lobby # g,
           Goes(c, g), On(lobby') = Without(lobby, c) \cup {g}
    PROVE  R!Step
<1>1. R!Found(c, g)
    BY RosterState, RosterStateNext, GoesAt DEF R!Found
<1>. QED BY <1>1 DEF R!Step

LEMMA LeaveRoster ==
    ASSUME NEW c \in Clients, client[c].lobby # None,
           Goes(c, None), On(lobby') = Without(lobby, c)
    PROVE  R!Step
<1>1. R!Leave(c)
    BY RosterState, RosterStateNext, GoesAt DEF R!Leave
<1>. QED BY <1>1 DEF R!Step

LEMMA OpenRoster ==
    ASSUME NEW g \in Games, g \notin On(lobby),
           \A d \in Clients : client'[d].lobby = client[d].lobby,
           On(lobby') = On(lobby) \cup {g}
    PROVE  R!RNext
<1>1. R!Open(g)
    BY RosterState, RosterStateNext DEF R!Open
<1>. QED BY <1>1 DEF R!RNext

LEMMA CloseRoster ==
    ASSUME NEW g \in On(lobby), Members(g) = {},
           \A d \in Clients : client'[d].lobby = client[d].lobby,
           On(lobby') = On(lobby) \ {g}
    PROVE  R!Step
<1>1. g \in Games
    BY DEF On
<1>2. R!Close(g)
    BY RosterState, RosterStateNext DEF R!Close
<1>. QED BY <1>1, <1>2 DEF R!Step

LEMMA StayRoster ==
    ASSUME \A d \in Clients : client'[d].lobby = client[d].lobby,
           On(lobby') = On(lobby)
    PROVE  UNCHANGED R!rvars
BY RosterState, RosterStateNext DEF R!rvars

LEMMA EmptiesAlone ==
    ASSUME TypeOK, PlacesInv, NEW lb \in [LobbyIds -> LobbyRec], Alike(lb),
           NEW c \in Clients
    PROVE  Empties(lb, c) <=>
             client[c].lobby \in Games /\ Members(client[c].lobby) = {c}
<1>. DEFINE l == client[c].lobby
<1> SUFFICES ASSUME l \in Games
             PROVE  Empties(lb, c) <=> Members(l) = {c}
    BY DEF Empties
<1>1. l \in LobbyIds /\ client[c].id \in Slots
    BY DEF TypeOK, ClientRec, LobbyIds
<1>2. lb[l].slot = lobby[l].slot /\ lb[l].num = Cardinality(Members(l))
    BY <1>1 DEF Alike, PlacesInv, NumsAgree
<1>3. lb[l].slot[client[c].id] = c
    BY <1>1, <1>2 DEF PlacesInv, SlotsAgree
<1>4. Cardinality(Members(l)) = 1 <=> \E x : Members(l) = {x}
    BY MembersFinite, FS_Singleton
<1>5. c \in Members(l)
    BY DEF Members
<1>. QED BY <1>2, <1>3, <1>4, <1>5 DEF Empties

\* What removing a client leaves listed.
LEMMA VacatedRoster ==
    ASSUME TypeOK, PlacesInv, NEW lb \in [LobbyIds -> LobbyRec], Alike(lb),
           NEW c \in Clients, client[c].lobby # None
    PROVE  Vacated(lb, c).state =
             IF client[c].lobby \in Games /\ Members(client[c].lobby) = {c}
               THEN "free" ELSE lb[client[c].lobby].state
BY VacatedCount, EmptiesAlone

LEMMA MoveRoster ==
    ASSUME TypeOK, PlacesInv, NEW lb \in [LobbyIds -> LobbyRec], Alike(lb),
           NEW n, NEW c \in Clients, NEW C \in ClientRec,
           NEW r \in LobbyIds, client[c].lobby \notin {None, r},
           Move(lb, n, c, C, r)
    PROVE  /\ Goes(c, r)
           /\ On(lobby') = Without(lb, c)
           /\ Cardinality(Members(r)) < Cap(r)
<1>. DEFINE l == client[c].lobby
<1>1. l \in LobbyIds /\ now \in Nat /\ client \in [Clients -> ClientRec]
    BY DEF TypeOK, ClientRec
<1>2. PICK i \in Slots :
         /\ TakesSlot(lb[r], r, i)
         /\ lobby' = [lb EXCEPT ![r] = Seated(lb, c, r, i), ![l] = Vacated(lb, c)]
         /\ client' = [client EXCEPT ![c] = Placed(C, r, i)]
    BY DEF Move
<1>3. Goes(c, r)
    <2>1. Placed(C, r, i) \in ClientRec /\ Placed(C, r, i).lobby = r
        BY <1>1, PlacedType
    <2>2. client'[c] = Placed(C, r, i) /\ \A d \in Clients \ {c} : client'[d] = client[d]
        BY <1>2, <2>1, SameClients
    <2>. QED BY <2>1, <2>2 DEF Goes
<1>4. \A k \in LobbyIds : lobby'[k] = IF k = l THEN Vacated(lb, c)
                                      ELSE IF k = r THEN Seated(lb, c, r, i)
                                      ELSE lb[k]
    BY <1>1, <1>2
<1>5. Seated(lb, c, r, i).state = lb[r].state
    BY SeatedType
<1>6. Vacated(lb, c).state =
         IF l \in Games /\ Members(l) = {c} THEN "free" ELSE lb[l].state
    BY VacatedRoster
<1>7. \A g \in Games : g # l => Members(g) # {c}
    BY DEF Members
<1>8. On(lobby') = Without(lb, c)
    BY <1>4, <1>5, <1>6, <1>7 DEF On, Without, LobbyIds
<1>9. Cardinality(Members(r)) < Cap(r)
    BY <1>2 DEF TakesSlot, Alike, PlacesInv, NumsAgree
<1>. QED BY <1>3, <1>8, <1>9

LEMMA AddToAnyRoster ==
    ASSUME TypeOK, PlacesInv, NEW c \in Clients, client[c].lobby = None,
           AddToAny(lobby, numGames, c, client[c])
    PROVE  R!Step
<1>1. PICK r \in DefaultLobbies, i \in Slots :
         /\ TakesSlot(lobby[r], r, i)
         /\ lobby' = [lobby EXCEPT ![r] = Seated(lobby, c, r, i)]
         /\ client' = [client EXCEPT ![c] = Placed(client[c], r, i)]
    BY DEF AddToAny
<1>2. r \in LobbyIds /\ r # None /\ r \notin Games /\ None \notin Games
    BY ConstantsAssumption DEF LobbyIds
<1>3. Goes(c, r)
    <2>1. client[c] \in ClientRec /\ now \in Nat
        BY DEF TypeOK
    <2>2. Placed(client[c], r, i) \in ClientRec /\ Placed(client[c], r, i).lobby = r
        BY <1>2, <2>1, PlacedType
    <2>3. /\ client'[c] = Placed(client[c], r, i)
          /\ \A d \in Clients \ {c} : client'[d] = client[d]
        BY <1>1, <2>2, SameClients
    <2>. QED BY <2>2, <2>3 DEF Goes
<1>4. On(lobby') = Without(lobby, c)
    <2>1. \A g \in Games : lobby'[g] = lobby[g]
        BY <1>1, <1>2 DEF TypeOK, LobbyIds
    <2>2. \A g \in Games : Members(g) # {c}
        BY <1>2 DEF Members
    <2>. QED BY <2>1, <2>2 DEF On, Without
<1>5. Cardinality(Members(r)) < Cap(r)
    BY <1>1, <1>2 DEF TakesSlot, PlacesInv, NumsAgree
<1>. QED BY <1>2, <1>3, <1>4, <1>5, EnterRoster

LEMMA RemovePlayerRoster ==
    ASSUME TypeOK, PlacesInv, NEW c \in Clients, client[c].lobby # None,
           RemovePlayer(c), Goes(c, None)
    PROVE  R!Step
<1>. DEFINE l  == client[c].lobby
            lb == IF client[c].bursting
                    THEN [lobby EXCEPT ![l] = EndBurst(lobby[l])]
                    ELSE lobby
<1>1. l \in LobbyIds /\ lobby \in [LobbyIds -> LobbyRec] /\ lobby[l] \in LobbyRec
    BY DEF TypeOK, ClientRec
<1>2. lobby' = [lb EXCEPT ![l] = Vacated(lb, c)]
    BY DEF RemovePlayer
<1>3. /\ lb \in [LobbyIds -> LobbyRec]
      /\ \A k \in LobbyIds : SamePlace(lobby[k], lb[k])
    BY <1>1, EndBurstType DEF SamePlace
<1>. HIDE DEF lb
<1>4. Alike(lb) /\ On(lb) = On(lobby)
    BY <1>3, AlikeSelf DEF Alike, SamePlace, On, LobbyIds
<1>5. \A k \in LobbyIds : lobby'[k] = IF k = l THEN Vacated(lb, c) ELSE lb[k]
    BY <1>1, <1>2, <1>3
<1>6. Vacated(lb, c).state =
         IF l \in Games /\ Members(l) = {c} THEN "free" ELSE lb[l].state
    BY <1>3, <1>4, VacatedRoster
<1>7. \A g \in Games : g # l => Members(g) # {c}
    BY DEF Members
<1>8. On(lobby') = Without(lb, c)
    BY <1>5, <1>6, <1>7 DEF On, Without, LobbyIds
<1>9. Without(lb, c) = Without(lobby, c)
    BY <1>4 DEF Without
<1>. QED BY <1>8, <1>9, LeaveRoster

\* A client joins the game it has made, which it leaves its default lobby for,
\* or the game is gone, or (BB, refused) it stays behind.
LEMMA JoinNewRoster ==
    ASSUME TypeOK, PlacesInv, NEW lb \in [LobbyIds -> LobbyRec], Alike(lb),
           NEW n, NEW c \in Clients, client[c].lobby \in DefaultLobbies,
           NEW g \in Games, Members(g) = {}, On(lb) = On(lobby) \cup {g},
           g \in On(lobby) \/ Version[c] # "bb" \/ ~Refuses(lb[g]),
           NEW ok \in ClientRec, NEW failed \in ClientRec,
           ok.lobby = client[c].lobby, failed.lobby = client[c].lobby,
           JoinNew(lb, n, c, g, ok, failed)
    PROVE  [R!Step]_(R!rvars)
<1>1. /\ g \in LobbyIds
      /\ client[c].lobby \notin {None, g}
      /\ client[c].lobby \notin Games
    BY ConstantsAssumption DEF LobbyIds
<1>2. CASE Move(lb, n, c, ok, g)
    <2>1. /\ Goes(c, g)
          /\ On(lobby') = Without(lb, c)
          /\ Cardinality(Members(g)) < Cap(g)
        BY <1>1, <1>2, MoveRoster
    <2>2. Without(lb, c) = Without(lobby, c) \cup {g}
        BY DEF Without
    <2>3. CASE g \in On(lobby)
        <3>1. Without(lb, c) = Without(lobby, c)
            BY <2>3 DEF Without
        <3>. QED BY <1>1, <2>1, <2>3, <3>1, EnterRoster
    <2>4. CASE g \notin On(lobby)
        BY <1>1, <2>1, <2>2, <2>4, FoundRoster
    <2>. QED BY <2>3, <2>4
<1>3. CASE Version[c] = "bb" /\ Refuses(lb[g]) /\ lobby' = lb
           /\ client' = [client EXCEPT ![c] = ok]
    <2>1. client'[c] = ok /\ \A d \in Clients \ {c} : client'[d] = client[d]
        BY <1>3, SameClients
    <2>2. \A d \in Clients : client'[d].lobby = client[d].lobby
        BY <2>1
    <2>3. On(lobby') = On(lobby)
        BY <1>3
    <2>. QED BY <2>2, <2>3, StayRoster
<1>4. CASE lobby' = [lb EXCEPT ![g] = Freed]
           /\ client' = [client EXCEPT ![c] = failed]
    <2>1. client'[c] = failed /\ \A d \in Clients \ {c} : client'[d] = client[d]
        BY <1>4, SameClients
    <2>2. \A d \in Clients : client'[d].lobby = client[d].lobby
        BY <2>1
    <2>3. On(lobby') = On(lobby) \ {g}
        <3>1. \A k \in LobbyIds : lobby'[k] = IF k = g THEN Freed ELSE lb[k]
            BY <1>4
        <3>2. Freed.state = "free"
            BY DEF Freed, Empty
        <3>3. On(lobby') = On(lb) \ {g}
            BY <3>1, <3>2 DEF On, LobbyIds
        <3>. QED BY <3>3
    <2>4. CASE g \in On(lobby)
        BY <2>2, <2>3, <2>4, CloseRoster
    <2>5. CASE g \notin On(lobby)
        <3>1. On(lobby') = On(lobby)
            BY <2>3, <2>5
        <3>. QED BY <2>2, <3>1, StayRoster
    <2>. QED BY <2>4, <2>5
<1>. QED BY <1>1, <1>2, <1>3, <1>4 DEF JoinNew

LEMMA MovesRoster ==
    ASSUME TypeOK, PlacesInv, NEW c \in Clients, Moves(c)
    PROVE  [R!Step]_(R!rvars)
<1>1. Alike(lobby) /\ client[c] \in ClientRec /\ lobby \in [LobbyIds -> LobbyRec]
    BY AlikeSelf DEF TypeOK
<1>2. ASSUME NEW r \in Listed, client[c].lobby \notin {None, r},
             Move(lobby, numGames, c, client[c], r)
      PROVE  R!Step
    <2>1. r \in LobbyIds /\ r \in DefaultLobbies \cup On(lobby)
        BY DEF Listed, On, LobbyIds
    <2>2. /\ Goes(c, r)
          /\ On(lobby') = Without(lobby, c)
          /\ Cardinality(Members(r)) < Cap(r)
        BY <1>1, <1>2, <2>1, MoveRoster
    <2>. QED BY <1>2, <2>1, <2>2, EnterRoster
<1>3. CASE EnterLobby(c)
    BY <1>3, AddToAnyRoster DEF EnterLobby
<1>4. CASE LeaveGame(c)
    <2>. DEFINE C == [client[c] EXCEPT !.lobby = None, !.id = 0, !.held = FALSE,
                                       !.browsing = FALSE]
    <2>1. /\ client[c].lobby # None
          /\ RemovePlayer(c)
          /\ client' = [client EXCEPT ![c] = C]
        BY <1>4 DEF LeaveGame
    <2>2. C.lobby = None
        BY <1>1 DEF ClientRec
    <2>. HIDE DEF C
    <2>3. client'[c] = C /\ \A d \in Clients \ {c} : client'[d] = client[d]
        BY <2>1 DEF TypeOK
    <2>4. Goes(c, None)
        BY <2>2, <2>3 DEF Goes
    <2>. QED BY <2>1, <2>4, RemovePlayerRoster
<1>5. ASSUME NEW r \in LobbyIds, ChangeLobby(c, r) PROVE R!Step
    BY <1>2, <1>5 DEF ChangeLobby
<1>6. ASSUME NEW g \in Games, SelectGame(c, g) PROVE R!Step
    BY <1>2, <1>6 DEF SelectGame
<1>7. CASE RejoinGame(c)
    <2>. DEFINE l == client[c].lobby
    <2>1. /\ lobby' = [lobby EXCEPT ![l].bursting = TRUE]
          /\ client' = [client EXCEPT ![c].bursting = TRUE]
        BY <1>7 DEF RejoinGame, Rejoin
    <2>2. \A d \in Clients : client'[d].lobby = client[d].lobby
        BY <2>1 DEF TypeOK, ClientRec
    <2>3. \A k \in LobbyIds : lobby'[k].state = lobby[k].state
        BY <2>1 DEF TypeOK, LobbyRec
    <2>4. On(lobby') = On(lobby)
        BY <2>3 DEF On, LobbyIds
    <2>. QED BY <2>2, <2>4, StayRoster
<1>. QED BY <1>3, <1>4, <1>5, <1>6, <1>7 DEF Moves

LEMMA CreatesRoster ==
    ASSUME Disciplined, OpenMenus, IInv, CountsInv, MenusAtHome, NEW c \in Clients, Creates(c)
    PROVE  [R!Step]_(R!rvars) \/ (Version[c] = "bb" /\ R!RNext)
<1>. DEFINE g == client[c].create
<1>a. TypeOK /\ PlacesInv /\ MenusOwnGames /\ MenuStates
    BY DEF IInv, CountsInv
<1>b. /\ lobby \in [LobbyIds -> LobbyRec]
      /\ client \in [Clients -> ClientRec]
      /\ client[c] \in ClientRec
      /\ Games \subseteq LobbyIds
    BY <1>a DEF TypeOK, LobbyIds
<1>c. client[c].menu =>
        /\ g \in Games
        /\ Members(g) = {}
        /\ client[c].lobby \in DefaultLobbies
        /\ lobby[g].state = IF Version[c] = "bb" THEN "listed" ELSE "pending"
    BY <1>a DEF MenusOwnGames, MenuStates, MenusAtHome
<1>1. ASSUME NEW h \in Games, CreateGame(c, h) PROVE [R!Step]_(R!rvars)
    <2>. DEFINE lb == [lobby EXCEPT ![h] = NewGame(c, "listed")]
                C  == client[c]
    <2>1. /\ lobby[h].state = "free"
          /\ client[c].lobby \in DefaultLobbies
          /\ JoinNew(lb, numGames + 1, c, h, C, C)
        BY <1>1 DEF CreateGame, MayCreate, Idle
    <2>2. Members(h) = {} /\ lb \in [LobbyIds -> LobbyRec] /\ Alike(lb)
        BY <1>a, <2>1, AlikeNew
    <2>3. lb[h] = NewGame(c, "listed") /\ \A k \in Games \ {h} : lb[k] = lobby[k]
        BY <1>b
    <2>4. /\ NewGame(c, "listed").state = "listed"
          /\ NewGame(c, "listed").ver = Version[c]
        BY DEF NewGame, Empty
    <2>5. On(lb) = On(lobby) \cup {h}
        BY <2>3, <2>4 DEF On
    <2>6. Version[c] # "bb" \/ ~Refuses(lb[h])
        <3>1. /\ ~NewGame(c, "listed").questsel /\ ~NewGame(c, "listed").questing
              /\ ~NewGame(c, "listed").bursting /\ NewGame(c, "listed").num = 0
            BY DEF NewGame, Empty
        <3>. QED BY <2>3, <2>4, <3>1, ConstantsAssumption DEF Refuses, Admits
    <2>7. C \in ClientRec /\ C.lobby = client[c].lobby
        BY <1>b
    <2>. HIDE DEF lb, C
    <2>. QED BY <1>a, <2>1, <2>2, <2>5, <2>6, <2>7, JoinNewRoster
<1>2. ASSUME NEW h \in Games, CreatePending(c, h)
      PROVE  [R!Step]_(R!rvars) \/ (Version[c] = "bb" /\ R!RNext)
    <2>. DEFINE C  == [client[c] EXCEPT !.create = h, !.menu = TRUE]
                st == IF Version[c] = "bb" THEN "listed" ELSE "pending"
    <2>1. /\ lobby[h].state = "free"
          /\ client' = [client EXCEPT ![c] = C]
          /\ lobby' = [lobby EXCEPT ![h] = NewGame(c, st)]
        BY <1>2 DEF CreatePending, MayCreate
    <2>2. C.lobby = client[c].lobby
        BY <1>b DEF ClientRec
    <2>. HIDE DEF C
    <2>3. \A d \in Clients : client'[d].lobby = client[d].lobby
        BY <1>b, <2>1, <2>2
    <2>4. NewGame(c, st).state = st
        BY DEF NewGame, Empty
    <2>5. st \in {"listed", "pending"} /\ (st = "listed" => Version[c] = "bb")
        OBVIOUS
    <2>. HIDE DEF st
    <2>6. lobby'[h] = NewGame(c, st) /\ \A k \in Games \ {h} : lobby'[k] = lobby[k]
        BY <1>b, <2>1
    <2>7. On(lobby') = IF st = "listed" THEN On(lobby) \cup {h} ELSE On(lobby)
        BY <2>1, <2>4, <2>5, <2>6 DEF On
    <2>8. h \notin On(lobby)
        BY <2>1 DEF On
    <2>. QED BY <2>3, <2>5, <2>7, <2>8, OpenRoster, StayRoster
<1>3. CASE ChooseType(c)
    <2>. DEFINE L      == [lobby[g] EXCEPT !.state = "listed"]
                lb     == [lobby EXCEPT ![g] = L]
                closed == [client[c] EXCEPT !.create = None, !.menu = FALSE]
    <2>1. /\ client[c].menu
          /\ Version[c] = "v2"
          /\ JoinNew(lb, numGames + 1, c, g, closed, closed)
        BY <1>3 DEF ChooseType
    <2>2. g \in Games /\ g \in LobbyIds /\ lobby[g] \in LobbyRec
        BY <1>b, <1>c, <2>1
    <2>3. L \in LobbyRec /\ L.slot = lobby[g].slot /\ L.num = lobby[g].num
          /\ L.state = "listed"
        BY <2>2, FlagsType, FlagsSame
    <2>4. closed \in ClientRec /\ closed.lobby = client[c].lobby
        <3>1. closed \in ClientRec
            BY <1>b, ClientFlagsType
        <3>2. closed.lobby = client[c].lobby
            BY <1>b DEF ClientRec
        <3>. QED BY <3>1, <3>2
    <2>. HIDE DEF L, closed
    <2>5. lb \in [LobbyIds -> LobbyRec]
        BY <1>b, <2>3
    <2>6. lb[g] = L /\ \A k \in LobbyIds \ {g} : lb[k] = lobby[k]
        BY <1>b, <2>2
    <2>7. Alike(lb)
        <3>1. Alike(lobby)
            BY <1>a, AlikeSelf
        <3>. QED BY <1>b, <2>3, <2>6, <3>1 DEF Alike
    <2>8. On(lb) = On(lobby) \cup {g}
        BY <1>b, <2>2, <2>3, <2>6 DEF On
    <2>9. Version[c] # "bb"
        BY <2>1
    <2>. HIDE DEF g, lb
    <2>. QED BY <1>a, <1>c, <2>1, <2>2, <2>4, <2>5, <2>7, <2>8, <2>9, JoinNewRoster
<1>4. CASE ChooseVersion(c)
    <2>1. client' = client
        BY <1>4 DEF ChooseVersion, Answers
    <2>2. \/ lobby' = [lobby EXCEPT ![g] = [lobby[g] EXCEPT !.gcOK = TRUE]]
          \/ \E v \in {"v2", "bb"} :
               lobby' = [lobby EXCEPT ![g] = [lobby[g] EXCEPT !.ver = v]]
        BY <1>4 DEF ChooseVersion, Answers
    <2>3. g \in Games /\ lobby[g] \in LobbyRec
        BY <1>4, <1>b, <1>c DEF ChooseVersion, Answers
    <2>4. \E M : SamePlace(lobby[g], M) /\ lobby' = [lobby EXCEPT ![g] = M]
        BY <2>2, <2>3, FlagsSame
    <2>5. On(lobby') = On(lobby)
        BY <1>b, <2>3, <2>4 DEF SamePlace, On
    <2>. QED BY <2>1, <2>5, StayRoster
<1>5. CASE ChooseDrop(c)
    <2>. DEFINE ok     == [client[c] EXCEPT !.create = None, !.menu = FALSE]
                failed == [client[c] EXCEPT !.menu = FALSE]
    <2>1. /\ client[c].menu
          /\ Version[c] = "bb"
          /\ JoinNew(lobby, numGames, c, g, ok, failed)
        BY <1>a, <1>5, DropJoins DEF ChooseDrop, Answers
    <2>2. ok \in ClientRec /\ failed \in ClientRec
        BY <1>b, ClientFlagsType
    <2>3. ok.lobby = client[c].lobby /\ failed.lobby = client[c].lobby
        BY <1>b DEF ClientRec
    <2>. HIDE DEF ok, failed
    <2>4. g \in On(lobby) /\ Members(g) = {} /\ client[c].lobby \in DefaultLobbies
        BY <1>c, <2>1 DEF On
    <2>5. Alike(lobby) /\ g \in Games /\ On(lobby) = On(lobby) \cup {g}
        BY <1>a, <2>4, AlikeSelf DEF On
    <2>. HIDE DEF g
    <2>. QED BY <1>a, <1>b, <2>1, <2>2, <2>3, <2>4, <2>5, JoinNewRoster
<1>6. CASE CancelCreate(c)
    <2>. DEFINE C == [client[c] EXCEPT !.menu = FALSE]
    <2>1. /\ client[c].menu
          /\ Version[c] = "bb"
          /\ client' = [client EXCEPT ![c] = C]
          /\ lobby' = [lobby EXCEPT ![g] = Freed]
        BY <1>6 DEF CancelCreate, Answers
    <2>2. C.lobby = client[c].lobby
        BY <1>b DEF ClientRec
    <2>. HIDE DEF C
    <2>3. \A d \in Clients : client'[d].lobby = client[d].lobby
        BY <1>b, <2>1, <2>2
    <2>4. g \in On(lobby) /\ Members(g) = {}
        BY <1>c, <2>1 DEF On
    <2>5. lobby'[g] = Freed /\ \A k \in Games \ {g} : lobby'[k] = lobby[k]
        BY <1>b, <1>c, <2>1
    <2>6. Freed.state = "free"
        BY DEF Freed, Empty
    <2>7. On(lobby') = On(lobby) \ {g}
        BY <2>4, <2>5, <2>6 DEF On
    <2>. QED BY <2>3, <2>4, <2>7, CloseRoster
<1>. QED BY <1>1, <1>2, <1>3, <1>4, <1>5, <1>6 DEF Creates

LEMMA DropRoster ==
    ASSUME TypeOK, PlacesInv, NEW c \in Clients, Drop(c)
    PROVE  [R!Step]_(R!rvars)
<1>1. client' = [client EXCEPT ![c] = Fresh(FALSE)] /\ Fresh(FALSE).lobby = None
    BY DEF Drop, Fresh
<1>2. Goes(c, None)
    BY <1>1 DEF Goes, TypeOK
<1>3. CASE client[c].lobby = None
    <2>1. lobby' = lobby
        BY <1>3 DEF Drop
    <2>2. On(lobby') = On(lobby)
        BY <2>1
    <2>. QED BY <1>2, <1>3, <2>2, StayRoster DEF Goes
<1>4. CASE client[c].lobby # None
    BY <1>2, <1>4, RemovePlayerRoster DEF Drop
<1>. QED BY <1>3, <1>4

LEMMA RosterStep ==
    ASSUME Disciplined, OpenMenus, IInv, CountsInv, MenusAtHome, [Next]_vars
    PROVE  \/ [R!Step]_(R!rvars)
           \/ R!RNext /\ \E c \in Clients : Version[c] = "bb"
<1>a. TypeOK /\ PlacesInv
    BY DEF IInv
<1>1. CASE Tick \/ UNCHANGED vars
    <2>1. UNCHANGED <<lobby, client>>
        BY <1>1 DEF Tick, vars
    <2>2. On(lobby') = On(lobby)
        BY <2>1
    <2>. QED BY <2>1, <2>2, StayRoster
<1>2. ASSUME NEW c \in Clients, Connect(c) PROVE [R!Step]_(R!rvars)
    <2>1. /\ ~client[c].up
          /\ client' = [client EXCEPT ![c] = Fresh(TRUE)]
          /\ lobby' = lobby
        BY <1>2 DEF Connect
    <2>2. client[c].lobby = None /\ Fresh(TRUE).lobby = None
        BY <1>a, <2>1 DEF PlacesInv, SlotsAgree, Fresh
    <2>3. \A d \in Clients : client'[d].lobby = client[d].lobby
        BY <1>a, <2>1, <2>2 DEF TypeOK
    <2>4. On(lobby') = On(lobby)
        BY <2>1
    <2>. QED BY <2>3, <2>4, StayRoster
<1>3. ASSUME NEW c \in Clients, Plays(c) PROVE [R!Step]_(R!rvars)
    <2>1. \A d \in Clients : client'[d].lobby = client[d].lobby
        BY <1>a, <1>3, PlaysFlags
    <2>2. \A k \in LobbyIds : SamePlace(lobby[k], lobby'[k])
        BY <1>a, <1>3, PlaysFlags
    <2>3. On(lobby') = On(lobby)
        BY <2>2 DEF SamePlace, On, LobbyIds
    <2>. QED BY <2>1, <2>3, StayRoster
<1>. QED BY <1>a, <1>1, <1>2, <1>3, DropRoster, MovesRoster, CreatesRoster DEF Next

\* A menu stays where it was opened: a game client sends nothing that moves it
\* before the menu is closed.
LEMMA MenusStay ==
    ASSUME Disciplined, TypeOK, MenusAtHome, NEW c \in Clients, Moves(c)
    PROVE  MenusAtHome'
<1>. DEFINE C == [client[c] EXCEPT !.lobby = None, !.id = 0, !.held = FALSE,
                                   !.browsing = FALSE]
<1>a. /\ client[c] \in ClientRec
      /\ client \in [Clients -> ClientRec]
      /\ now \in Nat
      /\ DefaultLobbies \subseteq LobbyIds /\ Games \subseteq LobbyIds
    BY DEF TypeOK, LobbyIds
<1>1. ~client[c].menu
    BY ConstantsAssumption
       DEF Moves, EnterLobby, LeaveGame, ChangeLobby, SelectGame, RejoinGame,
           MenusAtHome, InGame, Idle, LobbyIds
<1>2. C.menu = client[c].menu /\ [client[c] EXCEPT !.bursting = TRUE].menu = client[c].menu
    BY <1>a DEF ClientRec
<1>3. \A r \in LobbyIds, i \in Slots : Placed(client[c], r, i).menu = client[c].menu
    BY <1>a, PlacedType
<1>4. \E D : client' = [client EXCEPT ![c] = D] /\ D.menu = client[c].menu
    <2>1. CASE EnterLobby(c)
        BY <1>a, <1>3, <2>1 DEF EnterLobby, AddToAny
    <2>2. CASE LeaveGame(c)
        BY <1>2, <2>2 DEF LeaveGame
    <2>3. CASE \E r \in LobbyIds : ChangeLobby(c, r)
        BY <1>3, <2>3 DEF ChangeLobby, Move
    <2>4. CASE \E g \in Games : SelectGame(c, g)
        BY <1>a, <1>3, <2>4 DEF SelectGame, Move
    <2>5. CASE RejoinGame(c)
        <3>1. client' = [client EXCEPT ![c] = [client[c] EXCEPT !.bursting = TRUE]]
            BY <2>5 DEF RejoinGame, Rejoin
        <3>. QED BY <1>2, <3>1
    <2>. QED BY <2>1, <2>2, <2>3, <2>4, <2>5 DEF Moves
<1>. QED BY <1>a, <1>1, <1>4 DEF MenusAtHome

LEMMA MenusOpen ==
    ASSUME Disciplined, OpenMenus, TypeOK, MenusAtHome, NEW c \in Clients, Creates(c)
    PROVE  MenusAtHome'
<1>a. /\ client[c] \in ClientRec
      /\ client \in [Clients -> ClientRec]
      /\ now \in Nat
      /\ DefaultLobbies \subseteq LobbyIds /\ Games \subseteq LobbyIds
    BY DEF TypeOK, LobbyIds
<1>1. ASSUME NEW lb, NEW n, NEW g \in Games, NEW ok \in ClientRec,
             NEW failed \in ClientRec, ~ok.menu, ~failed.menu,
             JoinNew(lb, n, c, g, ok, failed)
      PROVE  MenusAtHome'
    <2>1. \A r \in LobbyIds, i \in Slots : ~Placed(ok, r, i).menu
        BY <1>a, <1>1, PlacedType
    <2>2. \E D : client' = [client EXCEPT ![c] = D] /\ ~D.menu
        BY <1>a, <1>1, <2>1 DEF JoinNew, Move, AddToAny
    <2>. QED BY <1>a, <2>2 DEF MenusAtHome
<1>2. ASSUME NEW h \in Games, CreateGame(c, h) PROVE MenusAtHome'
    <2>. DEFINE lb == [lobby EXCEPT ![h] = NewGame(c, "listed")]
    <2>1. ~client[c].menu /\ JoinNew(lb, numGames + 1, c, h, client[c], client[c])
        BY <1>2 DEF CreateGame, MayCreate, Idle
    <2>. HIDE DEF lb
    <2>. QED BY <1>a, <1>1, <2>1
<1>3. ASSUME NEW h \in Games, CreatePending(c, h) PROVE MenusAtHome'
    <2>. DEFINE C == [client[c] EXCEPT !.create = h, !.menu = TRUE]
    <2>1. client[c].lobby \in DefaultLobbies /\ client' = [client EXCEPT ![c] = C]
        BY <1>3 DEF CreatePending, MayCreate, Idle
    <2>2. C.lobby = client[c].lobby
        BY <1>a DEF ClientRec
    <2>. HIDE DEF C
    <2>. QED BY <1>a, <2>1, <2>2 DEF MenusAtHome
<1>. DEFINE D == [client[c] EXCEPT !.create = None, !.menu = FALSE]
            F == [client[c] EXCEPT !.menu = FALSE]
<1>4. D \in ClientRec /\ F \in ClientRec
    BY <1>a, ClientFlagsType
<1>5. ~D.menu /\ ~F.menu
    BY <1>a DEF ClientRec
<1>6. CASE ChooseType(c)
    <2>. DEFINE g  == client[c].create
                lb == [lobby EXCEPT ![g].state = "listed"]
    <2>1. g # None /\ JoinNew(lb, numGames + 1, c, g, D, D)
        BY <1>6 DEF ChooseType
    <2>2. g \in Games
        BY <1>a, <2>1 DEF ClientRec
    <2>. HIDE DEF D, F, g, lb
    <2>. QED BY <1>1, <1>4, <1>5, <2>1, <2>2
<1>7. CASE ChooseVersion(c)
    <2>1. client' = client
        BY <1>7 DEF ChooseVersion, Answers
    <2>. QED BY <2>1 DEF MenusAtHome
<1>8. CASE ChooseDrop(c)
    <2>. DEFINE g == client[c].create
    <2>1. client[c].menu /\ g # None
        BY <1>8 DEF ChooseDrop, Answers
    <2>2. g \in Games
        BY <1>a, <2>1 DEF ClientRec
    <2>3. client[c].lobby # g
        BY <2>1, <2>2, ConstantsAssumption DEF MenusAtHome
    <2>4. JoinNew(lobby, numGames, c, g, D, F)
        BY <1>8, <2>3 DEF ChooseDrop
    <2>. HIDE DEF D, F, g
    <2>. QED BY <1>1, <1>4, <1>5, <2>2, <2>4
<1>9. CASE CancelCreate(c)
    <2>1. client' = [client EXCEPT ![c] = F]
        BY <1>9 DEF CancelCreate, Answers
    <2>. HIDE DEF F
    <2>. QED BY <1>a, <1>5, <2>1 DEF MenusAtHome
<1>. QED BY <1>2, <1>3, <1>6, <1>7, <1>8, <1>9 DEF Creates

LEMMA MenusStep ==
    ASSUME Disciplined, OpenMenus, TypeOK, MenusAtHome, [Next]_vars
    PROVE  MenusAtHome'
<1>1. CASE Tick \/ UNCHANGED vars
    BY <1>1 DEF Tick, vars, MenusAtHome
<1>2. ASSUME NEW c \in Clients, Connect(c) \/ Drop(c) PROVE MenusAtHome'
    <2>1. \E b \in BOOLEAN : client' = [client EXCEPT ![c] = Fresh(b)]
        BY <1>2 DEF Connect, Drop
    <2>2. \A b : ~Fresh(b).menu
        BY DEF Fresh
    <2>. QED BY <2>1, <2>2 DEF MenusAtHome, TypeOK
<1>3. ASSUME NEW c \in Clients, Plays(c) PROVE MenusAtHome'
    BY <1>3, PlaysFlags DEF MenusAtHome
<1>. QED BY <1>1, <1>2, <1>3, MenusStay, MenusOpen DEF Next

\* The block keeps the promises of Roster, for any clients, lobbies, games and
\* limits: if clients send what a game client would and nobody joins a game
\* whose creator is still in the menus, then whichever handlers of block.c and
\* lobby.c run and however connections end, a client is in one place at a time,
\* no place holds more than it has room for, and a game is open for exactly as
\* long as it was opened for somebody and its last player has not left.
THEOREM RosterKept == ASSUME ~JoinPending, Disciplined PROVE Spec => KeepsRoster
<1>. DEFINE Inv == IInv /\ CountsInv /\ MenusAtHome
<1>1. Init => Inv
    <2>1. Init => MenusAtHome
        BY DEF Init, Fresh, MenusAtHome
    <2>. QED BY <2>1, InitInv, CountsInit
<1>2. Inv /\ [Next]_vars => Inv'
    BY StepKeeps, CountsStep, MenusStep, ConstantsAssumption DEF IInv
<1>3. Init => R!RInit
    <2> SUFFICES ASSUME Init PROVE R!RInit
        OBVIOUS
    <2>1. [d \in Clients |-> client[d].lobby] = [d \in Clients |-> None]
        BY DEF Init, Fresh
    <2>2. Listed \cap Games = {}
        BY DEF Listed, Init, Freed, Empty, LobbyIds
    <2>. QED BY <2>1, <2>2 DEF R!RInit
<1>4. Inv /\ [Next]_vars => [R!RNext]_(R!rvars)
    BY RosterStep, ConstantsAssumption DEF R!RNext
<1>. HIDE DEF Inv
<1>. QED BY <1>1, <1>2, <1>3, <1>4, PTL DEF Spec, KeepsRoster, R!RSpec

-----------------------------------------------------------------------------
(* Without BB clients, whose games are listed while their menus are open,  *)
(* no game is listed with nobody in it.                                    *)

Occupied == \A g \in On(lobby) : Members(g) # {}

LEMMA OccupiedStep ==
    ASSUME Occupied, [R!Step]_(R!rvars)
    PROVE  Occupied'
<1>. DEFINE at == [d \in Clients |-> client[d].lobby]
<1>1. CASE UNCHANGED R!rvars
    <2>1. \A d \in Clients : client'[d].lobby = client[d].lobby
        <3>1. [d \in Clients |-> client'[d].lobby] = at
            BY <1>1 DEF R!rvars
        <3>. QED BY <3>1
    <2>2. On(lobby') = On(lobby)
        BY <1>1, RosterState, RosterStateNext DEF R!rvars
    <2>. QED BY <2>1, <2>2 DEF Occupied, Members
<1>2. ASSUME NEW c \in Clients, NEW r,
             [d \in Clients |-> client'[d].lobby] = [at EXCEPT ![c] = r],
             On(lobby') \subseteq Without(lobby, c) \cup {r}
      PROVE  Occupied'
    <2>1. client'[c].lobby = r /\ \A d \in Clients \ {c} : client'[d].lobby = client[d].lobby
        BY <1>2
    <2>2. ASSUME NEW g \in On(lobby') PROVE \E d \in Clients : client'[d].lobby = g
        <3>1. CASE g = r
            BY <2>1, <3>1
        <3>2. CASE g \in Without(lobby, c)
            <4>1. Members(g) # {} /\ Members(g) # {c}
                BY <3>2 DEF Without, Occupied
            <4>2. PICK d \in Members(g) : d # c
                BY <4>1
            <4>. QED BY <2>1, <4>2 DEF Members
        <3>. QED BY <1>2, <3>1, <3>2
    <2>. QED BY <2>2 DEF Occupied, Members
<1>3. ASSUME NEW g \in Games, R!Close(g) PROVE Occupied'
    <2>1. [d \in Clients |-> client'[d].lobby] = at
        BY <1>3 DEF R!Close
    <2>2. \A d \in Clients : client'[d].lobby = client[d].lobby
        BY <2>1
    <2>3. On(lobby') \subseteq On(lobby)
        BY <1>3, RosterState, RosterStateNext DEF R!Close
    <2>. QED BY <2>2, <2>3 DEF Occupied, Members
<1>4. ASSUME NEW c \in Clients, NEW r, R!Enter(c, r) PROVE Occupied'
    BY <1>2, <1>4, RosterState, RosterStateNext DEF R!Enter
<1>5. ASSUME NEW c \in Clients, NEW r, R!Found(c, r) PROVE Occupied'
    BY <1>2, <1>5, RosterState, RosterStateNext DEF R!Found
<1>6. ASSUME NEW c \in Clients, R!Leave(c) PROVE Occupied'
    BY <1>2, <1>6, RosterState, RosterStateNext DEF R!Leave
<1>. QED BY <1>1, <1>3, <1>4, <1>5, <1>6 DEF R!Step

\* A game in the game list has a player in it, for any DC, PC and GC clients
\* and any lobbies, games and limits: whichever way the last player goes, and
\* whichever way lobby_create_game or the join that follows it fails, the game
\* is taken off the list.
THEOREM NoGameEmpty ==
    ASSUME ~JoinPending, Disciplined, \A c \in Clients : Version[c] # "bb"
    PROVE  Spec => []NoEmptyGame
<1>. DEFINE Inv == IInv /\ CountsInv /\ MenusAtHome /\ Occupied
<1>1. Init => Inv
    <2>1. Init => MenusAtHome /\ Occupied
        BY DEF Init, Fresh, MenusAtHome, Occupied, On, Freed, Empty, LobbyIds
    <2>. QED BY <2>1, InitInv, CountsInit
<1>2. Inv /\ [Next]_vars => Inv'
    BY StepKeeps, CountsStep, MenusStep, RosterStep, OccupiedStep, ConstantsAssumption
    DEF IInv
<1>3. Inv => NoEmptyGame
    <2> SUFFICES ASSUME Inv, NEW g \in Games, lobby[g].state = "listed"
                 PROVE  lobby[g].num > 0
        BY DEF NoEmptyGame
    <2>1. Members(g) # {}
        BY DEF Occupied, On
    <2>2. lobby[g].num = Cardinality(Members(g))
        BY DEF IInv, PlacesInv, NumsAgree, LobbyIds
    <2>. QED BY <2>1, <2>2, MembersFinite, FS_EmptySet
<1>. HIDE DEF Inv
<1>. QED BY <1>1, <1>2, <1>3, PTL DEF Spec

-----------------------------------------------------------------------------
(* Bursts.  A client that leaves takes its burst with it, and one that     *)
(* comes in finds a game where nobody bursts.                              *)

BurstsIn(c, g) == client[c].lobby = g /\ client[c].bursting

BurstsInv ==
    /\ \A g \in Games :
         lobby[g].bursting <=> \E c \in Clients : BurstsIn(c, g)
    /\ \A g \in Games : \A c, d \in Clients :
         BurstsIn(c, g) /\ BurstsIn(d, g) => c = d
    /\ \A c \in Clients : client[c].waitq /\ InGame(c) => client[c].bursting

\* The burst of a lobby is not touched by an election or a removal.
LEMMA RemoveBurst ==
    ASSUME NEW L \in LobbyRec, NEW c \in Clients, NEW i \in Slots
    PROVE  RemoveClient(L, c, i).bursting = L.bursting
<1>. DEFINE E == IF i = L.leader THEN Elect(L) ELSE L
            s == [E.slot EXCEPT ![i] = None]
<1>1. Elect(L) \in LobbyRec /\ Elect(L).bursting = L.bursting
    <2>1. \E x, b, v : \/ Elect(L) = [L EXCEPT !.leader = x]
                       \/ Elect(L) = [L EXCEPT !.leader = x, !.gcOK = b, !.ver = v]
        BY DEF Elect
    <2>. QED BY <2>1, ElectType DEF LobbyRec
<1>2. E \in LobbyRec /\ E.bursting = L.bursting
    BY <1>1
<1>3. RemoveClient(L, c, i) =
        IF L.slot[i] # c THEN L
        ELSE [E EXCEPT !.slot[i] = None, !.num = @ - 1]
    BY DEF RemoveClient
<1>. HIDE DEF E
<1>4. [E EXCEPT !.slot[i] = None, !.num = @ - 1] =
        [E EXCEPT !.slot = s, !.num = E.num - 1]
    BY <1>2 DEF LobbyRec
<1>. HIDE DEF s
<1>5. [E EXCEPT !.slot = s, !.num = E.num - 1].bursting = L.bursting
    BY <1>2 DEF LobbyRec
<1>. QED BY <1>3, <1>4, <1>5

LEMMA VacatedBurst ==
    ASSUME TypeOK, PlacesInv, NEW lb \in [LobbyIds -> LobbyRec], Alike(lb),
           NEW c \in Clients, client[c].lobby # None
    PROVE  Vacated(lb, c).bursting =
             IF client[c].lobby \in Games /\ Members(client[c].lobby) = {c}
               THEN FALSE ELSE lb[client[c].lobby].bursting
<1>1. client[c].lobby \in LobbyIds /\ client[c].id \in Slots
    BY DEF TypeOK, ClientRec
<1>2. Freed.bursting = FALSE
    BY DEF Freed, Empty
<1>. QED BY <1>1, <1>2, RemoveBurst, EmptiesAlone DEF Vacated

LEMMA SeatedBurst ==
    ASSUME NEW lb \in [LobbyIds -> LobbyRec], NEW c \in Clients,
           NEW g \in Games, NEW i \in Slots
    PROVE  Seated(lb, c, g, i).bursting = TRUE
<1>1. g \in LobbyIds
    BY DEF LobbyIds
<1>2. AddClient(lb[g], c, i) \in LobbyRec
    BY <1>1, AddClientType
<1>. HIDE DEF AddClient
<1>. QED BY <1>2 DEF Seated, LobbyRec

LEMMA PlacedBurst ==
    ASSUME NEW C \in ClientRec, NEW r \in LobbyIds, NEW i \in Slots
    PROVE  /\ Placed(C, r, i).lobby = r
           /\ Placed(C, r, i).waitq = C.waitq
           /\ r \in Games => Placed(C, r, i).bursting = TRUE
BY DEF Placed, ClientRec

\* Who is in which game, and who of them bursts, stays the same.
LEMMA SameBursts ==
    ASSUME BurstsInv,
           \A g \in Games : lobby'[g].bursting = lobby[g].bursting,
           \A d \in Clients :
             \/ client'[d].lobby \notin Games /\ client[d].lobby \notin Games
             \/ /\ client'[d].lobby = client[d].lobby
                /\ client'[d].bursting = client[d].bursting
                /\ client'[d].waitq => client[d].waitq \/ client[d].bursting
    PROVE  BurstsInv'
<1>1. \A d \in Clients, g \in Games :
         (client'[d].lobby = g /\ client'[d].bursting) <=> BurstsIn(d, g)
    BY DEF BurstsIn
<1>. QED BY <1>1 DEF BurstsInv, BurstsIn, InGame

\* c has gone to game g, where nobody bursts, or bursts there now.
LEMMA BurstBegins ==
    ASSUME BurstsInv, NEW c \in Clients, NEW g \in Games,
           ~lobby[g].bursting, lobby'[g].bursting,
           client[c].lobby \notin Games \ {g},
           \A h \in Games \ {g} : lobby'[h].bursting = lobby[h].bursting,
           client'[c].lobby = g, client'[c].bursting,
           \A d \in Clients \ {c} : client'[d] = client[d]
    PROVE  BurstsInv'
<1>1. \A d \in Clients, h \in Games :
         (client'[d].lobby = h /\ client'[d].bursting) <=>
            IF h = g THEN d = c ELSE BurstsIn(d, h)
    BY DEF BurstsIn, BurstsInv
<1>2. \A d \in Clients : client'[d].waitq /\ client'[d].lobby \in Games =>
         client'[d].bursting
    BY DEF BurstsInv, InGame
<1>. QED BY <1>1, <1>2 DEF BurstsInv, BurstsIn, InGame

\* The burst of c, or of nobody, in the lobby c was in is over.
LEMMA BurstOver ==
    ASSUME BurstsInv, NEW c \in Clients,
           \A g \in Games : lobby'[g].bursting =
              (lobby[g].bursting /\ ~BurstsIn(c, g)),
           \/ client'[c].lobby \notin Games
           \/ /\ client'[c].lobby = client[c].lobby
              /\ ~client'[c].bursting
              /\ ~client'[c].waitq,
           \A d \in Clients \ {c} : client'[d] = client[d]
    PROVE  BurstsInv'
<1>1. \A d \in Clients, h \in Games :
         (client'[d].lobby = h /\ client'[d].bursting) <=>
            d # c /\ BurstsIn(d, h)
    BY DEF BurstsIn
<1>2. \A d \in Clients : client'[d].waitq /\ client'[d].lobby \in Games =>
         client'[d].bursting
    BY DEF BurstsInv, InGame
<1>3. \A g \in Games : lobby'[g].bursting <=>
         \E d \in Clients \ {c} : BurstsIn(d, g)
    BY DEF BurstsInv
<1>. QED BY <1>1, <1>2, <1>3 DEF BurstsInv, BurstsIn, InGame

LEMMA MoveBursts ==
    ASSUME TypeOK, PlacesInv, BurstsInv, NEW lb \in [LobbyIds -> LobbyRec], Alike(lb),
           \A h \in Games : lb[h].bursting = lobby[h].bursting,
           NEW n, NEW c \in Clients, NEW C \in ClientRec, NEW r \in LobbyIds,
           client[c].lobby \in DefaultLobbies \ {r},
           r \in Games => ~lobby[r].bursting,
           Move(lb, n, c, C, r)
    PROVE  BurstsInv'
<1>. DEFINE l == client[c].lobby
<1>1. l \in LobbyIds /\ l \notin Games /\ l # r
    BY ConstantsAssumption DEF LobbyIds
<1>2. PICK i \in Slots :
         /\ lobby' = [lb EXCEPT ![r] = Seated(lb, c, r, i), ![l] = Vacated(lb, c)]
         /\ client' = [client EXCEPT ![c] = Placed(C, r, i)]
    BY DEF Move
<1>3. client'[c] = Placed(C, r, i) /\ \A d \in Clients \ {c} : client'[d] = client[d]
    BY <1>2 DEF TypeOK
<1>4. /\ lobby'[r] = Seated(lb, c, r, i)
      /\ \A k \in Games \ {r} : lobby'[k] = lb[k]
    BY <1>1, <1>2 DEF LobbyIds
<1>p. /\ Placed(C, r, i).lobby = r
      /\ r \in Games => Placed(C, r, i).bursting = TRUE
    BY PlacedBurst
<1>5. CASE r \in Games
    <2>1. lobby'[r].bursting
        BY <1>4, <1>5, SeatedBurst
    <2>2. client'[c].lobby = r /\ client'[c].bursting
        BY <1>3, <1>5, <1>p
    <2>3. \A h \in Games \ {r} : lobby'[h].bursting = lobby[h].bursting
        BY <1>4
    <2>. QED BY <1>1, <1>3, <1>5, <2>1, <2>2, <2>3, BurstBegins
<1>6. CASE r \notin Games
    <2>1. \A h \in Games : lobby'[h].bursting = lobby[h].bursting
        BY <1>4, <1>6
    <2>2. client'[c].lobby = r
        BY <1>3, <1>p
    <2>. QED BY <1>1, <1>3, <1>6, <2>1, <2>2, SameBursts
<1>. QED BY <1>5, <1>6

\* lobby_remove_player, to no lobby.
LEMMA RemovePlayerBursts ==
    ASSUME TypeOK, PlacesInv, BurstsInv, NEW c \in Clients,
           client[c].lobby # None, RemovePlayer(c),
           client'[c].lobby = None,
           \A d \in Clients \ {c} : client'[d] = client[d]
    PROVE  BurstsInv'
<1>. DEFINE l  == client[c].lobby
            lb == IF client[c].bursting
                    THEN [lobby EXCEPT ![l] = EndBurst(lobby[l])]
                    ELSE lobby
<1>1. /\ l \in LobbyIds /\ lobby \in [LobbyIds -> LobbyRec]
      /\ lobby[l] \in LobbyRec /\ None \notin Games
    BY ConstantsAssumption DEF TypeOK, ClientRec, LobbyIds
<1>2. lobby' = [lb EXCEPT ![l] = Vacated(lb, c)]
    BY DEF RemovePlayer
<1>3. EndBurst(lobby[l]).bursting = FALSE
    BY <1>1 DEF EndBurst, LobbyRec
<1>4. /\ lb \in [LobbyIds -> LobbyRec]
      /\ \A k \in LobbyIds : SamePlace(lobby[k], lb[k])
      /\ lb[l].bursting = (IF client[c].bursting THEN FALSE ELSE lobby[l].bursting)
      /\ \A k \in LobbyIds \ {l} : lb[k] = lobby[k]
    BY <1>1, <1>3, EndBurstType DEF SamePlace
<1>. HIDE DEF lb
<1>5. Alike(lb)
    BY <1>4, AlikeSelf DEF Alike, SamePlace, LobbyIds
<1>6. lobby'[l] = Vacated(lb, c) /\ \A k \in LobbyIds \ {l} : lobby'[k] = lobby[k]
    BY <1>1, <1>2, <1>4
<1>7. Vacated(lb, c).bursting =
         IF l \in Games /\ Members(l) = {c} THEN FALSE ELSE lb[l].bursting
    BY <1>4, <1>5, VacatedBurst
<1>8. lobby \in [LobbyIds -> LobbyRec] /\ \A k \in LobbyIds : lobby[k].bursting \in BOOLEAN
    BY <1>1 DEF LobbyRec
<1>9. ASSUME NEW g \in Games
      PROVE  lobby'[g].bursting = (lobby[g].bursting /\ ~BurstsIn(c, g))
    <2>1. CASE g # l
        BY <1>6, <1>8, <2>1 DEF BurstsIn, LobbyIds
    <2>2. CASE g = l /\ Members(l) = {c}
        <3>1. lobby[g].bursting => BurstsIn(c, g)
            BY <2>2 DEF BurstsInv, BurstsIn, Members
        <3>. QED BY <1>6, <1>7, <2>2, <3>1
    <2>3. CASE g = l /\ Members(l) # {c}
        BY <1>4, <1>6, <1>7, <1>8, <2>3 DEF BurstsIn, LobbyIds
    <2>. QED BY <2>1, <2>2, <2>3
<1>. QED BY <1>1, <1>9, BurstOver

\* A client in a default lobby joins the empty game it has made, or does not.
LEMMA JoinNewBursts ==
    ASSUME TypeOK, PlacesInv, BurstsInv, NEW lb \in [LobbyIds -> LobbyRec], Alike(lb),
           \A h \in Games : lb[h].bursting = lobby[h].bursting,
           NEW n, NEW c \in Clients, client[c].lobby \in DefaultLobbies,
           NEW g \in Games, Members(g) = {},
           NEW ok \in ClientRec, NEW failed \in ClientRec,
           ok.lobby = client[c].lobby, failed.lobby = client[c].lobby,
           JoinNew(lb, n, c, g, ok, failed)
    PROVE  BurstsInv'
<1>1. /\ g \in LobbyIds
      /\ client[c].lobby \in DefaultLobbies \ {g}
      /\ client[c].lobby # None /\ client[c].lobby \notin Games
    BY ConstantsAssumption DEF LobbyIds
<1>2. ~lobby[g].bursting /\ lobby[g].bursting \in BOOLEAN
    <2>1. lobby[g] \in LobbyRec
        BY <1>1 DEF TypeOK
    <2>. QED BY <2>1 DEF BurstsInv, BurstsIn, Members, LobbyRec
<1>3. CASE Move(lb, n, c, ok, g)
    BY <1>1, <1>2, <1>3, MoveBursts
<1>4. ASSUME NEW D \in {ok, failed}, client' = [client EXCEPT ![c] = D],
             \A h \in Games : lobby'[h].bursting = lobby[h].bursting
      PROVE  BurstsInv'
    <2>1. client'[c] = D /\ \A d \in Clients \ {c} : client'[d] = client[d]
        BY <1>4 DEF TypeOK
    <2>2. client'[c].lobby \notin Games
        BY <1>1, <2>1
    <2>. QED BY <1>1, <1>4, <2>1, <2>2, SameBursts
<1>5. CASE lobby' = lb /\ client' = [client EXCEPT ![c] = ok]
    BY <1>4, <1>5
<1>6. CASE lobby' = [lb EXCEPT ![g] = Freed] /\ client' = [client EXCEPT ![c] = failed]
    <2>1. lobby'[g] = Freed /\ \A h \in Games \ {g} : lobby'[h] = lb[h]
        BY <1>1, <1>6 DEF LobbyIds
    <2>2. Freed.bursting = FALSE
        BY DEF Freed, Empty
    <2>. QED BY <1>2, <1>4, <1>6, <2>1, <2>2
<1>. QED BY <1>1, <1>3, <1>5, <1>6 DEF JoinNew

LEMMA MovesBurst ==
    ASSUME Disciplined, TypeOK, PlacesInv, BurstsInv, NEW c \in Clients, Moves(c)
    PROVE  BurstsInv'
<1>a. /\ Alike(lobby)
      /\ client[c] \in ClientRec /\ lobby \in [LobbyIds -> LobbyRec]
      /\ Games \subseteq LobbyIds
    BY AlikeSelf DEF TypeOK, LobbyIds
<1>b. ASSUME NEW r \in LobbyIds, client[c].lobby \in DefaultLobbies \ {r},
             Admits(lobby[r]), Move(lobby, numGames, c, client[c], r)
      PROVE  BurstsInv'
    BY <1>a, <1>b, MoveBursts DEF Admits
<1>1. CASE EnterLobby(c)
    <2>1. client[c].lobby = None
        BY <1>1 DEF EnterLobby
    <2>2. PICK r \in DefaultLobbies, i \in Slots :
             /\ lobby' = [lobby EXCEPT ![r] = Seated(lobby, c, r, i)]
             /\ client' = [client EXCEPT ![c] = Placed(client[c], r, i)]
        BY <1>1 DEF EnterLobby, AddToAny
    <2>3. r \in LobbyIds /\ r \notin Games /\ None \notin Games
        BY ConstantsAssumption DEF LobbyIds
    <2>4. /\ client'[c] = Placed(client[c], r, i)
          /\ \A d \in Clients \ {c} : client'[d] = client[d]
        BY <2>2 DEF TypeOK
    <2>5. Placed(client[c], r, i).lobby = r
        BY <1>a, <2>3, PlacedBurst
    <2>6. client'[c].lobby \notin Games
        BY <2>3, <2>4, <2>5
    <2>7. \A h \in Games : lobby'[h].bursting = lobby[h].bursting
        BY <1>a, <2>2, <2>3
    <2>. QED BY <2>1, <2>3, <2>4, <2>6, <2>7, SameBursts
<1>2. CASE LeaveGame(c)
    <2>. DEFINE C == [client[c] EXCEPT !.lobby = None, !.id = 0, !.held = FALSE,
                                       !.browsing = FALSE]
    <2>1. /\ client[c].lobby # None
          /\ RemovePlayer(c)
          /\ client' = [client EXCEPT ![c] = C]
        BY <1>2 DEF LeaveGame
    <2>2. C.lobby = None
        BY <1>a DEF ClientRec
    <2>. HIDE DEF C
    <2>3. client'[c] = C /\ \A d \in Clients \ {c} : client'[d] = client[d]
        BY <2>1 DEF TypeOK
    <2>. QED BY <2>1, <2>2, <2>3, RemovePlayerBursts
<1>3. ASSUME NEW r \in LobbyIds, ChangeLobby(c, r) PROVE BurstsInv'
    BY <1>b, <1>3 DEF ChangeLobby, Idle
<1>4. ASSUME NEW g \in Games, SelectGame(c, g) PROVE BurstsInv'
    BY <1>a, <1>b, <1>4 DEF SelectGame, Idle
<1>5. CASE RejoinGame(c)
    <2>. DEFINE g == client[c].lobby
                L == [lobby[g] EXCEPT !.bursting = TRUE]
                C == [client[c] EXCEPT !.bursting = TRUE]
    <2>1. /\ g \in Games /\ ~lobby[g].bursting
          /\ lobby' = [lobby EXCEPT ![g] = L]
          /\ client' = [client EXCEPT ![c] = C]
        BY <1>5 DEF RejoinGame, Rejoin, Admits, InGame
    <2>2. L.bursting /\ C.bursting /\ C.lobby = g
        BY <1>a, <2>1 DEF LobbyRec, ClientRec
    <2>. HIDE DEF L, C
    <2>3. client'[c] = C /\ \A d \in Clients \ {c} : client'[d] = client[d]
        BY <2>1 DEF TypeOK
    <2>4. lobby'[g] = L /\ \A h \in Games \ {g} : lobby'[h] = lobby[h]
        BY <1>a, <2>1
    <2>. HIDE DEF g
    <2>. QED BY <2>1, <2>2, <2>3, <2>4, BurstBegins DEF g
<1>. QED BY <1>1, <1>2, <1>3, <1>4, <1>5 DEF Moves

LEMMA CreatesBurst ==
    ASSUME Disciplined, OpenMenus, IInv, MenusAtHome, BurstsInv, NEW c \in Clients, Creates(c)
    PROVE  BurstsInv'
<1>. DEFINE g == client[c].create
            D == [client[c] EXCEPT !.create = None, !.menu = FALSE]
            F == [client[c] EXCEPT !.menu = FALSE]
<1>a. TypeOK /\ PlacesInv /\ MenusOwnGames
    BY DEF IInv
<1>b. /\ lobby \in [LobbyIds -> LobbyRec]
      /\ client \in [Clients -> ClientRec]
      /\ client[c] \in ClientRec
      /\ Games \subseteq LobbyIds /\ DefaultLobbies \cap Games = {}
    BY <1>a, ConstantsAssumption DEF TypeOK, LobbyIds
<1>c. client[c].menu =>
        g \in Games /\ Members(g) = {} /\ client[c].lobby \in DefaultLobbies
    BY <1>a DEF MenusOwnGames, MenusAtHome
<1>d. /\ D \in ClientRec /\ F \in ClientRec
      /\ D.lobby = client[c].lobby /\ F.lobby = client[c].lobby
    <2>1. D \in ClientRec /\ F \in ClientRec
        BY <1>b, ClientFlagsType
    <2>2. D.lobby = client[c].lobby /\ F.lobby = client[c].lobby
        BY <1>b DEF ClientRec
    <2>. QED BY <2>1, <2>2
<1>e. \A h \in Games : Members(h) = {} => lobby[h].bursting = FALSE
    <2>1. \A h \in Games : lobby[h].bursting \in BOOLEAN
        BY <1>b DEF LobbyRec
    <2>. QED BY <2>1 DEF BurstsInv, BurstsIn, Members
<1>f. Alike(lobby)
    BY <1>a, AlikeSelf
<1>g. \A st : NewGame(c, st).bursting = FALSE
    BY DEF NewGame, Empty
\* c's record changes, but not in where c is, and c is in no game.
<1>h. ASSUME NEW C, client' = [client EXCEPT ![c] = C], C.lobby = client[c].lobby,
             client[c].lobby \in DefaultLobbies,
             \A h \in Games : lobby'[h].bursting = lobby[h].bursting
      PROVE  BurstsInv'
    <2>1. client'[c] = C /\ \A d \in Clients \ {c} : client'[d] = client[d]
        BY <1>b, <1>h
    <2>. QED BY <1>b, <1>h, <2>1, SameBursts
<1>. HIDE DEF D, F
<1>1. ASSUME NEW h \in Games, CreateGame(c, h) PROVE BurstsInv'
    <2>. DEFINE lb == [lobby EXCEPT ![h] = NewGame(c, "listed")]
                C  == client[c]
    <2>1. /\ lobby[h].state = "free"
          /\ client[c].lobby \in DefaultLobbies
          /\ JoinNew(lb, numGames + 1, c, h, C, C)
        BY <1>1 DEF CreateGame, MayCreate, Idle
    <2>2. Members(h) = {} /\ lb \in [LobbyIds -> LobbyRec] /\ Alike(lb)
        BY <1>a, <2>1, AlikeNew
    <2>3. \A k \in Games : lb[k].bursting = lobby[k].bursting
        BY <1>b, <1>e, <1>g, <2>2
    <2>. HIDE DEF lb
    <2>4. C \in ClientRec /\ C.lobby = client[c].lobby
        BY <1>b
    <2>. HIDE DEF C
    <2>. QED BY <1>a, <2>1, <2>2, <2>3, <2>4, JoinNewBursts
<1>2. ASSUME NEW h \in Games, CreatePending(c, h) PROVE BurstsInv'
    <2>. DEFINE C  == [client[c] EXCEPT !.create = h, !.menu = TRUE]
                st == IF Version[c] = "bb" THEN "listed" ELSE "pending"
    <2>1. /\ lobby[h].state = "free"
          /\ client[c].lobby \in DefaultLobbies
          /\ client' = [client EXCEPT ![c] = C]
          /\ lobby' = [lobby EXCEPT ![h] = NewGame(c, st)]
        BY <1>2 DEF CreatePending, MayCreate, Idle
    <2>2. C.lobby = client[c].lobby
        BY <1>b DEF ClientRec
    <2>. HIDE DEF C, st
    <2>3. Members(h) = {}
        BY <1>a, <2>1 DEF PlacesInv, GamesHeld, InGame, Members
    <2>4. \A k \in Games : lobby'[k].bursting = lobby[k].bursting
        BY <1>b, <1>e, <1>g, <2>1, <2>3
    <2>. QED BY <1>h, <2>1, <2>2, <2>4
<1>3. CASE ChooseType(c)
    <2>. DEFINE L  == [lobby[g] EXCEPT !.state = "listed"]
                lb == [lobby EXCEPT ![g] = L]
    <2>1. client[c].menu /\ JoinNew(lb, numGames + 1, c, g, D, D)
        BY <1>3 DEF ChooseType, D
    <2>2. g \in Games /\ g \in LobbyIds /\ lobby[g] \in LobbyRec
        BY <1>b, <1>c, <2>1
    <2>3. L \in LobbyRec /\ L.slot = lobby[g].slot /\ L.num = lobby[g].num
          /\ L.state = "listed"
        BY <2>2, FlagsType, FlagsSame
    <2>4. L.bursting = lobby[g].bursting
        BY <2>2 DEF LobbyRec
    <2>. HIDE DEF L
    <2>5. lb \in [LobbyIds -> LobbyRec]
        BY <1>b, <2>3
    <2>6. lb[g] = L /\ \A k \in LobbyIds \ {g} : lb[k] = lobby[k]
        BY <1>b, <2>2
    <2>7. Alike(lb)
        BY <1>b, <1>f, <2>3, <2>6 DEF Alike
    <2>8. \A k \in Games : lb[k].bursting = lobby[k].bursting
        BY <1>b, <2>4, <2>6
    <2>. HIDE DEF g, lb
    <2>. QED BY <1>a, <1>c, <1>d, <2>1, <2>2, <2>5, <2>7, <2>8, JoinNewBursts
<1>4. CASE ChooseVersion(c)
    <2>1. client' = client
        BY <1>4 DEF ChooseVersion, Answers
    <2>2. \/ lobby' = [lobby EXCEPT ![g] = [lobby[g] EXCEPT !.gcOK = TRUE]]
          \/ \E v \in {"v2", "bb"} :
               lobby' = [lobby EXCEPT ![g] = [lobby[g] EXCEPT !.ver = v]]
        BY <1>4 DEF ChooseVersion, Answers
    <2>3. g \in Games /\ lobby[g] \in LobbyRec
        BY <1>4, <1>b, <1>c DEF ChooseVersion, Answers
    <2>4. /\ [lobby[g] EXCEPT !.gcOK = TRUE].bursting = lobby[g].bursting
          /\ \A v : [lobby[g] EXCEPT !.ver = v].bursting = lobby[g].bursting
        BY <2>3 DEF LobbyRec
    <2>5. \E L : lobby' = [lobby EXCEPT ![g] = L] /\ L.bursting = lobby[g].bursting
        BY <2>2, <2>4
    <2>6. \A h \in Games : lobby'[h].bursting = lobby[h].bursting
        BY <1>b, <2>3, <2>5
    <2>. QED BY <2>1, <2>6, SameBursts
<1>5. CASE ChooseDrop(c)
    <2>1. client[c].menu /\ JoinNew(lobby, numGames, c, g, D, F)
        BY <1>a, <1>5, DropJoins DEF D, F, IInv
    <2>. HIDE DEF g
    <2>. QED BY <1>a, <1>b, <1>c, <1>d, <1>f, <2>1, JoinNewBursts
<1>6. CASE CancelCreate(c)
    <2>1. /\ client[c].menu
          /\ client' = [client EXCEPT ![c] = F]
          /\ lobby' = [lobby EXCEPT ![g] = Freed]
        BY <1>6 DEF CancelCreate, Answers, F
    <2>2. Freed.bursting = FALSE
        BY DEF Freed, Empty
    <2>3. \A h \in Games : lobby'[h].bursting = lobby[h].bursting
        BY <1>b, <1>c, <1>e, <2>1, <2>2
    <2>. QED BY <1>c, <1>d, <1>h, <2>1, <2>3
<1>. QED BY <1>1, <1>2, <1>3, <1>4, <1>5, <1>6 DEF Creates

LEMMA PlaysBurst ==
    ASSUME Disciplined, TypeOK, BurstsInv, NEW c \in Clients, Plays(c)
    PROVE  BurstsInv'
<1>. DEFINE l == client[c].lobby
<1>a. /\ lobby \in [LobbyIds -> LobbyRec]
      /\ client \in [Clients -> ClientRec]
      /\ client[c] \in ClientRec
      /\ Games \subseteq LobbyIds /\ DefaultLobbies \cap Games = {} /\ None \notin Games
    BY ConstantsAssumption DEF TypeOK, LobbyIds
<1>b. \A d \in Clients : client'[d].lobby = client[d].lobby
    BY PlaysFlags
<1>c. \A h \in Games : lobby[h] \in LobbyRec /\ lobby[h].bursting \in BOOLEAN
    BY <1>a DEF LobbyRec
<1>d. ASSUME \E L : lobby' = [lobby EXCEPT ![l] = L] /\ L.bursting = lobby[l].bursting
      PROVE  \A h \in Games : lobby'[h].bursting = lobby[h].bursting
    BY <1>a, <1>d
\* The burst of l is over, and c's.
<1>e. ASSUME NEW C, client' = [client EXCEPT ![c] = C],
             C.lobby = l, ~C.bursting, ~C.waitq,
             l \in Games => client[c].bursting,
             lobby' = [lobby EXCEPT ![l] = EndBurst(lobby[l])]
      PROVE  BurstsInv'
    <2>1. client'[c] = C /\ \A d \in Clients \ {c} : client'[d] = client[d]
        BY <1>a, <1>e
    <2>2. l \in Games => EndBurst(lobby[l]).bursting = FALSE
        BY <1>c DEF EndBurst, LobbyRec
    <2>3. ASSUME NEW g \in Games
          PROVE  lobby'[g].bursting = (lobby[g].bursting /\ ~BurstsIn(c, g))
        <3>1. CASE g = l
            BY <1>a, <1>e, <2>2, <3>1 DEF BurstsIn
        <3>2. CASE g # l
            BY <1>a, <1>c, <1>e, <3>2 DEF BurstsIn
        <3>. QED BY <3>1, <3>2
    <2>. QED BY <1>e, <2>1, <2>3, BurstOver
<1>1. CASE Subcmd(c)
    <2>1. /\ l \in Games
          /\ lobby' = [lobby EXCEPT ![l] = Enqueue(lobby[l], c)]
          /\ client' = client
        BY <1>1 DEF Subcmd, InGame
    <2>2. Enqueue(lobby[l], c).bursting = lobby[l].bursting
        BY <1>c, <2>1 DEF Enqueue, LobbyRec
    <2>. QED BY <1>d, <2>1, <2>2, SameBursts
<1>2. CASE DoneBurst(c)
    <2>1. l \in Games /\ client[c].bursting /\ ~client[c].waitq
        BY <1>2 DEF DoneBurst, InGame
    <2>2. CASE lobby[l].questing
        <3>. DEFINE C == [client[c] EXCEPT !.waitq = TRUE, !.qloaded = FALSE]
        <3>1. client' = [client EXCEPT ![c] = C] /\ lobby' = lobby
            BY <1>2, <2>2 DEF DoneBurst
        <3>2. C.lobby = l /\ C.bursting = client[c].bursting
            BY <1>a DEF ClientRec
        <3>. HIDE DEF C
        <3>3. client'[c] = C /\ \A d \in Clients \ {c} : client'[d] = client[d]
            BY <1>a, <3>1
        <3>. QED BY <2>1, <3>1, <3>2, <3>3, SameBursts
    <2>3. CASE ~lobby[l].questing
        <3>. DEFINE C == [client[c] EXCEPT !.bursting = FALSE]
        <3>1. /\ client' = [client EXCEPT ![c] = C]
              /\ lobby' = [lobby EXCEPT ![l] = EndBurst(lobby[l])]
            BY <1>2, <2>3 DEF DoneBurst
        <3>2. C.lobby = l /\ ~C.bursting /\ C.waitq = client[c].waitq
            BY <1>a DEF ClientRec
        <3>. HIDE DEF C
        <3>. QED BY <1>e, <2>1, <3>1, <3>2
    <2>. QED BY <2>2, <2>3
<1>3. CASE Ping(c)
    <2>. DEFINE C == [client[c] EXCEPT !.bursting = FALSE, !.waitq = FALSE]
    <2>1. /\ client[c].waitq
          /\ client' = [client EXCEPT ![c] = C]
          /\ lobby' = [lobby EXCEPT ![l] = EndBurst(lobby[l])]
        BY <1>3 DEF Ping
    <2>2. C.lobby = l /\ ~C.bursting /\ ~C.waitq
        BY <1>a DEF ClientRec
    <2>3. l \in Games => client[c].bursting
        BY <2>1 DEF BurstsInv, InGame
    <2>. HIDE DEF C
    <2>. QED BY <1>e, <2>1, <2>2, <2>3
<1>4. CASE QuestList(c) \/ QuestListEnd(c)
    <2>1. PICK b \in BOOLEAN :
             /\ lobby' = [lobby EXCEPT ![l] = [lobby[l] EXCEPT !.questsel = b]]
             /\ client' = [client EXCEPT ![c] = [client[c] EXCEPT !.browsing = b]]
             /\ l \in Games
        BY <1>4 DEF QuestList, QuestListEnd, InGame
    <2>2. [lobby[l] EXCEPT !.questsel = b].bursting = lobby[l].bursting
        BY <1>c, <2>1 DEF LobbyRec
    <2>3. /\ [client[c] EXCEPT !.browsing = b].bursting = client[c].bursting
          /\ [client[c] EXCEPT !.browsing = b].waitq = client[c].waitq
        BY <1>a DEF ClientRec
    <2>4. \A d \in Clients : client'[d].bursting = client[d].bursting
                             /\ client'[d].waitq = client[d].waitq
        BY <1>a, <2>1, <2>3
    <2>5. \A h \in Games : lobby'[h].bursting = lobby[h].bursting
        BY <1>d, <2>1, <2>2
    <2>. QED BY <1>b, <2>4, <2>5, SameBursts
<1>5. CASE SetupQuest(c)
    <2>1. ASSUME NEW d \in Clients
          PROVE  client'[d].bursting = client[d].bursting
                 /\ client'[d].waitq = client[d].waitq
        <3>1. \/ client'[d] = client[d]
              \/ client'[d] = [client[d] EXCEPT !.qloaded = FALSE, !.held = FALSE,
                                                 !.browsing = FALSE]
              \/ d = c /\ client'[d] = [client[d] EXCEPT !.browsing = FALSE]
            BY <1>a, <1>5 DEF SetupQuest
        <3>2. client[d] \in ClientRec
            BY <1>a
        <3>. QED BY <3>1, <3>2 DEF ClientRec
    <2>2. l \in Games
        BY <1>5 DEF SetupQuest, InGame
    <2>3. \A h \in Games : lobby'[h].bursting = lobby[h].bursting
        <3>1. \/ lobby' = [lobby EXCEPT ![l] = [lobby[l] EXCEPT !.questsel = FALSE]]
              \/ \E j : lobby' = [lobby EXCEPT ![l] =
                           [lobby[l] EXCEPT !.questing = TRUE, !.questsel = FALSE,
                                            !.joinable = j]]
            BY <1>a, <1>5, <2>2 DEF SetupQuest
        <3>2. /\ [lobby[l] EXCEPT !.questsel = FALSE].bursting = lobby[l].bursting
              /\ \A j : [lobby[l] EXCEPT !.questing = TRUE, !.questsel = FALSE,
                                         !.joinable = j].bursting = lobby[l].bursting
            BY <1>c, <2>2 DEF LobbyRec
        <3>. QED BY <1>d, <3>1, <3>2
    <2>. QED BY <1>b, <2>1, <2>3, SameBursts
<1>6. CASE QloadDone(c)
    <2>1. \A d \in Clients : client'[d].bursting = client[d].bursting
                             /\ client'[d].waitq = client[d].waitq
        BY <1>a, <1>6 DEF QloadDone, ClientRec
    <2>2. lobby' = lobby
        BY <1>6 DEF QloadDone
    <2>. QED BY <1>b, <2>1, <2>2, SameBursts
<1>7. CASE AllowGC(c)
    <2>1. PICK b \in BOOLEAN :
             /\ lobby' = [lobby EXCEPT ![l] = [lobby[l] EXCEPT !.gcOK = b]]
             /\ client' = client
             /\ l \in Games
        BY <1>7 DEF AllowGC, InGame
    <2>2. [lobby[l] EXCEPT !.gcOK = b].bursting = lobby[l].bursting
        BY <1>c, <2>1 DEF LobbyRec
    <2>. QED BY <1>d, <2>1, <2>2, SameBursts
<1>. QED BY <1>1, <1>2, <1>3, <1>4, <1>5, <1>6, <1>7 DEF Plays

LEMMA BurstsStep ==
    ASSUME Disciplined, OpenMenus, IInv, MenusAtHome, BurstsInv, [Next]_vars
    PROVE  BurstsInv'
<1>a. TypeOK /\ PlacesInv
    BY DEF IInv
<1>1. CASE Tick \/ UNCHANGED vars
    BY <1>1, SameBursts DEF Tick, vars
<1>2. ASSUME NEW c \in Clients, Connect(c) PROVE BurstsInv'
    <2>1. /\ ~client[c].up /\ lobby' = lobby
          /\ client' = [client EXCEPT ![c] = Fresh(TRUE)]
        BY <1>2 DEF Connect
    <2>2. client[c].lobby = None /\ Fresh(TRUE).lobby = None /\ None \notin Games
        BY <1>a, <2>1, ConstantsAssumption DEF PlacesInv, SlotsAgree, Fresh, LobbyIds
    <2>3. client'[c] = Fresh(TRUE) /\ \A d \in Clients \ {c} : client'[d] = client[d]
        BY <1>a, <2>1 DEF TypeOK
    <2>. QED BY <2>1, <2>2, <2>3, SameBursts
<1>3. ASSUME NEW c \in Clients, Drop(c) PROVE BurstsInv'
    <2>1. client' = [client EXCEPT ![c] = Fresh(FALSE)]
        BY <1>3 DEF Drop
    <2>2. Fresh(FALSE).lobby = None /\ None \notin Games
        BY ConstantsAssumption DEF Fresh, LobbyIds
    <2>3. client'[c] = Fresh(FALSE) /\ \A d \in Clients \ {c} : client'[d] = client[d]
        BY <1>a, <2>1 DEF TypeOK
    <2>4. CASE client[c].lobby = None
        <3>1. lobby' = lobby
            BY <1>3, <2>4 DEF Drop
        <3>. QED BY <2>2, <2>3, <2>4, <3>1, SameBursts
    <2>5. CASE client[c].lobby # None
        BY <1>3, <1>a, <2>2, <2>3, <2>5, RemovePlayerBursts DEF Drop
    <2>. QED BY <2>4, <2>5
<1>. QED BY <1>a, <1>1, <1>2, <1>3, MovesBurst, CreatesBurst, PlaysBurst DEF Next

\* A game is closed to newcomers by a burst exactly as long as one of its
\* members loads the game, and never two at once, for any clients, lobbies,
\* games and limits, provided that clients send what a game client would and
\* nobody joins a game whose creator is still in the menus: lobby_change_lobby
\* lets nobody in during a burst, and whichever way the client that bursts
\* finishes or goes, its burst ends with it.
THEOREM BurstsCorrect ==
    ASSUME ~JoinPending, Disciplined PROVE Spec => []BurstHasOneBurster
<1>. DEFINE Inv == IInv /\ MenusAtHome /\ BurstsInv
<1>1. Init => Inv
    <2> SUFFICES ASSUME Init PROVE MenusAtHome /\ BurstsInv
        BY InitInv
    <2>1. \A c \in Clients : client[c].lobby = None /\ ~client[c].menu /\ ~client[c].waitq
        BY DEF Init, Fresh
    <2>2. \A g \in Games : lobby[g].bursting = FALSE /\ g # None
        BY ConstantsAssumption DEF Init, Freed, Empty, LobbyIds
    <2>. QED BY <2>1, <2>2 DEF MenusAtHome, BurstsInv, BurstsIn
<1>2. Inv /\ [Next]_vars => Inv'
    BY StepKeeps, MenusStep, BurstsStep, ConstantsAssumption DEF IInv
<1>3. Inv => BurstHasOneBurster
    <2> SUFFICES ASSUME Inv, NEW g \in Games
                 PROVE  LET B == {c \in Members(g) : client[c].bursting}
                        IN  IF lobby[g].bursting THEN Cardinality(B) = 1 ELSE B = {}
        BY DEF BurstHasOneBurster
    <2>. DEFINE B == {c \in Members(g) : client[c].bursting}
    <2>1. B = {c \in Clients : BurstsIn(c, g)}
        BY DEF BurstsIn, Members
    <2>2. CASE lobby[g].bursting
        <3>1. PICK c \in Clients : BurstsIn(c, g)
            BY <2>2 DEF BurstsInv
        <3>2. B = {c}
            BY <2>1, <3>1 DEF BurstsInv
        <3>. QED BY <2>2, <3>2, FS_Singleton
    <2>3. CASE ~lobby[g].bursting
        BY <2>1, <2>3 DEF BurstsInv
    <2>. QED BY <2>2, <2>3
<1>. HIDE DEF Inv
<1>. QED BY <1>1, <1>2, <1>3, PTL DEF Spec

-----------------------------------------------------------------------------
(* Elections.                                                              *)

LEMMA LeastNumber ==
    ASSUME NEW T \in SUBSET Nat, T # {}
    PROVE  \E x \in T : \A y \in T : x <= y
<1>. DEFINE Less == OpToRel(<, Nat)
<1>1. IsWellFoundedOn(Less, Nat)
    BY NatLessThanWellFounded
<1>2. \A x, y \in Nat : y < x => <<y, x>> \in Less
    BY DEF OpToRel
<1>. HIDE DEF Less
<1>3. PICK x \in T : \A y \in T : ~ (<<y, x>> \in Less)
    BY <1>1, WFMin
<1>4. ASSUME NEW y \in T PROVE x <= y
    <2>1. x \in Nat /\ y \in Nat
        OBVIOUS
    <2>2. ~(y < x)
        BY <1>2, <1>3, <2>1
    <2>. QED BY <2>1, <2>2
<1>. QED BY <1>4

\* No client has entered its lobby in the future.
JoinedBefore == \A c \in Clients : client[c].joined <= now

\* Of some members one is the earliest, and the election finds it.
LEMMA WinnerEarliest ==
    ASSUME TypeOK, NEW L \in LobbyRec, NEW S \in SUBSET Slots, S # {},
           \A i \in S : L.slot[i] # None
    PROVE  Winner(L, S) \in S /\ IsEarliest(L, S, Winner(L, S))
<1>. DEFINE when(i) == client[L.slot[i]].joined
            T       == {when(i) : i \in S}
<1>1. \A i \in S : when(i) \in Nat
    <2>1. \A i \in S : L.slot[i] \in Clients
        BY DEF LobbyRec
    <2>. QED BY <2>1 DEF TypeOK, ClientRec
<1>2. T \in SUBSET Nat /\ T # {}
    BY <1>1
<1>3. PICK m \in T : \A x \in T : m <= x
    BY <1>2, LeastNumber
<1>. DEFINE U == {i \in S : when(i) = m}
<1>4. U \in SUBSET Nat /\ U # {}
    BY <1>3, SlotZero
<1>5. PICK i \in U : \A j \in U : i <= j
    BY <1>4, LeastNumber
<1>6. IsEarliest(L, S, i)
    <2>1. ASSUME NEW j \in S \ {i}
          PROVE  when(i) < when(j) \/ (when(i) = when(j) /\ i < j)
        <3>1. when(i) = m /\ m <= when(j) /\ m \in Nat /\ when(j) \in Nat
            BY <1>1, <1>2, <1>3, <1>5
        <3>2. CASE when(j) = m
            <4>1. i <= j /\ i \in Nat /\ j \in Nat /\ i # j
                BY <1>4, <1>5, <3>2
            <4>. QED BY <3>1, <3>2, <4>1
        <3>3. CASE when(j) # m
            BY <3>1, <3>3
        <3>. QED BY <3>2, <3>3
    <2>. QED BY <2>1 DEF IsEarliest
<1>7. i \in S
    BY <1>5
<1>. HIDE DEF U, T, when
<1>. QED BY <1>6, <1>7 DEF Winner

\* The elected leader of L, once the old one is gone.
LEMMA ElectLongest ==
    ASSUME TypeOK, JoinedBefore, NEW L \in LobbyRec,
           Elect(L).leader # L.leader, L.slot[Elect(L).leader] # None,
           NEW j \in Slots \ {L.leader}, L.slot[j] # None
    PROVE  \/ client[L.slot[j]].joined >= client[L.slot[Elect(L).leader]].joined
           \/ /\ Elect(L).gcOK /\ Elect(L).ver = "v2"
              /\ Version[L.slot[j]] # "v2"
<1>. DEFINE cross == L.ver = "v2" /\ L.gcOK
            old   == Candidates(L, {"v2"})
            all   == Candidates(L, Versions)
            i     == Elect(L).leader
            A     == [L EXCEPT !.leader = Winner(L, old)]
            B     == [L EXCEPT !.leader = Winner(L, all),
                               !.gcOK = L.gcOK /\ ~cross,
                               !.ver = IF cross THEN "gc" ELSE L.ver]
<1>1. Elect(L) = IF cross /\ old # {} THEN A ELSE B
    BY DEF Elect
<1>2. /\ A.leader = Winner(L, old) /\ A.gcOK = L.gcOK /\ A.ver = L.ver
      /\ B.leader = Winner(L, all)
    BY DEF LobbyRec
<1>3. /\ L.slot[j] \in Clients
      /\ client[L.slot[j]].joined \in Nat /\ client[L.slot[j]].joined <= now
      /\ now \in Nat
      /\ Version[L.slot[j]] \in Versions
    BY ConstantsAssumption DEF LobbyRec, TypeOK, ClientRec, JoinedBefore
\* Whoever is no candidate came this second, and is not before anyone.
<1>4. ASSUME NEW V, Version[L.slot[j]] \in V, j \notin Candidates(L, V),
             NEW k \in Slots, L.slot[k] # None
      PROVE  client[L.slot[j]].joined >= client[L.slot[k]].joined
    <2>1. ~(client[L.slot[j]].joined < now)
        BY <1>4 DEF Candidates
    <2>2. L.slot[k] \in Clients
        BY <1>4 DEF LobbyRec
    <2>3. client[L.slot[k]].joined \in Nat /\ client[L.slot[k]].joined <= now
        BY <2>2 DEF TypeOK, ClientRec, JoinedBefore
    <2>. QED BY <1>3, <2>1, <2>3
\* ... and no candidate is before the winner.
<1>5. ASSUME NEW V, j \in Candidates(L, V)
      PROVE  LET k == Winner(L, Candidates(L, V))
             IN  client[L.slot[j]].joined >= client[L.slot[k]].joined
    <2>. DEFINE S == Candidates(L, V)
                k == Winner(L, S)
    <2>1. S \in SUBSET Slots /\ S # {} /\ \A x \in S : L.slot[x] # None
        BY <1>5 DEF Candidates
    <2>2. k \in S /\ IsEarliest(L, S, k)
        BY <2>1, WinnerEarliest
    <2>3. \A x \in S : client[L.slot[x]].joined \in Nat
        <3>1. \A x \in S : L.slot[x] \in Clients
            BY <2>1 DEF LobbyRec
        <3>. QED BY <3>1 DEF TypeOK, ClientRec
    <2>4. j \in S
        BY <1>5
    <2>. HIDE DEF S, k
    <2>5. client[L.slot[j]].joined >= client[L.slot[k]].joined
        <3>1. CASE j = k
            BY <1>3, <3>1
        <3>2. CASE j # k
            <4>1. \/ client[L.slot[k]].joined < client[L.slot[j]].joined
                  \/ client[L.slot[k]].joined = client[L.slot[j]].joined
                BY <2>2, <2>4, <3>2 DEF IsEarliest
            <4>. QED BY <1>3, <2>2, <2>3, <4>1
        <3>. QED BY <3>1, <3>2
    <2>. QED BY <2>5 DEF S, k
<1>6. i \in Slots
    <2>1. Elect(L) \in LobbyRec
        BY ElectType
    <2>. QED BY <2>1 DEF LobbyRec
<1>7. CASE cross /\ old # {}
    <2>1. i = Winner(L, old) /\ Elect(L).gcOK /\ Elect(L).ver = "v2"
        BY <1>1, <1>2, <1>7
    <2>2. CASE Version[L.slot[j]] = "v2"
        <3>1. CASE j \in old
            BY <1>5, <2>1, <3>1
        <3>2. CASE j \notin old
            BY <1>4, <1>6, <2>2, <3>2
        <3>. QED BY <3>1, <3>2
    <2>. QED BY <2>1, <2>2
<1>8. CASE ~(cross /\ old # {})
    <2>1. i = Winner(L, all)
        BY <1>1, <1>2, <1>8
    <2>2. CASE j \in all
        BY <1>5, <2>1, <2>2
    <2>3. CASE j \notin all
        BY <1>3, <1>4, <1>6, <2>3
    <2>. QED BY <2>2, <2>3
<1>. QED BY <1>7, <1>8

-----------------------------------------------------------------------------
(* The leader of a game in one step.  lb is what the block's lobbies are     *)
(* when the client is moved; Led(lb) says that nobody was elected so far.    *)

Led(lb) ==
    \A g \in Games :
        \/ lobby[g].num <= 1
        \/ lb[g].num = lobby[g].num /\ lb[g].leader = lobby[g].leader

Leads(lb) == \A g \in Games : LongestLeads(lobby[g], lb[g])

\* Without an election there is nothing to show.
LEMMA LedLeads == ASSUME TypeOK, NEW lb, Led(lb) PROVE Leads(lb)
<1>1. \A g \in Games : lobby[g].num \in Int
    BY DEF TypeOK, LobbyRec, LobbyIds
<1>. QED BY <1>1 DEF Led, Leads, LongestLeads

\* The leader leaves K: whoever is elected was there longest.
LEMMA RemoveLongest ==
    ASSUME TypeOK, JoinedBefore, NEW K \in LobbyRec, NEW c \in Clients,
           NEW i \in Slots
    PROVE  LongestLeads(K, RemoveClient(K, c, i))
<1>. DEFINE M == RemoveClient(K, c, i)
            E == Elect(K)
            s == [E.slot EXCEPT ![i] = None]
<1>1. CASE K.slot[i] # c
    BY <1>1 DEF RemoveClient, LongestLeads
<1>2. CASE K.slot[i] = c /\ i # K.leader
    <2>1. M = [K EXCEPT !.slot[i] = None, !.num = @ - 1]
        BY <1>2 DEF RemoveClient
    <2>2. M.leader = K.leader
        BY <2>1 DEF LobbyRec
    <2>. QED BY <2>2 DEF LongestLeads
<1>3. CASE K.slot[i] = c /\ i = K.leader
    <2>1. E \in LobbyRec /\ E.slot = K.slot
        BY ElectType
    <2>2. M = [E EXCEPT !.slot[i] = None, !.num = @ - 1]
        BY <1>3 DEF RemoveClient
    <2>3. M = [E EXCEPT !.slot = s, !.num = E.num - 1]
        BY <2>1, <2>2 DEF LobbyRec
    <2>. HIDE DEF M, s, E
    <2>4. /\ M.leader = E.leader /\ M.gcOK = E.gcOK /\ M.ver = E.ver
          /\ M.slot = s
        BY <2>1, <2>3 DEF LobbyRec
    <2>5. \A j \in Slots : M.slot[j] # None => j # K.leader /\ M.slot[j] = K.slot[j]
        BY <1>3, <2>1, <2>4 DEF s, LobbyRec
    <2>6. M.leader \in Slots
        BY <2>1, <2>4 DEF LobbyRec
    <2>7. ASSUME M.leader # K.leader, M.slot[M.leader] # None,
                 NEW j \in Slots, M.slot[j] # None
          PROVE  \/ client[M.slot[j]].joined >= client[M.slot[M.leader]].joined
                 \/ M.gcOK /\ M.ver = "v2" /\ Version[M.slot[j]] # "v2"
        <3>1. /\ M.slot[j] = K.slot[j] /\ j # K.leader
              /\ M.slot[M.leader] = K.slot[M.leader]
            BY <2>5, <2>6, <2>7
        <3>2. /\ Elect(K).leader # K.leader
              /\ K.slot[Elect(K).leader] # None
              /\ K.slot[j] # None
            BY <2>4, <2>7, <3>1 DEF E
        <3>3. \/ client[K.slot[j]].joined >= client[K.slot[Elect(K).leader]].joined
              \/ /\ Elect(K).gcOK /\ Elect(K).ver = "v2"
                 /\ Version[K.slot[j]] # "v2"
            BY <3>1, <3>2, ElectLongest
        <3>. QED BY <2>4, <3>1, <3>3 DEF E
    <2>. QED BY <2>7 DEF LongestLeads, M
<1>. QED BY <1>1, <1>2, <1>3

LEMMA VacatedLongest ==
    ASSUME TypeOK, JoinedBefore, NEW lb \in [LobbyIds -> LobbyRec], Led(lb),
           NEW c \in Clients, client[c].lobby \in Games
    PROVE  LongestLeads(lobby[client[c].lobby], Vacated(lb, c))
<1>. DEFINE l == client[c].lobby
            M == RemoveClient(lb[l], c, client[c].id)
<1>1. /\ l \in LobbyIds /\ client[c].id \in Slots
      /\ lb[l] \in LobbyRec /\ lobby[l] \in LobbyRec
    BY DEF TypeOK, ClientRec, LobbyIds
<1>2. CASE Empties(lb, c)
    <2>1. Vacated(lb, c).num = 0
        BY <1>2 DEF Vacated, Freed, Empty
    <2>. QED BY <2>1 DEF LongestLeads
<1>3. CASE ~Empties(lb, c)
    <2>1. Vacated(lb, c) = M
        BY <1>3 DEF Vacated
    <2>2. LongestLeads(lb[l], M)
        BY <1>1, RemoveLongest
    <2>3. lobby[l].num <= 1 \/
            (lb[l].num = lobby[l].num /\ lb[l].leader = lobby[l].leader)
        BY DEF Led
    <2>4. lobby[l].num \in Int
        BY <1>1 DEF LobbyRec
    <2>. HIDE DEF M, l
    <2>. QED BY <2>1, <2>2, <2>3, <2>4 DEF LongestLeads, l
<1>. QED BY <1>2, <1>3

LEMMA SeatedLongest ==
    ASSUME TypeOK, NEW lb \in [LobbyIds -> LobbyRec], Led(lb),
           NEW c \in Clients, NEW r \in Games, NEW i \in Slots
    PROVE  LongestLeads(lobby[r], Seated(lb, c, r, i))
<1>. DEFINE L == lb[r]
            s == [L.slot EXCEPT ![i] = c]
            x == IF L.num = 0 THEN i ELSE L.leader
            A == [L EXCEPT !.slot = s, !.num = L.num + 1, !.leader = x]
            S == Seated(lb, c, r, i)
<1>1. L \in LobbyRec /\ lobby[r].num \in Int
    BY DEF LobbyIds, TypeOK, LobbyRec
<1>2. S = [A EXCEPT !.bursting = TRUE]
    BY <1>1 DEF Seated, AddClient, LobbyRec
<1>. HIDE DEF s, x, S
<1>3. S.leader = x
    BY <1>1, <1>2 DEF LobbyRec
<1>4. \/ lobby[r].num <= 1
      \/ L.num = lobby[r].num /\ L.leader = lobby[r].leader
    BY DEF Led
<1>. HIDE DEF L
<1>5. lobby[r].num > 1 => S.leader = lobby[r].leader
    BY <1>1, <1>3, <1>4 DEF x
<1>. QED BY <1>5 DEF LongestLeads, S

LEMMA MoveLongest ==
    ASSUME TypeOK, JoinedBefore, NEW lb \in [LobbyIds -> LobbyRec], Led(lb),
           NEW n, NEW c \in Clients, NEW C, NEW r \in LobbyIds,
           client[c].lobby # None, Move(lb, n, c, C, r)
    PROVE  Leads(lobby')
<1>. DEFINE l == client[c].lobby
<1>1. PICK i \in Slots :
         lobby' = [lb EXCEPT ![r] = Seated(lb, c, r, i), ![l] = Vacated(lb, c)]
    BY DEF Move
<1>2. l \in LobbyIds /\ Games \subseteq LobbyIds
    BY DEF TypeOK, ClientRec, LobbyIds
<1>3. r \in Games => LongestLeads(lobby[r], Seated(lb, c, r, i))
    BY SeatedLongest
<1>4. l \in Games => LongestLeads(lobby[l], Vacated(lb, c))
    BY VacatedLongest
<1>5. Leads(lb)
    BY LedLeads
<1>. QED BY <1>1, <1>2, <1>3, <1>4, <1>5 DEF Leads

LEMMA AddToAnyLongest ==
    ASSUME TypeOK, NEW lb \in [LobbyIds -> LobbyRec], Led(lb),
           NEW n, NEW c \in Clients, NEW C, AddToAny(lb, n, c, C)
    PROVE  Leads(lobby')
<1>1. PICK d \in DefaultLobbies, i \in Slots :
         lobby' = [lb EXCEPT ![d] = Seated(lb, c, d, i)]
    BY DEF AddToAny
<1>2. d \in LobbyIds /\ d \notin Games /\ Games \subseteq LobbyIds
    BY ConstantsAssumption DEF LobbyIds
<1>3. Leads(lb)
    BY LedLeads
<1>. QED BY <1>1, <1>2, <1>3 DEF Leads

LEMMA JoinNewLongest ==
    ASSUME TypeOK, JoinedBefore, NEW lb \in [LobbyIds -> LobbyRec], Led(lb),
           NEW n, NEW c \in Clients, NEW g \in Games, NEW ok, NEW failed,
           JoinNew(lb, n, c, g, ok, failed)
    PROVE  Leads(lobby')
<1>1. g \in LobbyIds /\ Games \subseteq LobbyIds
    BY DEF LobbyIds
<1>2. CASE client[c].lobby # None /\ Move(lb, n, c, ok, g)
    BY <1>1, <1>2, MoveLongest
<1>3. CASE AddToAny(lb, n, c, ok)
    BY <1>3, AddToAnyLongest
<1>4. CASE lobby' = lb
    BY <1>4, LedLeads
<1>5. CASE lobby' = [lb EXCEPT ![g] = Freed]
    <2>1. LongestLeads(lobby[g], Freed)
        BY DEF LongestLeads, Freed, Empty
    <2>. QED BY <1>1, <1>5, <2>1, LedLeads DEF Leads
<1>. QED BY <1>2, <1>3, <1>4, <1>5 DEF JoinNew

LEMMA RemovePlayerLongest ==
    ASSUME TypeOK, JoinedBefore, NEW c \in Clients, client[c].lobby # None,
           RemovePlayer(c)
    PROVE  Leads(lobby')
<1>. DEFINE l  == client[c].lobby
            lb == IF client[c].bursting
                    THEN [lobby EXCEPT ![l] = EndBurst(@)]
                    ELSE lobby
<1>1. l \in LobbyIds /\ lobby[l] \in LobbyRec /\ Games \subseteq LobbyIds
    BY DEF TypeOK, ClientRec, LobbyIds
<1>2. EndBurst(lobby[l]) \in LobbyRec /\ EndBurst(lobby[l]).num = lobby[l].num
    BY <1>1, EndBurstType
<1>3. EndBurst(lobby[l]).leader = lobby[l].leader
    BY <1>1 DEF EndBurst, LobbyRec
<1>4. lb \in [LobbyIds -> LobbyRec]
    BY <1>1, <1>2 DEF TypeOK
<1>5. Led(lb)
    BY <1>1, <1>2, <1>3 DEF Led, TypeOK
<1>6. lobby' = [lb EXCEPT ![l] = Vacated(lb, c)]
    BY DEF RemovePlayer
<1>. HIDE DEF lb
<1>7. l \in Games => LongestLeads(lobby[l], Vacated(lb, c))
    BY <1>4, <1>5, VacatedLongest
<1>. QED BY <1>1, <1>4, <1>5, <1>6, <1>7, LedLeads DEF Leads

-----------------------------------------------------------------------------
(* The handlers.                                                             *)

\* The updates that elect nobody.
LEMMA FlagsLead ==
    ASSUME NEW L \in LobbyRec
    PROVE  /\ \A b : /\ [L EXCEPT !.bursting = b].leader = L.leader
                     /\ [L EXCEPT !.questsel = b].leader = L.leader
                     /\ [L EXCEPT !.gcOK = b].leader = L.leader
                     /\ [L EXCEPT !.ver = b].leader = L.leader
                     /\ [L EXCEPT !.state = b].leader = L.leader
           /\ \A j : [L EXCEPT !.questing = TRUE, !.questsel = FALSE,
                               !.joinable = j].leader = L.leader
           /\ \A c \in Clients : Enqueue(L, c).leader = L.leader
           /\ EndBurst(L).leader = L.leader
BY DEF LobbyRec, Enqueue, EndBurst

\* Such an update of one lobby.
LEMMA FlagLeads ==
    ASSUME TypeOK, NEW l \in LobbyIds, NEW M, M.leader = lobby[l].leader,
           lobby' = [lobby EXCEPT ![l] = M]
    PROVE  Leads(lobby')
<1>1. Games \subseteq LobbyIds
    BY DEF LobbyIds
<1>2. \A g \in Games : lobby'[g].leader = lobby[g].leader
    BY <1>1 DEF TypeOK
<1>. QED BY <1>2 DEF Leads, LongestLeads

LEMMA LedSelf == Led(lobby)
BY DEF Led

LEMMA MovesLongest ==
    ASSUME TypeOK, JoinedBefore, NEW c \in Clients, Moves(c)
    PROVE  Leads(lobby')
<1>a. lobby \in [LobbyIds -> LobbyRec] /\ Games \subseteq LobbyIds /\ Led(lobby)
    BY LedSelf DEF TypeOK, LobbyIds
<1>1. CASE EnterLobby(c)
    BY <1>a, <1>1, AddToAnyLongest DEF EnterLobby
<1>2. CASE LeaveGame(c)
    BY <1>2, RemovePlayerLongest DEF LeaveGame
<1>3. ASSUME NEW r \in LobbyIds, ChangeLobby(c, r)
      PROVE  Leads(lobby')
    BY <1>a, <1>3, MoveLongest DEF ChangeLobby
<1>4. ASSUME NEW g \in Games, SelectGame(c, g)
      PROVE  Leads(lobby')
    BY <1>a, <1>4, MoveLongest DEF SelectGame
<1>5. CASE RejoinGame(c)
    <2>. DEFINE l == client[c].lobby
                M == [lobby[l] EXCEPT !.bursting = TRUE]
    <2>1. l \in LobbyIds /\ lobby' = [lobby EXCEPT ![l] = M]
        BY <1>a, <1>5 DEF RejoinGame, Rejoin, InGame
    <2>2. M.leader = lobby[l].leader
        BY <1>a, <2>1, FlagsLead
    <2>. HIDE DEF l, M
    <2>. QED BY <2>1, <2>2, FlagLeads
<1>. QED BY <1>1, <1>2, <1>3, <1>4, <1>5 DEF Moves

\* A game that nobody is in has no leader to replace.
LEMMA NobodyLed ==
    ASSUME TypeOK, PlacesInv, NEW g \in Games, Members(g) = {}, NEW M
    PROVE  Led([lobby EXCEPT ![g] = M])
<1>1. lobby[g].num = 0 /\ Games \subseteq LobbyIds
    BY EmptyPlace DEF LobbyIds
<1>. QED BY <1>1 DEF Led, TypeOK

LEMMA CreatesLongest ==
    ASSUME OpenMenus, IInv, JoinedBefore, NEW c \in Clients, Creates(c)
    PROVE  Leads(lobby')
<1>a. /\ TypeOK /\ PlacesInv /\ MenusOwnGames
      /\ lobby \in [LobbyIds -> LobbyRec] /\ client[c] \in ClientRec
      /\ Games \subseteq LobbyIds
    BY DEF IInv, TypeOK, LobbyIds
<1>1. ASSUME NEW g \in Games, lobby[g].state = "free"
      PROVE  Members(g) = {}
    BY <1>a, <1>1 DEF PlacesInv, GamesHeld, InGame, Members
<1>2. ASSUME NEW k \in Games, CreateGame(c, k) PROVE Leads(lobby')
    <2>. DEFINE lb == [lobby EXCEPT ![k] = NewGame(c, "listed")]
    <2>1. JoinNew(lb, numGames + 1, c, k, client[c], client[c]) /\ Led(lb)
        BY <1>a, <1>1, <1>2, NobodyLed DEF CreateGame, MayCreate
    <2>2. lb \in [LobbyIds -> LobbyRec]
        BY <1>a, NewGameType
    <2>. HIDE DEF lb
    <2>. QED BY <1>a, <2>1, <2>2, JoinNewLongest
<1>3. ASSUME NEW k \in Games, CreatePending(c, k) PROVE Leads(lobby')
    <2>1. PICK M : lobby' = [lobby EXCEPT ![k] = M]
        BY <1>3 DEF CreatePending
    <2>2. Led([lobby EXCEPT ![k] = M])
        BY <1>a, <1>1, <1>3, NobodyLed DEF CreatePending, MayCreate
    <2>. QED BY <1>a, <2>1, <2>2, LedLeads
<1>. DEFINE g == client[c].create
<1>4. ASSUME client[c].menu
      PROVE  g \in Games /\ g \in LobbyIds /\ lobby[g] \in LobbyRec /\ Members(g) = {}
    BY <1>a, <1>4 DEF MenusOwnGames
<1>5. CASE ChooseType(c)
    <2>. DEFINE lb == [lobby EXCEPT ![g].state = "listed"]
                D  == [client[c] EXCEPT !.create = None, !.menu = FALSE]
                M  == [lobby[g] EXCEPT !.state = "listed"]
    <2>1. client[c].menu /\ JoinNew(lb, numGames + 1, c, g, D, D)
        BY <1>5 DEF ChooseType
    <2>2. M \in LobbyRec
        BY <1>4, <2>1, FlagsType
    <2>3. lb = [lobby EXCEPT ![g] = M]
        OBVIOUS
    <2>. HIDE DEF g, M, D, lb
    <2>4. Led(lb)
        BY <1>a, <1>4, <2>1, <2>3, NobodyLed
    <2>5. lb \in [LobbyIds -> LobbyRec]
        BY <1>a, <2>2, <2>3
    <2>. QED BY <1>a, <1>4, <2>1, <2>4, <2>5, JoinNewLongest
<1>6. CASE ChooseVersion(c)
    <2>1. PICK M : /\ lobby' = [lobby EXCEPT ![g] = M]
                   /\ M.leader = lobby[g].leader
        <3>1. client[c].menu
            BY <1>6 DEF ChooseVersion, Answers
        <3>2. \/ lobby' = [lobby EXCEPT ![g] = [lobby[g] EXCEPT !.gcOK = TRUE]]
              \/ \E v : lobby' = [lobby EXCEPT ![g] = [lobby[g] EXCEPT !.ver = v]]
            BY <1>6 DEF ChooseVersion, Answers
        <3>3. /\ [lobby[g] EXCEPT !.gcOK = TRUE].leader = lobby[g].leader
              /\ \A v : [lobby[g] EXCEPT !.ver = v].leader = lobby[g].leader
            BY <1>4, <3>1, FlagsLead
        <3>. QED BY <3>2, <3>3
    <2>2. g \in LobbyIds
        BY <1>4, <1>6 DEF ChooseVersion, Answers
    <2>. HIDE DEF g
    <2>. QED BY <1>a, <2>1, <2>2, FlagLeads
<1>7. CASE ChooseDrop(c)
    <2>. DEFINE D == [client[c] EXCEPT !.create = None, !.menu = FALSE]
                F == [client[c] EXCEPT !.menu = FALSE]
    <2>1. client[c].menu /\ JoinNew(lobby, numGames, c, g, D, F)
        BY <1>a, <1>7, DropJoins
    <2>. HIDE DEF g, D, F
    <2>. QED BY <1>a, <1>4, <2>1, LedSelf, JoinNewLongest
<1>8. CASE CancelCreate(c)
    <2>1. client[c].menu /\ lobby' = [lobby EXCEPT ![g] = Freed]
        BY <1>8 DEF CancelCreate, Answers
    <2>. HIDE DEF g
    <2>2. Led([lobby EXCEPT ![g] = Freed])
        BY <1>a, <1>4, <2>1, NobodyLed
    <2>. QED BY <1>a, <2>1, <2>2, LedLeads
<1>. QED BY <1>2, <1>3, <1>5, <1>6, <1>7, <1>8 DEF Creates

LEMMA PlaysLongest ==
    ASSUME TypeOK, NEW c \in Clients, Plays(c)
    PROVE  Leads(lobby')
<1>. DEFINE l == client[c].lobby
<1>a. /\ lobby \in [LobbyIds -> LobbyRec]
      /\ Games \subseteq LobbyIds
      /\ l # None => l \in LobbyIds
    BY DEF TypeOK, LobbyIds, ClientRec
<1>b. ASSUME l \in LobbyIds PROVE lobby[l] \in LobbyRec
    BY <1>a, <1>b
<1>c. lobby' = lobby => Leads(lobby')
    BY LedSelf, LedLeads
<1>d. ASSUME l \in LobbyIds, NEW M, M.leader = lobby[l].leader,
             lobby' = [lobby EXCEPT ![l] = M]
      PROVE  Leads(lobby')
    BY <1>d, FlagLeads
<1>1. CASE Subcmd(c)
    <2>1. l \in LobbyIds /\ lobby' = [lobby EXCEPT ![l] = Enqueue(lobby[l], c)]
        BY <1>a, <1>1 DEF Subcmd, InGame
    <2>. QED BY <1>b, <1>d, <2>1, FlagsLead
<1>2. CASE DoneBurst(c) \/ Ping(c)
    <2>1. /\ l \in LobbyIds
          /\ \/ lobby' = lobby
             \/ lobby' = [lobby EXCEPT ![l] = EndBurst(lobby[l])]
        BY <1>a, <1>2 DEF DoneBurst, Ping, InGame
    <2>. QED BY <1>b, <1>c, <1>d, <2>1, FlagsLead
<1>3. CASE QuestList(c) \/ QuestListEnd(c)
    <2>1. /\ l \in LobbyIds
          /\ \E b \in BOOLEAN :
               lobby' = [lobby EXCEPT ![l] = [lobby[l] EXCEPT !.questsel = b]]
        BY <1>a, <1>3 DEF QuestList, QuestListEnd, InGame
    <2>. QED BY <1>b, <1>d, <2>1, FlagsLead
<1>4. CASE SetupQuest(c)
    <2>1. l \in LobbyIds
        BY <1>a, <1>4 DEF SetupQuest
    <2>2. \/ \E j :
               lobby' = [lobby EXCEPT ![l].questing = TRUE,
                                      ![l].questsel = FALSE,
                                      ![l].joinable = j]
          \/ lobby' = [lobby EXCEPT ![l].questsel = FALSE]
        BY <1>4 DEF SetupQuest
    <2>3. \/ \E j :
               lobby' = [lobby EXCEPT ![l] =
                           [lobby[l] EXCEPT !.questing = TRUE,
                                            !.questsel = FALSE,
                                            !.joinable = j]]
          \/ lobby' = [lobby EXCEPT ![l] = [lobby[l] EXCEPT !.questsel = FALSE]]
        BY <1>a, <2>1, <2>2
    <2>. QED BY <1>b, <1>d, <2>1, <2>3, FlagsLead
<1>5. CASE QloadDone(c)
    BY <1>5, <1>c DEF QloadDone
<1>6. CASE AllowGC(c)
    <2>1. /\ l \in LobbyIds
          /\ \E b \in BOOLEAN :
               lobby' = [lobby EXCEPT ![l] = [lobby[l] EXCEPT !.gcOK = b]]
        BY <1>a, <1>6 DEF AllowGC, InGame
    <2>. QED BY <1>b, <1>d, <2>1, FlagsLead
<1>. QED BY <1>1, <1>2, <1>3, <1>4, <1>5, <1>6 DEF Plays

LEMMA LongestStep ==
    ASSUME OpenMenus, IInv, JoinedBefore, [Next]_vars
    PROVE  Leads(lobby')
<1>a. TypeOK
    BY DEF IInv
<1>1. ASSUME lobby' = lobby PROVE Leads(lobby')
    BY <1>a, <1>1, LedSelf, LedLeads
<1>2. CASE Tick \/ UNCHANGED vars
    BY <1>1, <1>2 DEF Tick, vars
<1>3. ASSUME NEW c \in Clients, Connect(c) PROVE Leads(lobby')
    BY <1>1, <1>3 DEF Connect
<1>4. ASSUME NEW c \in Clients, Drop(c) PROVE Leads(lobby')
    BY <1>a, <1>1, <1>4, RemovePlayerLongest DEF Drop
<1>. QED BY <1>a, <1>2, <1>3, <1>4, MovesLongest, CreatesLongest, PlaysLongest
         DEF Next

-----------------------------------------------------------------------------
(* Join times.                                                               *)

\* A record whose join_time is the old one, none or the clock's.
Aged(C, D) == D.joined \in {C.joined, 0, now}

LEMMA AgedFlags ==
    ASSUME NEW C \in ClientRec
    PROVE  /\ Aged(C, C)
           /\ \A b : Aged(C, Fresh(b))
           /\ \A r, i : Aged(C, Placed(C, r, i))
           /\ \A b, d : /\ Aged(C, [C EXCEPT !.create = b, !.menu = d])
                        /\ Aged(C, [C EXCEPT !.menu = d])
                        /\ Aged(C, [C EXCEPT !.bursting = b])
                        /\ Aged(C, [C EXCEPT !.browsing = b])
                        /\ Aged(C, [C EXCEPT !.bursting = b, !.waitq = d])
                        /\ Aged(C, [C EXCEPT !.waitq = b, !.qloaded = d])
                        /\ Aged(C, [C EXCEPT !.qloaded = b, !.held = d])
                        /\ Aged(C, [C EXCEPT !.held = b, !.qloaded = d])
           /\ Aged(C, [C EXCEPT !.qloaded = FALSE, !.held = FALSE,
                                !.browsing = FALSE])
           /\ Aged(C, [C EXCEPT !.lobby = None, !.id = 0, !.held = FALSE,
                                !.browsing = FALSE])
BY DEF Aged, ClientRec, Fresh, Placed

LEMMA AgedStep ==
    ASSUME TypeOK, [Next]_vars, NEW d \in Clients
    PROVE  Aged(client[d], client'[d])
<1>a. client \in [Clients -> ClientRec] /\ \A e \in Clients : client[e] \in ClientRec
    BY DEF TypeOK
<1>b. ASSUME NEW c \in Clients, NEW D, Aged(client[c], D),
             client' = [client EXCEPT ![c] = D]
      PROVE  Aged(client[d], client'[d])
    <2>1. client'[d] = IF d = c THEN D ELSE client[d]
        BY <1>a, <1>b
    <2>. QED BY <1>a, <1>b, <2>1, AgedFlags
<1>c. client' = client => Aged(client[d], client'[d])
    BY <1>a, AgedFlags
<1>d. ASSUME NEW c \in Clients, NEW lb, NEW n, NEW g, NEW ok \in ClientRec,
             NEW failed, Aged(client[c], ok), Aged(client[c], failed),
             JoinNew(lb, n, c, g, ok, failed)
      PROVE  Aged(client[d], client'[d])
    <2>1. \A r, i : Aged(client[c], Placed(ok, r, i))
        BY <1>a, <1>d, AgedFlags DEF Aged, Placed, ClientRec
    <2>2. \/ \E r, i : client' = [client EXCEPT ![c] = Placed(ok, r, i)]
          \/ client' = [client EXCEPT ![c] = ok]
          \/ client' = [client EXCEPT ![c] = failed]
        BY <1>d DEF JoinNew, Move, AddToAny
    <2>. QED BY <1>b, <1>d, <2>1, <2>2
<1>1. CASE Tick \/ UNCHANGED vars
    BY <1>1, <1>c DEF Tick, vars
<1>2. ASSUME NEW c \in Clients, Connect(c) \/ Drop(c)
      PROVE  Aged(client[d], client'[d])
    <2>1. \E b : client' = [client EXCEPT ![c] = Fresh(b)]
        BY <1>2 DEF Connect, Drop
    <2>. QED BY <1>a, <1>b, <2>1, AgedFlags
<1>3. ASSUME NEW c \in Clients, Moves(c)
      PROVE  Aged(client[d], client'[d])
    <2>1. \/ \E r, i : client' = [client EXCEPT ![c] = Placed(client[c], r, i)]
          \/ client' = [client EXCEPT ![c] =
                          [client[c] EXCEPT !.lobby = None, !.id = 0,
                                            !.held = FALSE, !.browsing = FALSE]]
          \/ client' = [client EXCEPT ![c] = [client[c] EXCEPT !.bursting = TRUE]]
        BY <1>3 DEF Moves, EnterLobby, LeaveGame, ChangeLobby, SelectGame,
                    RejoinGame, Rejoin, Move, AddToAny
    <2>2. /\ \A r, i : Aged(client[c], Placed(client[c], r, i))
          /\ Aged(client[c], [client[c] EXCEPT !.lobby = None, !.id = 0,
                                              !.held = FALSE, !.browsing = FALSE])
          /\ Aged(client[c], [client[c] EXCEPT !.bursting = TRUE])
        BY <1>a, AgedFlags
    <2>. QED BY <1>b, <2>1, <2>2
<1>4. ASSUME NEW c \in Clients, Creates(c)
      PROVE  Aged(client[d], client'[d])
    <2>1. client[c] \in ClientRec
        BY <1>a
    <2>2. [client[c] EXCEPT !.create = None, !.menu = FALSE] \in ClientRec
        BY <2>1, ClientFlagsType
    <2>3. ASSUME NEW k \in Games, CreateGame(c, k)
          PROVE  Aged(client[d], client'[d])
        BY <1>d, <2>1, <2>3, AgedFlags DEF CreateGame
    <2>4. CASE ChooseType(c)
        BY <1>d, <2>1, <2>2, <2>4, AgedFlags DEF ChooseType
    <2>5. CASE ChooseDrop(c)
        <3>. DEFINE C == [client[c] EXCEPT !.create = None, !.menu = FALSE]
                    F == [client[c] EXCEPT !.menu = FALSE]
        <3>1. Aged(client[c], C) /\ Aged(client[c], F)
            BY <2>1, AgedFlags
        <3>2. Aged(client[c], [C EXCEPT !.bursting = TRUE])
            BY <2>1 DEF Aged, ClientRec
        <3>3. \/ client' = [client EXCEPT ![c] = [C EXCEPT !.bursting = TRUE]]
              \/ JoinNew(lobby, numGames, c, client[c].create, C, F)
            BY <2>5 DEF ChooseDrop, Rejoin
        <3>. HIDE DEF C, F
        <3>. QED BY <1>b, <1>d, <2>2, <3>1, <3>2, <3>3 DEF C
    <2>6. CASE ChooseVersion(c)
        BY <1>c, <2>6 DEF ChooseVersion, Answers
    <2>7. CASE (\E k \in Games : CreatePending(c, k)) \/ CancelCreate(c)
        <3>1. \/ \E k : client' = [client EXCEPT ![c] =
                            [client[c] EXCEPT !.create = k, !.menu = TRUE]]
              \/ client' = [client EXCEPT ![c] = [client[c] EXCEPT !.menu = FALSE]]
            BY <2>7 DEF CreatePending, CancelCreate, Answers
        <3>2. /\ \A k : Aged(client[c], [client[c] EXCEPT !.create = k,
                                                         !.menu = TRUE])
              /\ Aged(client[c], [client[c] EXCEPT !.menu = FALSE])
            BY <2>1, AgedFlags
        <3>. QED BY <1>b, <3>1, <3>2
    <2>. QED BY <1>4, <2>3, <2>4, <2>5, <2>6, <2>7 DEF Creates
<1>5. ASSUME NEW c \in Clients, Plays(c)
      PROVE  Aged(client[d], client'[d])
    <2>1. client[c] \in ClientRec /\ client[d] \in ClientRec
        BY <1>a
    <2>2. CASE Subcmd(c) \/ AllowGC(c)
        BY <1>c, <2>2 DEF Subcmd, AllowGC
    <2>3. CASE DoneBurst(c)
        <3>1. \/ client' = [client EXCEPT ![c] =
                              [client[c] EXCEPT !.waitq = TRUE, !.qloaded = FALSE]]
              \/ client' = [client EXCEPT ![c] = [client[c] EXCEPT !.bursting = FALSE]]
            BY <2>3 DEF DoneBurst
        <3>2. /\ Aged(client[c], [client[c] EXCEPT !.waitq = TRUE, !.qloaded = FALSE])
              /\ Aged(client[c], [client[c] EXCEPT !.bursting = FALSE])
            BY <2>1, AgedFlags
        <3>. QED BY <1>b, <3>1, <3>2
    <2>4. CASE Ping(c)
        <3>1. client' = [client EXCEPT ![c] =
                           [client[c] EXCEPT !.bursting = FALSE, !.waitq = FALSE]]
            BY <2>4 DEF Ping
        <3>. QED BY <1>b, <2>1, <3>1, AgedFlags
    <2>5. CASE QuestList(c) \/ QuestListEnd(c)
        <3>1. \E b : client' = [client EXCEPT ![c] = [client[c] EXCEPT !.browsing = b]]
            BY <2>5 DEF QuestList, QuestListEnd
        <3>. QED BY <1>b, <2>1, <3>1, AgedFlags
    <2>6. CASE SetupQuest(c)
        <3>1. \/ client'[d] = client[d]
              \/ client'[d] = [client[d] EXCEPT !.qloaded = FALSE, !.held = FALSE,
                                                !.browsing = FALSE]
              \/ client'[d] = [client[d] EXCEPT !.browsing = FALSE]
            BY <1>a, <2>6 DEF SetupQuest
        <3>2. /\ Aged(client[d], [client[d] EXCEPT !.qloaded = FALSE, !.held = FALSE,
                                                  !.browsing = FALSE])
              /\ Aged(client[d], [client[d] EXCEPT !.browsing = FALSE])
              /\ Aged(client[d], client[d])
            BY <2>1, AgedFlags
        <3>. QED BY <3>1, <3>2
    <2>7. CASE QloadDone(c)
        <3>1. \/ client' = [client EXCEPT ![c] =
                              [client[c] EXCEPT !.qloaded = TRUE, !.held = TRUE]]
              \/ \E b : client'[d] = [client[d] EXCEPT !.held = FALSE, !.qloaded = b]
              \/ client'[d] = client[d]
            BY <1>a, <2>7 DEF QloadDone
        <3>2. /\ Aged(client[c], [client[c] EXCEPT !.qloaded = TRUE, !.held = TRUE])
              /\ \A b : Aged(client[d], [client[d] EXCEPT !.held = FALSE, !.qloaded = b])
              /\ Aged(client[d], client[d])
            BY <2>1, AgedFlags
        <3>. QED BY <1>b, <3>1, <3>2
    <2>. QED BY <1>5, <2>2, <2>3, <2>4, <2>5, <2>6, <2>7 DEF Plays
<1>. QED BY <1>1, <1>2, <1>3, <1>4, <1>5 DEF Next

LEMMA JoinedStep ==
    ASSUME TypeOK, JoinedBefore, [Next]_vars
    PROVE  JoinedBefore'
<1>1. now \in Nat /\ now' \in Nat /\ now <= now'
    <2>1. now' = now \/ now' = now + 1
        <3>1. \A c \in Clients :
                Connect(c) \/ Drop(c) \/ Moves(c) \/ Creates(c) => now' = now
            BY DEF Connect, Drop, Moves, EnterLobby, LeaveGame, ChangeLobby,
                   SelectGame, RejoinGame, Rejoin, Creates, CreateGame, CreatePending,
                   ChooseType, ChooseVersion, ChooseDrop, CancelCreate, Answers
        <3>2. \A c \in Clients : Plays(c) => now' = now
            BY DEF Plays, Subcmd, DoneBurst, Ping, QuestList, QuestListEnd,
                   SetupQuest, QloadDone, AllowGC
        <3>. QED BY <3>1, <3>2 DEF Next, Tick, vars
    <2>. QED BY <2>1 DEF TypeOK
<1>2. ASSUME NEW c \in Clients PROVE client'[c].joined <= now'
    <2>1. client'[c].joined \in {client[c].joined, 0, now}
        BY AgedStep DEF Aged
    <2>2. client[c].joined \in Nat /\ client[c].joined <= now
        BY DEF TypeOK, ClientRec, JoinedBefore
    <2>. QED BY <1>1, <2>1, <2>2
<1>. QED BY <1>2 DEF JoinedBefore

\* When the leader of a game goes, the member that takes over has been in the
\* game longest, for any clients, lobbies, games and limits and any order of
\* packets of clients that answer a creation menu only while it is open, as
\* long as nobody joins a game whose creator is still in the menus:
\* lobby_elect_leader passes over those who came this very second, and, if the
\* game is open to GameCube, over everyone but DC and PC players, and finds the
\* earliest of the others; and no other handler replaces a leader.
THEOREM SuccessorRight ==
    ASSUME ~JoinPending, OpenMenus PROVE Spec => SuccessorIsLongest
<1>. DEFINE Inv == IInv /\ JoinedBefore
<1>1. Init => Inv
    <2>1. Init => JoinedBefore
        BY DEF Init, JoinedBefore, Fresh
    <2>. QED BY <2>1, InitInv
<1>2. Inv /\ [Next]_vars => Inv'
    BY StepKeeps, JoinedStep DEF IInv
<1>3. Inv /\ [Next]_vars => [\A g \in Games : LongestLeads(lobby[g], lobby'[g])]_vars
    BY LongestStep DEF Leads
<1>. HIDE DEF Inv
<1>. QED BY <1>1, <1>2, <1>3, PTL DEF Spec, SuccessorIsLongest
=============================================================================
