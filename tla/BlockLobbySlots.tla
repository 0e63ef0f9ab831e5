--------------------------- MODULE BlockLobbySlots ---------------------------
(***************************************************************************)
(* Proof that the slots of the lobbies and the clients' own record of      *)
(* where they are always agree, as long as nobody joins a game whose       *)
(* creator is still in the creation menus, and nobody answers a creation   *)
(* menu that is closed.                                                    *)
(*                                                                         *)
(* SlotsAgree is not inductive by itself.  A game is freed by the move of  *)
(* its last member, which the code recognises by num_clients: so that      *)
(* count has to be right.  It is also freed when the creation menus are    *)
(* cancelled or the creator cannot join: so the game of an open menu must  *)
(* be empty, and nobody else's.  And a freed game is given out again by    *)
(* lobby_create_game: so nobody may be left in it.                         *)
(***************************************************************************)
EXTENDS BlockLobbyProofs

\* num_clients of every lobby is the number of clients in it.
NumsAgree ==
    \A l \in LobbyIds : lobby[l].num = Cardinality(Members(l))

\* Nobody is in a freed game.
GamesHeld ==
    \A c \in Clients : InGame(c) => lobby[client[c].lobby].state # "free"

\* The game of an open creation menu exists, is empty and is the game of no
\* other open menu.
MenusOwnGames ==
    \A c \in Clients : client[c].menu =>
        /\ client[c].up
        /\ client[c].create \in Games
        /\ lobby[client[c].create].state # "free"
        /\ Members(client[c].create) = {}
        /\ \A d \in Clients \ {c} :
             client[d].menu => client[d].create # client[c].create

PlacesInv == SlotsAgree /\ NumsAgree /\ GamesHeld

IInv == TypeOK /\ PlacesInv /\ MenusOwnGames

-----------------------------------------------------------------------------
(* Facts about one state.                                                  *)

LEMMA MembersFinite ==
    ASSUME NEW l
    PROVE  IsFiniteSet(Members(l)) /\ Cardinality(Members(l)) \in Nat
<1>1. Members(l) \in SUBSET Clients
    BY DEF Members
<1>2. IsFiniteSet(Clients)
    BY ConstantsAssumption
<1>. QED BY <1>1, <1>2, FS_Subset, FS_CardinalityType

\* A lobby that nobody is in has empty slots and the count 0.
LEMMA EmptyPlace ==
    ASSUME TypeOK, PlacesInv, NEW l \in LobbyIds, Members(l) = {}
    PROVE  lobby[l].slot = [i \in Slots |-> None] /\ lobby[l].num = 0
<1>1. lobby[l].num = 0
    BY FS_EmptySet DEF PlacesInv, NumsAgree
<1>2. lobby[l].slot \in [Slots -> Clients \cup {None}]
    BY DEF TypeOK, LobbyRec
<1>3. ASSUME NEW i \in Slots PROVE lobby[l].slot[i] = None
    <2>1. CASE lobby[l].slot[i] \in Clients
        <3>1. lobby[l].slot[i] \in Members(l)
            BY <2>1 DEF PlacesInv, SlotsAgree, Members
        <3>. QED BY <3>1
    <2>. QED BY <1>2, <2>1
<1>. QED BY <1>1, <1>2, <1>3

\* A lobby with the count 1 holds only the client that is found in it.
LEMMA OnlyMember ==
    ASSUME TypeOK, PlacesInv, NEW c \in Clients, NEW l \in LobbyIds,
           client[c].lobby = l, lobby[l].num = 1
    PROVE  /\ Members(l) = {c}
           /\ [i \in Slots |-> None] = Put(lobby[l].slot, client[c].id, None)
<1>1. Cardinality(Members(l)) = 1
    BY DEF PlacesInv, NumsAgree
<1>2. c \in Members(l)
    BY DEF Members
<1>3. \E x : Members(l) = {x}
    BY <1>1, MembersFinite, FS_Singleton
<1>4. Members(l) = {c}
    BY <1>2, <1>3
<1>5. lobby[l].slot \in [Slots -> Clients \cup {None}]
    BY DEF TypeOK, LobbyRec
<1>6. ASSUME NEW i \in Slots, i # client[c].id
      PROVE  lobby[l].slot[i] = None
    <2>1. CASE lobby[l].slot[i] \in Clients
        <3>1. /\ client[lobby[l].slot[i]].lobby = l
              /\ client[lobby[l].slot[i]].id = i
            BY <2>1 DEF PlacesInv, SlotsAgree
        <3>2. lobby[l].slot[i] = c
            BY <1>4, <2>1, <3>1 DEF Members
        <3>. QED BY <1>6, <3>1, <3>2
    <2>. QED BY <1>5, <2>1
<1>. QED BY <1>4, <1>5, <1>6 DEF Put

-----------------------------------------------------------------------------
(* The ways a step can change who is where.                                *)

\* Nobody moves.
LEMMA SamePlaces ==
    ASSUME PlacesInv,
           \A l \in LobbyIds : /\ lobby'[l].slot = lobby[l].slot
                               /\ lobby'[l].num = lobby[l].num,
           \A g \in Games : Members(g) # {} => lobby'[g].state # "free",
           \A d \in Clients :
               /\ client'[d].lobby = client[d].lobby
               /\ client[d].lobby # None => /\ client'[d].id = client[d].id
                                            /\ client'[d].up
    PROVE  PlacesInv' /\ \A l : Members(l)' = Members(l)
<1>1. \A l : Members(l)' = Members(l)
    BY DEF Members
<1>2. NumsAgree'
    BY <1>1 DEF PlacesInv, NumsAgree
<1>3. GamesHeld'
    BY DEF GamesHeld, InGame, Members
<1>4. SlotsAgree'
    <2>1. ASSUME NEW c \in Clients, NEW l \in LobbyIds, NEW i \in Slots
          PROVE  lobby'[l].slot[i] = c <=>
                   client'[c].lobby = l /\ client'[c].id = i
        <3>1. l # None
            BY ConstantsAssumption
        <3>. QED BY <3>1 DEF PlacesInv, SlotsAgree
    <2>2. ASSUME NEW c \in Clients, client'[c].lobby # None
          PROVE  client'[c].up
        BY <2>2
    <2>. QED BY <2>1, <2>2 DEF SlotsAgree
<1>. QED BY <1>1, <1>2, <1>3, <1>4 DEF PlacesInv

\* c goes from where it is, a lobby or none, to slot i of r, or to none.
LEMMA Relocated ==
    ASSUME TypeOK, PlacesInv, NEW c \in Clients,
           NEW r \in LobbyIds \cup {None}, NEW i \in Slots,
           client'[c].lobby = r, r # client[c].lobby,
           r # None => client'[c].id = i /\ client'[c].up,
           \A d \in Clients \ {c} : client'[d] = client[d],
           \A k \in LobbyIds \ {r, client[c].lobby} :
               lobby'[k].slot = lobby[k].slot /\ lobby'[k].num = lobby[k].num,
           r # None =>
               /\ lobby[r].slot[i] = None
               /\ lobby'[r].slot = Put(lobby[r].slot, i, c)
               /\ lobby'[r].num = lobby[r].num + 1,
           client[c].lobby # None =>
               LET l == client[c].lobby
               IN  /\ lobby'[l].slot = Put(lobby[l].slot, client[c].id, None)
                   /\ lobby'[l].num = lobby[l].num - 1,
           GamesHeld'
    PROVE  /\ PlacesInv'
           /\ \A k : k # r => Members(k)' = Members(k) \ {c}
           /\ Members(r)' = Members(r) \cup {c}
<1>. DEFINE l == client[c].lobby
<1>a. l \in LobbyIds \cup {None} /\ client[c].id \in Slots
    BY DEF TypeOK, ClientRec
<1>b. None \notin LobbyIds /\ None \notin Clients
    BY ConstantsAssumption
<1>c. \A k \in LobbyIds : lobby[k].slot \in [Slots -> Clients \cup {None}]
    BY DEF TypeOK, LobbyRec
<1>1. \A k : k # r => Members(k)' = Members(k) \ {c}
    BY DEF Members
<1>2. Members(r)' = Members(r) \cup {c}
    BY DEF Members
<1>3. ASSUME NEW k \in LobbyIds PROVE lobby'[k].num = Cardinality(Members(k)')
    <2>1. lobby[k].num = Cardinality(Members(k))
        BY DEF PlacesInv, NumsAgree
    <2>2. IsFiniteSet(Members(k)) /\ Cardinality(Members(k)) \in Nat
        BY MembersFinite
    <2>3. CASE k = r
        <3>1. c \notin Members(k)
            BY <2>3 DEF Members
        <3>2. Cardinality(Members(k) \cup {c}) = Cardinality(Members(k)) + 1
            BY <2>2, <3>1, FS_AddElement
        <3>. QED BY <1>2, <1>b, <2>1, <2>3, <3>2
    <2>4. CASE k # r /\ k = l
        <3>1. c \in Members(k)
            BY <2>4 DEF Members
        <3>2. Cardinality(Members(k) \ {c}) = Cardinality(Members(k)) - 1
            BY <2>2, <3>1, FS_RemoveElement
        <3>. QED BY <1>1, <1>b, <2>1, <2>4, <3>2
    <2>5. CASE k # r /\ k # l
        <3>1. Members(k)' = Members(k)
            BY <1>1, <2>5 DEF Members
        <3>. QED BY <2>1, <2>5, <3>1
    <2>. QED BY <2>3, <2>4, <2>5
<1>4. NumsAgree'
    BY <1>3 DEF NumsAgree
<1>5. ASSUME NEW d \in Clients, NEW k \in LobbyIds, NEW j \in Slots
      PROVE  lobby'[k].slot[j] = d <=>
               client'[d].lobby = k /\ client'[d].id = j
    <2>1. lobby[k].slot[j] = d <=> client[d].lobby = k /\ client[d].id = j
        BY DEF PlacesInv, SlotsAgree
    <2>2. CASE k = r
        <3>1. lobby'[k].slot[j] = IF j = i THEN c ELSE lobby[k].slot[j]
            BY <1>b, <1>c, <2>2 DEF Put
        <3>2. CASE d = c
            BY <1>b, <2>1, <2>2, <3>1, <3>2
        <3>3. CASE d # c
            BY <1>b, <2>1, <2>2, <3>1, <3>3
        <3>. QED BY <3>2, <3>3
    <2>3. CASE k # r /\ k = l
        <3>1. lobby'[k].slot[j] =
                IF j = client[c].id THEN None ELSE lobby[k].slot[j]
            BY <1>a, <1>b, <1>c, <2>3 DEF Put
        <3>2. CASE d = c
            BY <1>b, <2>1, <2>3, <3>1, <3>2
        <3>3. CASE d # c
            <4>1. lobby[k].slot[client[c].id] = c
                BY <1>a, <2>3 DEF PlacesInv, SlotsAgree
            <4>. QED BY <1>b, <2>1, <2>3, <3>1, <3>3, <4>1
        <3>. QED BY <3>2, <3>3
    <2>4. CASE k # r /\ k # l
        <3>1. lobby'[k].slot = lobby[k].slot
            BY <2>4
        <3>. QED BY <2>1, <2>4, <3>1
    <2>. QED BY <2>2, <2>3, <2>4
<1>6. ASSUME NEW d \in Clients, client'[d].lobby # None
      PROVE  client'[d].up
    BY <1>6 DEF PlacesInv, SlotsAgree
<1>7. SlotsAgree'
    BY <1>5, <1>6 DEF SlotsAgree
<1>. QED BY <1>1, <1>2, <1>4, <1>7 DEF PlacesInv

-----------------------------------------------------------------------------
(* The operators that move a client.                                       *)

\* lb has the same clients in the same slots as the block's lobbies, and no
\* game with a client in it is free in lb.
Alike(lb) ==
    /\ \A l \in LobbyIds : lb[l].slot = lobby[l].slot /\ lb[l].num = lobby[l].num
    /\ \A g \in Games : Members(g) # {} => lb[g].state # "free"

LEMMA VacatedPlace ==
    ASSUME TypeOK, PlacesInv, NEW lb \in [LobbyIds -> LobbyRec], Alike(lb),
           NEW c \in Clients, NEW l \in LobbyIds, client[c].lobby = l
    PROVE  /\ Vacated(lb, c).slot = Put(lobby[l].slot, client[c].id, None)
           /\ Vacated(lb, c).num = lobby[l].num - 1
           /\ Members(l) # {c} => Vacated(lb, c).state = lb[l].state
<1>1. client[c].id \in Slots /\ lb[l] \in LobbyRec
    BY DEF TypeOK, ClientRec
<1>2. lb[l].slot = lobby[l].slot /\ lb[l].num = lobby[l].num
    BY DEF Alike
<1>3. lb[l].slot[client[c].id] = c
    BY <1>1, <1>2 DEF PlacesInv, SlotsAgree
<1>4. CASE Empties(lb, c)
    <2>1. lobby[l].num = 1
        BY <1>2, <1>4 DEF Empties
    <2>2. Freed.slot = [i \in Slots |-> None] /\ Freed.num = 0
        BY DEF Freed, Empty
    <2>3. Vacated(lb, c) = Freed
        BY <1>4 DEF Vacated
    <2>. QED BY <2>1, <2>2, <2>3, OnlyMember
<1>5. CASE ~Empties(lb, c)
    <2>1. Vacated(lb, c) = RemoveClient(lb[l], c, client[c].id)
        BY <1>5 DEF Vacated
    <2>2. LET V == RemoveClient(lb[l], c, client[c].id)
          IN  /\ V.state = lb[l].state
              /\ V.slot = Put(lb[l].slot, client[c].id, None)
              /\ V.num = lb[l].num - 1
        BY <1>1, <1>3, RemoveClientType
    <2>. QED BY <1>2, <2>1, <2>2
<1>. QED BY <1>4, <1>5

LEMMA MovePlaces ==
    ASSUME TypeOK, PlacesInv, NEW lb \in [LobbyIds -> LobbyRec], Alike(lb),
           NEW n, NEW c \in Clients, NEW C \in ClientRec, C.up,
           NEW r \in LobbyIds, client[c].lobby \notin {None, r},
           r \in Games => lb[r].state # "free",
           Move(lb, n, c, C, r)
    PROVE  /\ PlacesInv'
           /\ Members(r)' = Members(r) \cup {c}
           /\ \A k : k # r => Members(k)' = Members(k) \ {c}
           /\ \A g \in Games : lb[g].state # "free" /\ Members(g) # {c} =>
                lobby'[g].state # "free"
<1>. DEFINE l == client[c].lobby
<1>1. l \in LobbyIds
    BY DEF TypeOK, ClientRec
<1>2. PICK i \in Slots :
         /\ TakesSlot(lb[r], r, i)
         /\ lobby' = [lb EXCEPT ![r] = Seated(lb, c, r, i), ![l] = Vacated(lb, c)]
         /\ client' = [client EXCEPT ![c] = Placed(C, r, i)]
    BY DEF Move
<1>3. client'[c] = Placed(C, r, i) /\ \A d \in Clients \ {c} : client'[d] = client[d]
    BY <1>2 DEF TypeOK
<1>4. client'[c].lobby = r /\ client'[c].id = i /\ client'[c].up
    BY <1>3, PlacedType DEF TypeOK
<1>5. /\ lobby'[r] = Seated(lb, c, r, i)
      /\ lobby'[l] = Vacated(lb, c)
      /\ \A k \in LobbyIds \ {r, l} : lobby'[k] = lb[k]
    BY <1>1, <1>2
<1>6. /\ lobby'[r].slot = Put(lobby[r].slot, i, c)
      /\ lobby'[r].num = lobby[r].num + 1
      /\ lobby'[r].state = lb[r].state
    <2>1. /\ Seated(lb, c, r, i).slot = Put(lb[r].slot, i, c)
          /\ Seated(lb, c, r, i).num = lb[r].num + 1
          /\ Seated(lb, c, r, i).state = lb[r].state
        BY SeatedType
    <2>2. lb[r].slot = lobby[r].slot /\ lb[r].num = lobby[r].num
        BY DEF Alike
    <2>. QED BY <1>5, <2>1, <2>2
<1>7. lobby[r].slot[i] = None
    BY <1>2 DEF TakesSlot, Alike
<1>8. /\ lobby'[l].slot = Put(lobby[l].slot, client[c].id, None)
      /\ lobby'[l].num = lobby[l].num - 1
      /\ Members(l) # {c} => lobby'[l].state = lb[l].state
    BY <1>1, <1>5, VacatedPlace
<1>9. \A k \in LobbyIds \ {r, l} :
         lobby'[k].slot = lobby[k].slot /\ lobby'[k].num = lobby[k].num
    BY <1>5 DEF Alike
<1>10. \A g \in Games : lb[g].state # "free" /\ Members(g) # {c} =>
         lobby'[g].state # "free"
    <2>1. Games \subseteq LobbyIds
        BY DEF LobbyIds
    <2>. QED BY <1>5, <1>6, <1>8, <2>1
<1>11. ASSUME NEW d \in Clients, client'[d].lobby \in Games
       PROVE  lobby'[client'[d].lobby].state # "free"
    <2>1. CASE d = c
        BY <1>4, <1>6, <1>11, <2>1
    <2>2. CASE d # c
        <3>1. client'[d] = client[d]
            BY <1>3, <2>2
        <3>2. d \in Members(client[d].lobby)
            BY DEF Members
        <3>3. lb[client[d].lobby].state # "free"
            BY <1>11, <3>1, <3>2 DEF Alike
        <3>. QED BY <1>10, <1>11, <2>2, <3>1, <3>2, <3>3
    <2>. QED BY <2>1, <2>2
<1>12. GamesHeld'
    BY <1>11 DEF GamesHeld, InGame
<1>13. r # None
    BY ConstantsAssumption
<1>. QED BY <1>3, <1>4, <1>6, <1>7, <1>8, <1>9, <1>10, <1>12, Relocated

LEMMA AddToAnyPlaces ==
    ASSUME TypeOK, PlacesInv, NEW lb \in [LobbyIds -> LobbyRec], Alike(lb),
           NEW n, NEW c \in Clients, NEW C \in ClientRec, C.up,
           client[c].lobby = None,
           AddToAny(lb, n, c, C)
    PROVE  /\ PlacesInv'
           /\ \A g \in Games : Members(g)' = Members(g)
           /\ \A g \in Games : lobby'[g] = lb[g]
<1>1. PICK r \in DefaultLobbies, i \in Slots :
         /\ TakesSlot(lb[r], r, i)
         /\ lobby' = [lb EXCEPT ![r] = Seated(lb, c, r, i)]
         /\ client' = [client EXCEPT ![c] = Placed(C, r, i)]
    BY DEF AddToAny
<1>2. r \in LobbyIds /\ r # None /\ r \notin Games /\ Games \subseteq LobbyIds
    BY ConstantsAssumption DEF LobbyIds
<1>3. client'[c] = Placed(C, r, i) /\ \A d \in Clients \ {c} : client'[d] = client[d]
    BY <1>1 DEF TypeOK
<1>4. client'[c].lobby = r /\ client'[c].id = i /\ client'[c].up
    BY <1>2, <1>3, PlacedType DEF TypeOK
<1>5. lobby'[r] = Seated(lb, c, r, i) /\ \A k \in LobbyIds \ {r} : lobby'[k] = lb[k]
    BY <1>1, <1>2
<1>6. /\ lobby'[r].slot = Put(lobby[r].slot, i, c)
      /\ lobby'[r].num = lobby[r].num + 1
    <2>1. /\ Seated(lb, c, r, i).slot = Put(lb[r].slot, i, c)
          /\ Seated(lb, c, r, i).num = lb[r].num + 1
        BY <1>2, SeatedType
    <2>2. lb[r].slot = lobby[r].slot /\ lb[r].num = lobby[r].num
        BY <1>2 DEF Alike
    <2>. QED BY <1>5, <2>1, <2>2
<1>7. lobby[r].slot[i] = None
    BY <1>1, <1>2 DEF TakesSlot, Alike
<1>8. \A k \in LobbyIds \ {r} :
         lobby'[k].slot = lobby[k].slot /\ lobby'[k].num = lobby[k].num
    BY <1>5 DEF Alike
<1>9. \A g \in Games : lobby'[g] = lb[g]
    BY <1>2, <1>5
<1>10. ASSUME NEW d \in Clients, client'[d].lobby \in Games
       PROVE  lobby'[client'[d].lobby].state # "free"
    <2>1. d # c
        BY <1>2, <1>4, <1>10
    <2>2. client'[d] = client[d] /\ d \in Members(client[d].lobby)
        BY <1>3, <2>1 DEF Members
    <2>. QED BY <1>9, <1>10, <2>2 DEF Alike
<1>11. GamesHeld'
    BY <1>10 DEF GamesHeld, InGame
<1>12. PlacesInv' /\ \A k : k # r => Members(k)' = Members(k) \ {c}
    BY <1>2, <1>3, <1>4, <1>6, <1>7, <1>8, <1>11, Relocated
<1>13. \A g \in Games : Members(g)' = Members(g)
    <2>1. \A g \in Games : c \notin Members(g)
        BY ConstantsAssumption DEF Members, LobbyIds
    <2>. QED BY <1>2, <1>12, <2>1
<1>. QED BY <1>9, <1>12, <1>13

LEMMA RemovePlayerPlaces ==
    ASSUME TypeOK, PlacesInv, NEW c \in Clients, client[c].lobby # None,
           RemovePlayer(c),
           client'[c].lobby = None,
           \A d \in Clients \ {c} : client'[d] = client[d]
    PROVE  /\ PlacesInv'
           /\ \A g \in Games : Members(g)' = Members(g) \ {c}
           /\ \A g \in Games : lobby[g].state # "free" /\ Members(g) # {c} =>
                lobby'[g].state # "free"
<1>. DEFINE l  == client[c].lobby
            lb == IF client[c].bursting
                    THEN [lobby EXCEPT ![l] = EndBurst(lobby[l])]
                    ELSE lobby
<1>1. l \in LobbyIds /\ lobby \in [LobbyIds -> LobbyRec] /\ Games \subseteq LobbyIds
    BY DEF TypeOK, ClientRec, LobbyIds
<1>2. /\ EndBurst(lobby[l]) \in LobbyRec
      /\ EndBurst(lobby[l]).slot = lobby[l].slot
      /\ EndBurst(lobby[l]).num = lobby[l].num
      /\ EndBurst(lobby[l]).state = lobby[l].state
    BY <1>1, EndBurstType
<1>3. /\ lb \in [LobbyIds -> LobbyRec]
      /\ \A k \in LobbyIds : /\ lb[k].slot = lobby[k].slot
                             /\ lb[k].num = lobby[k].num
                             /\ lb[k].state = lobby[k].state
    BY <1>1, <1>2
<1>4. lobby' = [lb EXCEPT ![l] = Vacated(lb, c)]
    BY DEF RemovePlayer
<1>. HIDE DEF lb
<1>5. Alike(lb)
    <2>1. ASSUME NEW g \in Games, Members(g) # {} PROVE lb[g].state # "free"
        <3>1. PICK d \in Clients : client[d].lobby = g
            BY <2>1 DEF Members
        <3>. QED BY <1>1, <1>3, <3>1 DEF PlacesInv, GamesHeld, InGame
    <2>. QED BY <1>3, <2>1 DEF Alike
<1>6. lobby'[l] = Vacated(lb, c) /\ \A k \in LobbyIds \ {l} : lobby'[k] = lb[k]
    BY <1>1, <1>3, <1>4
<1>7. /\ lobby'[l].slot = Put(lobby[l].slot, client[c].id, None)
      /\ lobby'[l].num = lobby[l].num - 1
      /\ Members(l) # {c} => lobby'[l].state = lobby[l].state
    <2>1. lb \in [LobbyIds -> LobbyRec] /\ lb[l].state = lobby[l].state
        BY <1>1, <1>3
    <2>. QED BY <1>1, <1>5, <1>6, <2>1, VacatedPlace
<1>8. \A k \in LobbyIds \ {l} : /\ lobby'[k].slot = lobby[k].slot
                                /\ lobby'[k].num = lobby[k].num
                                /\ lobby'[k].state = lobby[k].state
    BY <1>3, <1>6
<1>9. \A g \in Games : lobby[g].state # "free" /\ Members(g) # {c} =>
        lobby'[g].state # "free"
    BY <1>1, <1>7, <1>8
<1>10. ASSUME NEW d \in Clients, client'[d].lobby \in Games
       PROVE  lobby'[client'[d].lobby].state # "free"
    <2>1. d # c
        BY <1>10, ConstantsAssumption DEF LobbyIds
    <2>2. client'[d] = client[d] /\ d \in Members(client[d].lobby)
        BY <2>1 DEF Members
    <2>3. lobby[client[d].lobby].state # "free"
        BY <1>10, <2>2 DEF PlacesInv, GamesHeld, InGame
    <2>. QED BY <1>9, <1>10, <2>1, <2>2, <2>3
<1>11. GamesHeld'
    BY <1>10 DEF GamesHeld, InGame
<1>12. 0 \in Slots
    BY SlotZero
<1>13. PlacesInv' /\ \A k : k # None => Members(k)' = Members(k) \ {c}
    BY <1>7, <1>8, <1>11, <1>12, Relocated
<1>14. \A g \in Games : g # None
    BY ConstantsAssumption DEF LobbyIds
<1>. QED BY <1>9, <1>13, <1>14

\* A client joins the game g it has just created, or does not.
LEMMA JoinNewPlaces ==
    ASSUME TypeOK, PlacesInv, NEW lb \in [LobbyIds -> LobbyRec], Alike(lb),
           NEW n, NEW c \in Clients, client[c].up,
           NEW g \in Games, Members(g) = {}, lb[g].state # "free",
           NEW ok \in ClientRec, NEW failed \in ClientRec,
           \A C \in {ok, failed} : /\ C.up
                                   /\ C.lobby = client[c].lobby
                                   /\ C.id = client[c].id,
           JoinNew(lb, n, c, g, ok, failed)
    PROVE  /\ PlacesInv'
           /\ \A h \in Games \ {g} : Members(h)' \subseteq Members(h)
           /\ \A h \in Games \ {g} :
                lb[h].state # "free" /\ Members(h) = {} => lobby'[h].state # "free"
           /\ \A d \in Clients \ {c} : client'[d] = client[d]
           /\ \E C \in {ok, failed} : /\ client'[c].menu = C.menu
                                      /\ client'[c].create = C.create
                                      /\ client'[c].up
<1>. DEFINE l == client[c].lobby
            Goal == /\ PlacesInv'
                    /\ \A h \in Games \ {g} : Members(h)' \subseteq Members(h)
                    /\ \A h \in Games \ {g} :
                         lb[h].state # "free" /\ Members(h) = {} =>
                           lobby'[h].state # "free"
                    /\ \A d \in Clients \ {c} : client'[d] = client[d]
                    /\ \E C \in {ok, failed} : /\ client'[c].menu = C.menu
                                               /\ client'[c].create = C.create
                                               /\ client'[c].up
<1>1. g \in LobbyIds /\ Games \subseteq LobbyIds /\ l # g
    BY DEF LobbyIds, Members
<1>2. client \in [Clients -> ClientRec] /\ now \in Nat
    BY DEF TypeOK
<1>3. CASE l # None /\ Move(lb, n, c, ok, g)
    <2>1. PICK i \in Slots : client' = [client EXCEPT ![c] = Placed(ok, g, i)]
        BY <1>3 DEF Move
    <2>2. /\ client'[c].menu = ok.menu
          /\ client'[c].create = ok.create
          /\ client'[c].up
          /\ \A d \in Clients \ {c} : client'[d] = client[d]
        BY <1>1, <1>2, <2>1, PlacedType
    <2>3. /\ PlacesInv'
          /\ \A k : k # g => Members(k)' = Members(k) \ {c}
          /\ \A h \in Games : lb[h].state # "free" /\ Members(h) # {c} =>
               lobby'[h].state # "free"
        <3>1. l \notin {None, g} /\ Move(lb, n, c, ok, g) /\ ok.up
            BY <1>1, <1>3
        <3>. QED BY <1>1, <3>1, MovePlaces
    <2>. QED BY <2>2, <2>3
<1>4. CASE l = None /\ AddToAny(lb, n, c, ok)
    <2>1. PICK d \in DefaultLobbies, i \in Slots :
             client' = [client EXCEPT ![c] = Placed(ok, d, i)]
        BY <1>4 DEF AddToAny
    <2>2. d \in LobbyIds
        BY DEF LobbyIds
    <2>3. /\ client'[c].menu = ok.menu
          /\ client'[c].create = ok.create
          /\ client'[c].up
          /\ \A e \in Clients \ {c} : client'[e] = client[e]
        BY <1>2, <2>1, <2>2, PlacedType
    <2>4. /\ PlacesInv'
          /\ \A h \in Games : Members(h)' = Members(h)
          /\ \A h \in Games : lobby'[h] = lb[h]
        BY <1>4, AddToAnyPlaces
    <2>. QED BY <2>3, <2>4
<1>5. CASE \E C \in {ok, failed} :
             /\ lobby' = lb \/ lobby' = [lb EXCEPT ![g] = Freed]
             /\ client' = [client EXCEPT ![c] = C]
    <2>1. PICK C \in {ok, failed} :
             /\ lobby' = lb \/ lobby' = [lb EXCEPT ![g] = Freed]
             /\ client' = [client EXCEPT ![c] = C]
        BY <1>5
    <2>2. client'[c] = C /\ \A d \in Clients \ {c} : client'[d] = client[d]
        BY <1>2, <2>1
    <2>3. \A d \in Clients :
             /\ client'[d].lobby = client[d].lobby
             /\ client[d].lobby # None => /\ client'[d].id = client[d].id
                                          /\ client'[d].up
        BY <2>2 DEF PlacesInv, SlotsAgree
    <2>4. Freed.slot = lobby[g].slot /\ Freed.num = lobby[g].num
        BY <1>1, EmptyPlace DEF Freed, Empty
    <2>5. \A h \in LobbyIds : lobby'[h] = IF lobby' # lb /\ h = g THEN Freed ELSE lb[h]
        BY <2>1
    <2>6. \A h \in LobbyIds : /\ lobby'[h].slot = lobby[h].slot
                              /\ lobby'[h].num = lobby[h].num
        BY <2>4, <2>5 DEF Alike
    <2>7. \A h \in Games : Members(h) # {} => lobby'[h].state # "free"
        BY <1>1, <2>5 DEF Alike
    <2>8. PlacesInv' /\ \A k : Members(k)' = Members(k)
        BY <2>3, <2>6, <2>7, SamePlaces
    <2>9. \A h \in Games \ {g} : lobby'[h] = lb[h]
        BY <1>1, <2>5
    <2>. QED BY <2>2, <2>8, <2>9
<1>. QED BY <1>3, <1>4, <1>5 DEF JoinNew

-----------------------------------------------------------------------------
(* The games of the open menus.                                            *)

\* S holds the games that a step enters or destroys.
LEMMA MenusUndisturbed ==
    ASSUME MenusOwnGames, NEW S,
           \A d \in Clients : client'[d].menu =>
               /\ client[d].menu
               /\ client'[d].create = client[d].create
               /\ client[d].create \notin S
               /\ client'[d].up,
           \A h \in Games \ S : Members(h)' \subseteq Members(h),
           \A h \in Games \ S : lobby[h].state # "free" /\ Members(h) = {} =>
                                  lobby'[h].state # "free"
    PROVE  MenusOwnGames'
<1> SUFFICES ASSUME NEW c \in Clients, client'[c].menu
             PROVE  /\ client'[c].up
                    /\ client'[c].create \in Games
                    /\ lobby'[client'[c].create].state # "free"
                    /\ {d \in Clients : client'[d].lobby = client'[c].create} = {}
                    /\ \A d \in Clients \ {c} :
                         client'[d].menu => client'[d].create # client'[c].create
    BY DEF MenusOwnGames, Members
<1>1. /\ client[c].menu
      /\ client'[c].create = client[c].create
      /\ client[c].create \notin S
      /\ client'[c].up
    OBVIOUS
<1>2. /\ client[c].create \in Games
      /\ lobby[client[c].create].state # "free"
      /\ Members(client[c].create) = {}
      /\ \A d \in Clients \ {c} :
           client[d].menu => client[d].create # client[c].create
    BY <1>1 DEF MenusOwnGames
<1>3. {d \in Clients : client'[d].lobby = client'[c].create} \subseteq
        Members(client[c].create)
    BY <1>1, <1>2 DEF Members
<1>. QED BY <1>1, <1>2, <1>3

\* M is L with other flags: the same clients in the same slots.
SamePlace(L, M) == M.slot = L.slot /\ M.num = L.num /\ M.state = L.state

LEMMA FlagsSame ==
    ASSUME NEW L \in LobbyRec
    PROVE  /\ \A b \in BOOLEAN :
                /\ SamePlace(L, [L EXCEPT !.bursting = b])
                /\ SamePlace(L, [L EXCEPT !.questsel = b])
                /\ SamePlace(L, [L EXCEPT !.gcOK = b])
           /\ \A v : SamePlace(L, [L EXCEPT !.ver = v])
           /\ LET M == [L EXCEPT !.state = "listed"]
              IN  M.slot = L.slot /\ M.num = L.num /\ M.state = "listed"
           /\ \A j \in BOOLEAN :
                SamePlace(L, [L EXCEPT !.questing = TRUE, !.questsel = FALSE,
                                       !.joinable = j])
           /\ \A c \in Clients : SamePlace(L, Enqueue(L, c))
           /\ SamePlace(L, EndBurst(L))
           /\ SamePlace(L, L)
BY DEF SamePlace, LobbyRec, Enqueue, EndBurst

\* A step that changes neither places nor menus.
LEMMA FlagsOnly ==
    ASSUME TypeOK, PlacesInv, MenusOwnGames,
           \A k \in LobbyIds : /\ lobby'[k].slot = lobby[k].slot
                               /\ lobby'[k].num = lobby[k].num
                               /\ lobby[k].state # "free" => lobby'[k].state # "free",
           \A d \in Clients : /\ client'[d].lobby = client[d].lobby
                              /\ client'[d].id = client[d].id
                              /\ client'[d].up = client[d].up
                              /\ client'[d].menu = client[d].menu
                              /\ client'[d].create = client[d].create
    PROVE  PlacesInv' /\ MenusOwnGames'
<1>1. Games \subseteq LobbyIds
    BY DEF LobbyIds
<1>2. \A g \in Games : Members(g) # {} => lobby'[g].state # "free"
    BY <1>1 DEF PlacesInv, GamesHeld, Members, InGame
<1>3. \A d \in Clients : client[d].lobby # None => client'[d].up
    BY DEF PlacesInv, SlotsAgree
<1>4. PlacesInv' /\ \A k : Members(k)' = Members(k)
    BY <1>2, <1>3, SamePlaces
<1>. DEFINE S == {}
<1>5. \A d \in Clients : client'[d].menu =>
         /\ client[d].menu
         /\ client'[d].create = client[d].create
         /\ client[d].create \notin S
         /\ client'[d].up
    BY DEF MenusOwnGames
<1>. HIDE DEF S
<1>6. \A h \in Games : lobby[h].state # "free" => lobby'[h].state # "free"
    BY <1>1
<1>7. MenusOwnGames'
    BY <1>4, <1>5, <1>6, MenusUndisturbed
<1>. QED BY <1>4, <1>7

\* A client joins the game it has just created, and closes its menu if that
\* was the menu for this game.
LEMMA JoinNewKeeps ==
    ASSUME TypeOK, PlacesInv, MenusOwnGames,
           NEW lb \in [LobbyIds -> LobbyRec], Alike(lb),
           NEW n, NEW c \in Clients, client[c].up,
           NEW g \in Games, Members(g) = {}, lb[g].state # "free",
           \A h \in Games : lobby[h].state # "free" => lb[h].state # "free",
           \A d \in Clients \ {c} : client[d].menu => client[d].create # g,
           NEW ok \in ClientRec, NEW failed \in ClientRec,
           \A C \in {ok, failed} : /\ C.up
                                   /\ C.lobby = client[c].lobby
                                   /\ C.id = client[c].id
                                   /\ C.menu => /\ client[c].menu
                                                /\ C.create = client[c].create
                                                /\ C.create # g,
           JoinNew(lb, n, c, g, ok, failed)
    PROVE  PlacesInv' /\ MenusOwnGames'
<1>1. /\ PlacesInv'
      /\ \A h \in Games \ {g} : Members(h)' \subseteq Members(h)
      /\ \A h \in Games \ {g} :
           lb[h].state # "free" /\ Members(h) = {} => lobby'[h].state # "free"
      /\ \A d \in Clients \ {c} : client'[d] = client[d]
      /\ \E C \in {ok, failed} : /\ client'[c].menu = C.menu
                                 /\ client'[c].create = C.create
                                 /\ client'[c].up
    <2>1. \A C \in {ok, failed} : /\ C.up
                                  /\ C.lobby = client[c].lobby
                                  /\ C.id = client[c].id
        OBVIOUS
    <2>. QED BY <2>1, JoinNewPlaces
<1>. DEFINE S == {g}
<1>2. \A d \in Clients : client'[d].menu =>
         /\ client[d].menu
         /\ client'[d].create = client[d].create
         /\ client[d].create \notin S
         /\ client'[d].up
    BY <1>1 DEF MenusOwnGames
<1>3. \A h \in Games \ S : Members(h)' \subseteq Members(h)
    BY <1>1
<1>4. \A h \in Games \ S : lobby[h].state # "free" /\ Members(h) = {} =>
         lobby'[h].state # "free"
    BY <1>1
<1>. HIDE DEF S
<1>5. MenusOwnGames'
    BY <1>2, <1>3, <1>4, MenusUndisturbed
<1>. QED BY <1>1, <1>5

-----------------------------------------------------------------------------
(* Every action keeps the invariant.                                       *)

LEMMA AlikeSelf ==
    ASSUME TypeOK, PlacesInv
    PROVE  Alike(lobby)
<1>1. \A g \in Games : Members(g) # {} => lobby[g].state # "free"
    BY DEF PlacesInv, GamesHeld, InGame, Members
<1>. QED BY <1>1 DEF Alike

\* lobby_create_game: nobody is in a freed game, so a new one in its place
\* has the right slots.
LEMMA AlikeNew ==
    ASSUME TypeOK, PlacesInv, NEW g \in Games, lobby[g].state = "free",
           NEW c \in Clients, NEW st \in {"pending", "listed"}
    PROVE  LET lb == [lobby EXCEPT ![g] = NewGame(c, st)]
           IN  /\ Members(g) = {}
               /\ lb \in [LobbyIds -> LobbyRec]
               /\ Alike(lb)
               /\ lb[g].state # "free"
               /\ \A h \in Games : lobby[h].state # "free" => lb[h].state # "free"
<1>. DEFINE lb == [lobby EXCEPT ![g] = NewGame(c, st)]
<1>1. Games \subseteq LobbyIds /\ lobby \in [LobbyIds -> LobbyRec]
    BY DEF LobbyIds, TypeOK
<1>2. Members(g) = {}
    BY DEF PlacesInv, GamesHeld, InGame, Members
<1>3. lobby[g].slot = [i \in Slots |-> None] /\ lobby[g].num = 0
    BY <1>1, <1>2, EmptyPlace
<1>4. /\ NewGame(c, st).slot = [i \in Slots |-> None]
      /\ NewGame(c, st).num = 0
      /\ NewGame(c, st).state = st
    BY DEF NewGame, Empty
<1>5. lb \in [LobbyIds -> LobbyRec]
    BY <1>1, NewGameType
<1>6. lb[g] = NewGame(c, st) /\ \A k \in LobbyIds \ {g} : lb[k] = lobby[k]
    BY <1>1
<1>. HIDE DEF lb
<1>7. \A k \in LobbyIds : lb[k].slot = lobby[k].slot /\ lb[k].num = lobby[k].num
    BY <1>3, <1>4, <1>6
<1>8. \A h \in Games : lobby[h].state # "free" => lb[h].state # "free"
    BY <1>1, <1>4, <1>6
<1>9. lb[g].state # "free"
    BY <1>4, <1>6
<1>10. Alike(lb)
    <2>1. \A h \in Games : Members(h) # {} => lobby[h].state # "free"
        BY AlikeSelf DEF Alike
    <2>. QED BY <1>7, <1>8, <2>1 DEF Alike
<1>. QED BY <1>2, <1>5, <1>8, <1>9, <1>10 DEF lb

LEMMA InitInv == Init => IInv
<1> SUFFICES ASSUME Init PROVE IInv
    OBVIOUS
<1>1. TypeOK
    BY TypeInit
<1>2. None \notin LobbyIds /\ None \notin Clients
    BY ConstantsAssumption
<1>3. \A c \in Clients : client[c].lobby = None /\ ~client[c].menu
    BY DEF Init, Fresh
<1>4. \A l \in LobbyIds : Members(l) = {}
    BY <1>2, <1>3 DEF Members
<1>5. \A l \in LobbyIds : lobby[l].slot = [i \in Slots |-> None] /\ lobby[l].num = 0
    BY DEF Init, Freed, Empty
<1>6. SlotsAgree
    BY <1>2, <1>3, <1>5 DEF SlotsAgree
<1>7. NumsAgree
    BY <1>4, <1>5, FS_EmptySet DEF NumsAgree
<1>8. GamesHeld /\ MenusOwnGames
    BY <1>2, <1>3 DEF GamesHeld, MenusOwnGames, InGame, LobbyIds
<1>. QED BY <1>1, <1>6, <1>7, <1>8 DEF IInv, PlacesInv

LEMMA ConnectKeeps ==
    ASSUME TypeOK, PlacesInv, MenusOwnGames, NEW c \in Clients, Connect(c)
    PROVE  PlacesInv' /\ MenusOwnGames'
<1>1. /\ ~client[c].up
      /\ client' = [client EXCEPT ![c] = Fresh(TRUE)]
      /\ lobby' = lobby
    BY DEF Connect
<1>2. client'[c] = Fresh(TRUE) /\ \A d \in Clients \ {c} : client'[d] = client[d]
    BY <1>1 DEF TypeOK
<1>3. Fresh(TRUE).lobby = None /\ ~Fresh(TRUE).menu
    BY DEF Fresh
<1>4. client[c].lobby = None
    BY <1>1 DEF PlacesInv, SlotsAgree
<1>5. \A d \in Clients :
         /\ client'[d].lobby = client[d].lobby
         /\ client[d].lobby # None => client'[d].id = client[d].id /\ client'[d].up
    BY <1>2, <1>3, <1>4 DEF PlacesInv, SlotsAgree
<1>6. \A g \in Games : Members(g) # {} => lobby'[g].state # "free"
    BY <1>1, AlikeSelf DEF Alike
<1>7. PlacesInv' /\ \A l : Members(l)' = Members(l)
    BY <1>1, <1>5, <1>6, SamePlaces
<1>. DEFINE S == {}
<1>8. \A d \in Clients : client'[d].menu =>
         /\ client[d].menu
         /\ client'[d].create = client[d].create
         /\ client[d].create \notin S
         /\ client'[d].up
    BY <1>2, <1>3 DEF MenusOwnGames
<1>. HIDE DEF S
<1>9. MenusOwnGames'
    BY <1>1, <1>7, <1>8, MenusUndisturbed
<1>. QED BY <1>7, <1>9

\* A client leaves the lobby it is in; C is its record afterwards.
LEMMA LeaveKeeps ==
    ASSUME TypeOK, PlacesInv, MenusOwnGames, NEW c \in Clients,
           client[c].lobby # None, RemovePlayer(c),
           NEW C, client' = [client EXCEPT ![c] = C], C.lobby = None,
           C.menu => client[c].menu /\ C.create = client[c].create /\ C.up
    PROVE  PlacesInv' /\ MenusOwnGames'
<1>1. client'[c] = C /\ \A d \in Clients \ {c} : client'[d] = client[d]
    BY DEF TypeOK
<1>2. /\ PlacesInv'
      /\ \A g \in Games : Members(g)' = Members(g) \ {c}
      /\ \A g \in Games : lobby[g].state # "free" /\ Members(g) # {c} =>
           lobby'[g].state # "free"
    BY <1>1, RemovePlayerPlaces
<1>. DEFINE S == {}
<1>3. \A d \in Clients : client'[d].menu =>
         /\ client[d].menu
         /\ client'[d].create = client[d].create
         /\ client[d].create \notin S
         /\ client'[d].up
    BY <1>1 DEF MenusOwnGames
<1>4. \A h \in Games \ S : Members(h)' \subseteq Members(h)
    BY <1>2
<1>5. \A h \in Games \ S : lobby[h].state # "free" /\ Members(h) = {} =>
         lobby'[h].state # "free"
    BY <1>2
<1>. HIDE DEF S
<1>6. MenusOwnGames'
    BY <1>3, <1>4, <1>5, MenusUndisturbed
<1>. QED BY <1>2, <1>6

LEMMA DropKeeps ==
    ASSUME TypeOK, PlacesInv, MenusOwnGames, NEW c \in Clients, Drop(c)
    PROVE  PlacesInv' /\ MenusOwnGames'
<1>1. client' = [client EXCEPT ![c] = Fresh(FALSE)]
    BY DEF Drop
<1>2. Fresh(FALSE).lobby = None /\ ~Fresh(FALSE).menu
    BY DEF Fresh
<1>3. CASE client[c].lobby # None
    <2>1. RemovePlayer(c)
        BY <1>3 DEF Drop
    <2>. QED BY <1>1, <1>2, <1>3, <2>1, LeaveKeeps
<1>4. CASE client[c].lobby = None
    <2>1. lobby' = lobby
        BY <1>4 DEF Drop
    <2>2. client'[c] = Fresh(FALSE) /\ \A d \in Clients \ {c} : client'[d] = client[d]
        BY <1>1 DEF TypeOK
    <2>3. \A d \in Clients :
             /\ client'[d].lobby = client[d].lobby
             /\ client[d].lobby # None => client'[d].id = client[d].id /\ client'[d].up
        BY <1>2, <1>4, <2>2 DEF PlacesInv, SlotsAgree
    <2>4. \A g \in Games : Members(g) # {} => lobby'[g].state # "free"
        BY <2>1, AlikeSelf DEF Alike
    <2>5. PlacesInv' /\ \A l : Members(l)' = Members(l)
        BY <2>1, <2>3, <2>4, SamePlaces
    <2>. DEFINE S == {}
    <2>6. \A d \in Clients : client'[d].menu =>
             /\ client[d].menu
             /\ client'[d].create = client[d].create
             /\ client[d].create \notin S
             /\ client'[d].up
        BY <1>2, <2>2 DEF MenusOwnGames
    <2>. HIDE DEF S
    <2>7. MenusOwnGames'
        BY <2>1, <2>5, <2>6, MenusUndisturbed
    <2>. QED BY <2>5, <2>7
<1>. QED BY <1>3, <1>4

\* A client goes to a lobby that is listed and whose creator is not in the
\* menus any more.
LEMMA MoveKeeps ==
    ASSUME TypeOK, PlacesInv, MenusOwnGames, NEW c \in Clients,
           NEW r \in LobbyIds, client[c].lobby \notin {None, r},
           r \in Listed, Settled(r),
           Move(lobby, numGames, c, client[c], r)
    PROVE  PlacesInv' /\ MenusOwnGames'
<1>1. client[c] \in ClientRec /\ client[c].up /\ lobby \in [LobbyIds -> LobbyRec]
    BY DEF TypeOK, PlacesInv, SlotsAgree
<1>2. lobby[r].state # "free"
    BY DEF Listed
<1>3. /\ PlacesInv'
      /\ \A k : k # r => Members(k)' = Members(k) \ {c}
      /\ \A g \in Games : lobby[g].state # "free" /\ Members(g) # {c} =>
           lobby'[g].state # "free"
    <2>1. Alike(lobby) /\ (r \in Games => lobby[r].state # "free")
        BY <1>2, AlikeSelf
    <2>2. client[c].lobby \notin {None, r} /\ Move(lobby, numGames, c, client[c], r)
        OBVIOUS
    <2>3. /\ PlacesInv'
          /\ Members(r)' = Members(r) \cup {c}
          /\ \A k : k # r => Members(k)' = Members(k) \ {c}
          /\ \A g \in Games : lobby[g].state # "free" /\ Members(g) # {c} =>
               lobby'[g].state # "free"
        BY <1>1, <2>1, <2>2, MovePlaces
    <2>. QED BY <2>3
<1>4. PICK i \in Slots : client' = [client EXCEPT ![c] = Placed(client[c], r, i)]
    BY DEF Move
<1>5. /\ client'[c].menu = client[c].menu
      /\ client'[c].create = client[c].create
      /\ client'[c].up
      /\ \A d \in Clients \ {c} : client'[d] = client[d]
    BY <1>1, <1>4, PlacedType DEF TypeOK
<1>. DEFINE S == {r}
<1>6. \A d \in Clients : client'[d].menu =>
         /\ client[d].menu
         /\ client'[d].create = client[d].create
         /\ client[d].create \notin S
         /\ client'[d].up
    BY <1>5 DEF MenusOwnGames, Settled
<1>7. \A h \in Games \ S : Members(h)' \subseteq Members(h)
    BY <1>3
<1>8. \A h \in Games \ S : lobby[h].state # "free" /\ Members(h) = {} =>
         lobby'[h].state # "free"
    BY <1>3
<1>. HIDE DEF S
<1>9. MenusOwnGames'
    BY <1>6, <1>7, <1>8, MenusUndisturbed
<1>. QED BY <1>3, <1>9

LEMMA EnterKeeps ==
    ASSUME TypeOK, PlacesInv, MenusOwnGames, NEW c \in Clients, EnterLobby(c)
    PROVE  PlacesInv' /\ MenusOwnGames'
<1>1. /\ client[c].up
      /\ client[c].lobby = None
      /\ AddToAny(lobby, numGames, c, client[c])
    BY DEF EnterLobby
<1>2. client[c] \in ClientRec /\ lobby \in [LobbyIds -> LobbyRec]
    BY DEF TypeOK
<1>3. /\ PlacesInv'
      /\ \A g \in Games : Members(g)' = Members(g)
      /\ \A g \in Games : lobby'[g] = lobby[g]
    BY <1>1, <1>2, AlikeSelf, AddToAnyPlaces
<1>4. PICK d \in DefaultLobbies, i \in Slots :
         client' = [client EXCEPT ![c] = Placed(client[c], d, i)]
    BY <1>1 DEF AddToAny
<1>5. /\ client'[c].menu = client[c].menu
      /\ client'[c].create = client[c].create
      /\ client'[c].up
      /\ \A e \in Clients \ {c} : client'[e] = client[e]
    BY <1>1, <1>2, <1>4, PlacedType DEF TypeOK, LobbyIds
<1>. DEFINE S == {}
<1>6. \A e \in Clients : client'[e].menu =>
         /\ client[e].menu
         /\ client'[e].create = client[e].create
         /\ client[e].create \notin S
         /\ client'[e].up
    BY <1>5 DEF MenusOwnGames
<1>. HIDE DEF S
<1>7. MenusOwnGames'
    BY <1>3, <1>6, MenusUndisturbed
<1>. QED BY <1>3, <1>7

LEMMA MovesKeep ==
    ASSUME ~JoinPending, TypeOK, PlacesInv, MenusOwnGames, NEW c \in Clients,
           Moves(c)
    PROVE  PlacesInv' /\ MenusOwnGames'
<1>1. CASE EnterLobby(c)
    BY <1>1, EnterKeeps
<1>2. CASE LeaveGame(c)
    <2>. DEFINE C == [client[c] EXCEPT !.lobby = None, !.id = 0, !.held = FALSE,
                                       !.browsing = FALSE]
    <2>1. client[c].lobby # None /\ RemovePlayer(c)
        BY <1>2 DEF LeaveGame
    <2>2. client' = [client EXCEPT ![c] = C]
        BY <1>2 DEF LeaveGame
    <2>3. client[c] \in ClientRec /\ client[c].up
        BY <2>1 DEF TypeOK, PlacesInv, SlotsAgree
    <2>4. /\ C.lobby = None
          /\ C.menu = client[c].menu
          /\ C.create = client[c].create
          /\ C.up = client[c].up
        BY <2>3 DEF ClientRec
    <2>. HIDE DEF C
    <2>. QED BY <2>1, <2>2, <2>3, <2>4, LeaveKeeps
<1>3. ASSUME NEW r \in LobbyIds, ChangeLobby(c, r)
      PROVE  PlacesInv' /\ MenusOwnGames'
    <2>1. /\ client[c].lobby \notin {None, r}
          /\ r \in Listed
          /\ Settled(r)
          /\ Move(lobby, numGames, c, client[c], r)
        BY <1>3 DEF ChangeLobby
    <2>. QED BY <2>1, MoveKeeps
<1>4. ASSUME NEW g \in Games, SelectGame(c, g)
      PROVE  PlacesInv' /\ MenusOwnGames'
    <2>1. /\ client[c].lobby \notin {None, g}
          /\ g \in Listed
          /\ Settled(g)
          /\ Move(lobby, numGames, c, client[c], g)
        BY <1>4 DEF SelectGame
    <2>2. g \in LobbyIds
        BY DEF LobbyIds
    <2>. QED BY <2>1, <2>2, MoveKeeps
<1>5. CASE RejoinGame(c)
    <2>. DEFINE l == client[c].lobby
    <2>1. /\ lobby' = [lobby EXCEPT ![l].bursting = TRUE]
          /\ client' = [client EXCEPT ![c].bursting = TRUE]
        BY <1>5 DEF RejoinGame, Rejoin
    <2>2. \A k \in LobbyIds : /\ lobby'[k].slot = lobby[k].slot
                              /\ lobby'[k].num = lobby[k].num
                              /\ lobby'[k].state = lobby[k].state
        BY <2>1 DEF TypeOK, LobbyRec
    <2>3. \A d \in Clients : /\ client'[d].lobby = client[d].lobby
                             /\ client'[d].id = client[d].id
                             /\ client'[d].up = client[d].up
                             /\ client'[d].menu = client[d].menu
                             /\ client'[d].create = client[d].create
        BY <2>1 DEF TypeOK, ClientRec
    <2>. QED BY <2>2, <2>3, FlagsOnly
<1>. QED BY <1>1, <1>2, <1>3, <1>4, <1>5 DEF Moves

\* The open menu's game has no members yet, so its creator is not in it.
LEMMA DropJoins ==
    ASSUME OpenMenus, TypeOK, MenusOwnGames, NEW c \in Clients, ChooseDrop(c)
    PROVE  /\ client[c].menu
           /\ JoinNew(lobby, numGames, c, client[c].create,
                      [client[c] EXCEPT !.create = None, !.menu = FALSE],
                      [client[c] EXCEPT !.menu = FALSE])
<1>1. client[c].menu
    BY DEF ChooseDrop, Answers
<1>2. client[c].lobby # client[c].create
    BY <1>1 DEF MenusOwnGames, Members
<1>. QED BY <1>1, <1>2 DEF ChooseDrop

LEMMA CreatesKeep ==
    ASSUME OpenMenus, TypeOK, PlacesInv, MenusOwnGames, NEW c \in Clients, Creates(c)
    PROVE  PlacesInv' /\ MenusOwnGames'
<1>a. /\ lobby \in [LobbyIds -> LobbyRec]
      /\ client \in [Clients -> ClientRec]
      /\ client[c] \in ClientRec
      /\ Games \subseteq LobbyIds
    BY DEF TypeOK, LobbyIds
<1>b. Alike(lobby)
    BY AlikeSelf
<1>c. client[c].menu =>
        /\ client[c].up
        /\ client[c].create \in Games
        /\ lobby[client[c].create].state # "free"
        /\ Members(client[c].create) = {}
        /\ \A d \in Clients \ {c} :
             client[d].menu => client[d].create # client[c].create
    BY DEF MenusOwnGames
<1>1. ASSUME NEW g \in Games, CreateGame(c, g)
      PROVE  PlacesInv' /\ MenusOwnGames'
    <2>. DEFINE lb == [lobby EXCEPT ![g] = NewGame(c, "listed")]
    <2>1. /\ client[c].up
          /\ lobby[g].state = "free"
          /\ JoinNew(lb, numGames + 1, c, g, client[c], client[c])
        BY <1>1 DEF CreateGame, MayCreate
    <2>2. /\ Members(g) = {}
          /\ lb \in [LobbyIds -> LobbyRec]
          /\ Alike(lb)
          /\ lb[g].state # "free"
          /\ \A h \in Games : lobby[h].state # "free" => lb[h].state # "free"
        BY <2>1, AlikeNew
    <2>3. \A d \in Clients : client[d].menu => client[d].create # g
        BY <2>1 DEF MenusOwnGames
    <2>. HIDE DEF lb
    <2>. DEFINE C == client[c]
    <2>4. \A D \in {C, C} : /\ D.up
                            /\ D.lobby = client[c].lobby
                            /\ D.id = client[c].id
                            /\ D.menu => /\ client[c].menu
                                         /\ D.create = client[c].create
                                         /\ D.create # g
        BY <2>1, <2>3
    <2>. QED BY <1>a, <2>1, <2>2, <2>3, <2>4, JoinNewKeeps
<1>2. ASSUME NEW g \in Games, CreatePending(c, g)
      PROVE  PlacesInv' /\ MenusOwnGames'
    <2>. DEFINE C == [client[c] EXCEPT !.create = g, !.menu = TRUE]
    <2>1. /\ client[c].up
          /\ lobby[g].state = "free"
          /\ client' = [client EXCEPT ![c] = C]
        BY <1>2 DEF CreatePending, MayCreate
    <2>2. /\ C.create = g /\ C.menu
          /\ C.lobby = client[c].lobby /\ C.id = client[c].id /\ C.up = client[c].up
        BY <1>a DEF ClientRec
    <2>3. PICK st \in {"pending", "listed"} :
             lobby' = [lobby EXCEPT ![g] = NewGame(c, st)]
        BY <1>2 DEF CreatePending
    <2>. DEFINE lb == [lobby EXCEPT ![g] = NewGame(c, st)]
    <2>4. /\ Members(g) = {}
          /\ Alike(lb)
          /\ lb[g].state # "free"
          /\ \A h \in Games : lobby[h].state # "free" => lb[h].state # "free"
        BY <2>1, AlikeNew
    <2>. HIDE DEF C
    <2>5. client'[c] = C /\ \A d \in Clients \ {c} : client'[d] = client[d]
        BY <1>a, <2>1
    <2>6. lobby' = lb
        BY <2>3
    <2>. HIDE DEF lb
    <2>7. \A d \in Clients :
             /\ client'[d].lobby = client[d].lobby
             /\ client[d].lobby # None => client'[d].id = client[d].id /\ client'[d].up
        BY <2>1, <2>2, <2>5 DEF PlacesInv, SlotsAgree
    <2>8. PlacesInv' /\ \A k : Members(k)' = Members(k)
        <3>1. \A k \in LobbyIds : /\ lobby'[k].slot = lobby[k].slot
                                  /\ lobby'[k].num = lobby[k].num
            BY <2>4, <2>6 DEF Alike
        <3>2. \A h \in Games : Members(h) # {} => lobby'[h].state # "free"
            BY <2>4, <2>6 DEF Alike
        <3>. QED BY <2>7, <3>1, <3>2, SamePlaces
    <2>9. \A k : {e \in Clients : client'[e].lobby = k} = Members(k)
        BY <2>8 DEF Members
    <2>10. \A d \in Clients : client[d].menu =>
              /\ client[d].up
              /\ client[d].create \in Games
              /\ lobby'[client[d].create].state # "free"
              /\ Members(client[d].create) = {}
              /\ client[d].create # g
        BY <2>1, <2>4, <2>6 DEF MenusOwnGames
    <2>11. ASSUME NEW e \in Clients, client'[e].menu
           PROVE  /\ client'[e].up
                  /\ client'[e].create \in Games
                  /\ lobby'[client'[e].create].state # "free"
                  /\ {d \in Clients : client'[d].lobby = client'[e].create} = {}
                  /\ \A d \in Clients \ {e} :
                       client'[d].menu => client'[d].create # client'[e].create
        <3>1. CASE e = c
            <4>1. client'[e] = C /\ client'[e].create = g
                BY <2>2, <2>5, <3>1
            <4>2. {d \in Clients : client'[d].lobby = g} = {}
                BY <2>4, <2>9
            <4>3. \A d \in Clients \ {e} : client'[d].menu => client'[d].create # g
                BY <2>5, <2>10, <3>1
            <4>. QED BY <2>1, <2>2, <2>4, <2>6, <4>1, <4>2, <4>3
        <3>2. CASE e # c
            <4>1. client'[e] = client[e]
                BY <2>5, <3>2
            <4>2. \A d \in Clients \ {e} :
                     client[d].menu => client[d].create # client[e].create
                BY <2>11, <4>1 DEF MenusOwnGames
            <4>3. \A d \in Clients \ {e} :
                     client'[d].menu => client'[d].create # client'[e].create
                BY <2>2, <2>5, <2>10, <2>11, <4>1, <4>2
            <4>. QED BY <2>9, <2>10, <2>11, <4>1, <4>3
        <3>. QED BY <3>1, <3>2
    <2>12. MenusOwnGames'
        BY <2>11 DEF MenusOwnGames, Members
    <2>. QED BY <2>8, <2>12
<1>. DEFINE g == client[c].create
<1>3. CASE ChooseType(c)
    <2>. DEFINE lb     == [lobby EXCEPT ![g] = [lobby[g] EXCEPT !.state = "listed"]]
                closed == [client[c] EXCEPT !.create = None, !.menu = FALSE]
    <2>1. client[c].menu /\ JoinNew(lb, numGames + 1, c, g, closed, closed)
        BY <1>3 DEF ChooseType
    <2>2. g \in Games /\ g \in LobbyIds
        BY <1>a, <1>c, <2>1
    <2>. DEFINE L == [lobby[g] EXCEPT !.state = "listed"]
    <2>3. /\ L \in LobbyRec
          /\ L.slot = lobby[g].slot
          /\ L.num = lobby[g].num
          /\ L.state = "listed"
        <3>1. lobby[g] \in LobbyRec
            BY <1>a, <2>2
        <3>. QED BY <3>1, FlagsType, FlagsSame DEF SamePlace
    <2>. HIDE DEF L
    <2>4. lb \in [LobbyIds -> LobbyRec] /\ lb = [lobby EXCEPT ![g] = L]
        BY <1>a, <2>3 DEF L
    <2>5. \A k \in LobbyIds : lb[k] = IF k = g THEN L ELSE lobby[k]
        BY <1>a, <2>4
    <2>6. closed \in ClientRec
        BY <1>a, ClientFlagsType
    <2>7. /\ closed.up = client[c].up
          /\ closed.lobby = client[c].lobby
          /\ closed.id = client[c].id
          /\ closed.menu = FALSE
        BY <1>a DEF ClientRec
    <2>. HIDE DEF lb, closed
    <2>8. /\ Alike(lb)
          /\ lb[g].state # "free"
          /\ \A h \in Games : lobby[h].state # "free" => lb[h].state # "free"
        BY <1>a, <1>b, <2>2, <2>3, <2>5 DEF Alike
    <2>9. \A C \in {closed, closed} : /\ C.up
                                      /\ C.lobby = client[c].lobby
                                      /\ C.id = client[c].id
                                      /\ C.menu => /\ client[c].menu
                                                   /\ C.create = client[c].create
                                                   /\ C.create # g
        BY <1>c, <2>1, <2>7
    <2>10. /\ client[c].up /\ Members(g) = {}
           /\ \A d \in Clients \ {c} : client[d].menu => client[d].create # g
           /\ lb \in [LobbyIds -> LobbyRec]
        BY <1>c, <2>1, <2>4
    <2>. HIDE DEF g
    <2>. QED BY <2>1, <2>2, <2>6, <2>8, <2>9, <2>10, JoinNewKeeps
<1>4. CASE ChooseVersion(c)
    <2>1. client' = client
        BY <1>4 DEF ChooseVersion
    <2>2. \/ lobby' = [lobby EXCEPT ![g] = [lobby[g] EXCEPT !.gcOK = TRUE]]
          \/ \E v \in {"v2", "bb"} :
               lobby' = [lobby EXCEPT ![g] = [lobby[g] EXCEPT !.ver = v]]
        BY <1>4 DEF ChooseVersion
    <2>3. g \in Games
        BY <1>4, <1>c DEF ChooseVersion, Answers
    <2>4. lobby[g] \in LobbyRec
        BY <1>a, <2>3
    <2>5. \E M : SamePlace(lobby[g], M) /\ lobby' = [lobby EXCEPT ![g] = M]
        BY <2>2, <2>4, FlagsSame
    <2>6. \A k \in LobbyIds : SamePlace(lobby[k], lobby'[k])
        BY <1>a, <2>3, <2>5 DEF SamePlace
    <2>. QED BY <2>1, <2>6, FlagsOnly DEF SamePlace
<1>5. CASE ChooseDrop(c)
    <2>. DEFINE ok     == [client[c] EXCEPT !.create = None, !.menu = FALSE]
                failed == [client[c] EXCEPT !.menu = FALSE]
    <2>1. client[c].menu /\ JoinNew(lobby, numGames, c, g, ok, failed)
        BY <1>5, DropJoins
    <2>2. ok \in ClientRec /\ failed \in ClientRec
        BY <1>a, ClientFlagsType
    <2>3. \A C \in {ok, failed} : /\ C.up = client[c].up
                                  /\ C.lobby = client[c].lobby
                                  /\ C.id = client[c].id
                                  /\ C.menu = FALSE
        BY <1>a DEF ClientRec
    <2>. HIDE DEF ok, failed
    <2>4. \A C \in {ok, failed} : /\ C.up
                                  /\ C.lobby = client[c].lobby
                                  /\ C.id = client[c].id
                                  /\ C.menu => /\ client[c].menu
                                               /\ C.create = client[c].create
                                               /\ C.create # g
        BY <1>c, <2>1, <2>3
    <2>. QED BY <1>a, <1>b, <1>c, <2>1, <2>2, <2>4, JoinNewKeeps
<1>6. CASE CancelCreate(c)
    <2>. DEFINE C == [client[c] EXCEPT !.menu = FALSE]
    <2>1. /\ client[c].menu
          /\ client' = [client EXCEPT ![c] = C]
          /\ lobby' = [lobby EXCEPT ![g] = Freed]
        BY <1>6 DEF CancelCreate, Answers
    <2>2. /\ C.lobby = client[c].lobby /\ C.id = client[c].id /\ C.up = client[c].up
          /\ C.menu = FALSE
        BY <1>a DEF ClientRec
    <2>. HIDE DEF C
    <2>3. client'[c] = C /\ \A d \in Clients \ {c} : client'[d] = client[d]
        BY <1>a, <2>1
    <2>4. g \in Games /\ g \in LobbyIds /\ Members(g) = {}
        BY <1>a, <1>c, <2>1
    <2>5. Freed.slot = lobby[g].slot /\ Freed.num = lobby[g].num
        BY <2>4, EmptyPlace DEF Freed, Empty
    <2>6. \A k \in LobbyIds : lobby'[k] = IF k = g THEN Freed ELSE lobby[k]
        BY <1>a, <2>1
    <2>7. \A k \in LobbyIds : lobby'[k].slot = lobby[k].slot /\ lobby'[k].num = lobby[k].num
        BY <2>5, <2>6
    <2>8. \A h \in Games : Members(h) # {} => lobby'[h].state # "free"
        BY <1>a, <1>b, <2>4, <2>6 DEF Alike
    <2>9. \A d \in Clients :
             /\ client'[d].lobby = client[d].lobby
             /\ client[d].lobby # None => client'[d].id = client[d].id /\ client'[d].up
        BY <2>2, <2>3 DEF PlacesInv, SlotsAgree
    <2>10. PlacesInv' /\ \A k : Members(k)' = Members(k)
        BY <2>7, <2>8, <2>9, SamePlaces
    <2>. DEFINE S == {g}
    <2>11. \A d \in Clients : client'[d].menu =>
             /\ client[d].menu
             /\ client'[d].create = client[d].create
             /\ client[d].create \notin S
             /\ client'[d].up
        BY <1>c, <2>1, <2>2, <2>3 DEF MenusOwnGames
    <2>12. \A h \in Games \ S : lobby'[h] = lobby[h]
        BY <1>a, <2>6
    <2>. HIDE DEF S
    <2>13. MenusOwnGames'
        BY <2>10, <2>11, <2>12, MenusUndisturbed
    <2>. QED BY <2>10, <2>13
<1>. QED BY <1>1, <1>2, <1>3, <1>4, <1>5, <1>6 DEF Creates

\* What goes on in a game changes neither places nor menus.
LEMMA PlaysFlags ==
    ASSUME TypeOK, NEW c \in Clients, Plays(c)
    PROVE  /\ \A k \in LobbyIds : SamePlace(lobby[k], lobby'[k])
           /\ \A d \in Clients : /\ client'[d].lobby = client[d].lobby
                                 /\ client'[d].id = client[d].id
                                 /\ client'[d].up = client[d].up
                                 /\ client'[d].menu = client[d].menu
                                 /\ client'[d].create = client[d].create
<1>. DEFINE l == client[c].lobby
<1>a. /\ lobby \in [LobbyIds -> LobbyRec]
      /\ client \in [Clients -> ClientRec]
    BY DEF TypeOK
<1>1. l \in LobbyIds
    <2>1. l \in LobbyIds \cup {None}
        BY <1>a DEF ClientRec
    <2>2. l # None
        BY ConstantsAssumption DEF Plays, Subcmd, DoneBurst, Ping, QuestList,
           QuestListEnd, SetupQuest, QloadDone, AllowGC, InGame, LobbyIds
    <2>. QED BY <2>1, <2>2
<1>2. lobby[l] \in LobbyRec
    BY <1>a, <1>1
<1>3. \/ lobby' = lobby
      \/ \E M : SamePlace(lobby[l], M) /\ lobby' = [lobby EXCEPT ![l] = M]
    <2>1. CASE Subcmd(c)
        <3>1. lobby' = [lobby EXCEPT ![l] = Enqueue(lobby[l], c)]
            BY <2>1 DEF Subcmd
        <3>. QED BY <1>2, <3>1, FlagsSame
    <2>2. CASE DoneBurst(c) \/ Ping(c)
        <3>1. lobby' = lobby \/ lobby' = [lobby EXCEPT ![l] = EndBurst(lobby[l])]
            BY <2>2 DEF DoneBurst, Ping
        <3>. QED BY <1>2, <3>1, FlagsSame
    <2>3. CASE QuestList(c) \/ QuestListEnd(c)
        <3>1. \E b \in BOOLEAN :
                lobby' = [lobby EXCEPT ![l] = [lobby[l] EXCEPT !.questsel = b]]
            BY <2>3 DEF QuestList, QuestListEnd
        <3>. QED BY <1>2, <3>1, FlagsSame
    <2>4. CASE SetupQuest(c)
        <3>1. CASE lobby' = [lobby EXCEPT ![l].questsel = FALSE]
            <4>1. lobby' = [lobby EXCEPT ![l] = [lobby[l] EXCEPT !.questsel = FALSE]]
                BY <3>1
            <4>. QED BY <1>2, <4>1, FlagsSame
        <3>2. ASSUME NEW j \in BOOLEAN,
                     lobby' = [lobby EXCEPT ![l].questing = TRUE,
                                            ![l].questsel = FALSE,
                                            ![l].joinable = j]
              PROVE  \E M : /\ SamePlace(lobby[l], M)
                            /\ lobby' = [lobby EXCEPT ![l] = M]
            <4>1. lobby' = [lobby EXCEPT ![l] =
                              [lobby[l] EXCEPT !.questing = TRUE,
                                               !.questsel = FALSE,
                                               !.joinable = j]]
                BY <1>a, <1>1, <3>2
            <4>. QED BY <1>2, <4>1, FlagsSame
        <3>3. {lobby[l].joinable, TRUE} \subseteq BOOLEAN
            BY <1>2 DEF LobbyRec
        <3>. QED BY <2>4, <3>1, <3>2, <3>3 DEF SetupQuest
    <2>5. CASE QloadDone(c)
        BY <2>5 DEF QloadDone
    <2>6. CASE AllowGC(c)
        <3>1. \E b \in BOOLEAN :
                lobby' = [lobby EXCEPT ![l] = [lobby[l] EXCEPT !.gcOK = b]]
            BY <2>6 DEF AllowGC
        <3>. QED BY <1>2, <3>1, FlagsSame
    <2>. QED BY <2>1, <2>2, <2>3, <2>4, <2>5, <2>6 DEF Plays
<1>4. \A k \in LobbyIds : SamePlace(lobby[k], lobby'[k])
    BY <1>a, <1>1, <1>3 DEF SamePlace
<1>5. ASSUME NEW d \in Clients
      PROVE  /\ client'[d].lobby = client[d].lobby
             /\ client'[d].id = client[d].id
             /\ client'[d].up = client[d].up
             /\ client'[d].menu = client[d].menu
             /\ client'[d].create = client[d].create
    <2>1. client[d] \in ClientRec
        BY <1>a
    <2>2. CASE Subcmd(c) \/ AllowGC(c)
        BY <2>2 DEF Subcmd, AllowGC
    <2>3. CASE DoneBurst(c) \/ Ping(c)
        BY <1>a, <2>1, <2>3 DEF DoneBurst, Ping, ClientRec
    <2>4. CASE QuestList(c) \/ QuestListEnd(c)
        BY <1>a, <2>1, <2>4 DEF QuestList, QuestListEnd, ClientRec
    <2>5. CASE SetupQuest(c)
        <3>1. \/ client'[d] = client[d]
              \/ client'[d] = [client[d] EXCEPT !.qloaded = FALSE, !.held = FALSE,
                                                 !.browsing = FALSE]
              \/ d = c /\ client'[d] = [client[d] EXCEPT !.browsing = FALSE]
            BY <1>a, <2>5 DEF SetupQuest
        <3>. QED BY <2>1, <3>1 DEF ClientRec
    <2>6. CASE QloadDone(c)
        BY <1>a, <2>1, <2>6 DEF QloadDone, ClientRec
    <2>. QED BY <2>2, <2>3, <2>4, <2>5, <2>6 DEF Plays
<1>. QED BY <1>4, <1>5

LEMMA PlaysKeep ==
    ASSUME TypeOK, PlacesInv, MenusOwnGames, NEW c \in Clients, Plays(c)
    PROVE  PlacesInv' /\ MenusOwnGames'
BY PlaysFlags, FlagsOnly DEF SamePlace

LEMMA StepKeeps ==
    ~JoinPending /\ OpenMenus /\ IInv /\ [Next]_vars => IInv'
<1> SUFFICES ASSUME ~JoinPending, OpenMenus, IInv, [Next]_vars PROVE IInv'
    OBVIOUS
<1>1. TypeOK /\ PlacesInv /\ MenusOwnGames
    BY DEF IInv
<1>2. TypeOK'
    BY <1>1, TypeStep
<1>3. ASSUME NEW c \in Clients,
             Connect(c) \/ Drop(c) \/ Moves(c) \/ Creates(c) \/ Plays(c)
      PROVE  PlacesInv' /\ MenusOwnGames'
    BY <1>1, <1>3, ConnectKeeps, DropKeeps, MovesKeep, CreatesKeep, PlaysKeep
<1>4. PlacesInv' /\ MenusOwnGames'
    <2>1. CASE Tick \/ UNCHANGED vars
        <3>1. UNCHANGED <<lobby, client>>
            BY <2>1 DEF Tick, vars
        <3>. QED BY <1>1, <3>1, FlagsOnly
    <2>. QED BY <1>3, <2>1 DEF Next
<1>. QED BY <1>2, <1>4 DEF IInv

\* The two sides of membership always agree, for any clients, lobbies and
\* games and any order of packets of clients that answer a creation menu only
\* while it is open (and may otherwise send anything at any time), as long as
\* nobody joins a game whose creator is still in the creation menus:
\* lobby_change_lobby, lobby_remove_player and lobby_destroy never leave a
\* client in two lobbies, or in a freed game.  Without OpenMenus it is not
\* so: the handlers of block_bb.c look at create_lobby alone, and a second
\* cancel frees the game that has the address by then under its members.
THEOREM SlotsCorrect ==
    ASSUME ~JoinPending, OpenMenus PROVE Spec => []SlotsAgree
<1>1. Init => IInv
    BY InitInv
<1>2. IInv /\ [Next]_vars => IInv'
    BY StepKeeps
<1>3. IInv => SlotsAgree
    BY DEF IInv, PlacesInv
<1>. QED BY <1>1, <1>2, <1>3, PTL DEF Spec
=============================================================================
