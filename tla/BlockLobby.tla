---------------------------- MODULE BlockLobby ----------------------------
(***************************************************************************)
(* One block of a ship server: the lobbies and games it lists, the clients *)
(* connected to it and the handlers that move clients between lobbies      *)
(* (lobby.c, block.c, block_bb.c).                                         *)
(*                                                                         *)
(* A block is served by one thread (block_thd): it runs the handler of one *)
(* packet to its end before it looks at the next client, so a handler is   *)
(* one action here.  What other threads can do to a block is the subject   *)
(* of BlockLocks.                                                          *)
(*                                                                         *)
(* A lobby_t is named by its address, not by its lobby_id.  A freed game   *)
(* is a record in state "free"; a pointer to it that is left behind in a   *)
(* ship_client_t is stale.  Code that follows a pointer to a freed game is *)
(* outside the model: the guards say where, and the runs show whether such *)
(* a pointer can arise.  An address that has been used again is followed:  *)
(* the handlers of the creation menus look at create_lobby alone, which a  *)
(* cancelled menu leaves set, so that a client that answers a menu it has  *)
(* closed (~OpenMenus) chooses for, joins or destroys the game that is     *)
(* there now, with the players in it.  A game freed under its members is   *)
(* the end of what the model can say of the code.                          *)
(***************************************************************************)
EXTENDS Integers, FiniteSets, Sequences

CONSTANTS
    Clients,         \* connections the block may accept
    DefaultLobbies,  \* the lobbies made by lobby_create_default
    Games,           \* addresses malloc may return to lobby_create_game
    None,            \* the NULL pointer
    LobbyMax,        \* max_clients of a default lobby (12 in the code)
    GameMax,         \* max_clients of a game (4 in the code)
    Version,         \* client -> "v2" (DC, PC), "gc" (GC, Xbox) or "bb"
    MaxTime,         \* bound on the clock, in seconds
    MaxQueue,        \* bound on a game's packet queue
    Disciplined,     \* clients send a packet only when the game client would
    OpenMenus,       \* clients answer a creation menu only while it is open
    JoinPending      \* clients may pick a game whose creator is in the menus

Versions == {"v2", "gc", "bb"}
LobbyIds == DefaultLobbies \cup Games
Slots    == 0 .. (LobbyMax - 1)
Cap(l)   == IF l \in Games THEN GameMax ELSE LobbyMax

ASSUME ConstantsAssumption ==
    /\ None \notin Clients \cup LobbyIds
    /\ DefaultLobbies \cap Games = {}
    /\ IsFiniteSet(Games) /\ IsFiniteSet(Clients)
    /\ LobbyMax \in Nat /\ GameMax \in Nat
    /\ 2 <= GameMax /\ GameMax <= LobbyMax
    /\ Version \in [Clients -> Versions]
    /\ MaxTime \in Nat /\ MaxQueue \in Nat
    /\ Disciplined \in BOOLEAN /\ OpenMenus \in BOOLEAN /\ JoinPending \in BOOLEAN
    /\ Disciplined => OpenMenus
    /\ JoinPending => Disciplined

VARIABLES
    lobby,      \* address -> the lobby_t
    client,     \* connection -> the ship_client_t
    numGames,   \* block->num_games
    numClients, \* block->num_clients
    now         \* time(NULL)

vars == <<lobby, client, numGames, numClients, now>>

-----------------------------------------------------------------------------
(* The structures.                                                         *)

\* lobby_t.  "pending" is a game that exists but is in no list.
LobbyRec ==
    [state    : {"free", "pending", "listed"},
     ver      : Versions,
     gcOK     : BOOLEAN,                     \* LOBBY_FLAG_GC_ALLOWED
     slot     : [Slots -> Clients \cup {None}],
     num      : Int,                         \* num_clients
     leader   : Slots,                       \* leader_id
     bursting : BOOLEAN,                     \* LOBBY_FLAG_BURSTING
     questing : BOOLEAN,                     \* LOBBY_FLAG_QUESTING
     questsel : BOOLEAN,                     \* LOBBY_FLAG_QUESTSEL
     joinable : BOOLEAN,                     \* LOBBY_QFLAG_JOIN
     queue    : Seq(Clients)]                \* pkt_queue: the src pointers

\* ship_client_t and what its player sees.  up: the client is in the block's
\* list.  menu: a creation menu is open; browsing: the quest list is open;
\* held: it reported its quest loaded and waits for QUEST_LOAD_DONE.
ClientRec ==
    [up       : BOOLEAN,
     lobby    : LobbyIds \cup {None},        \* cur_lobby
     id       : Slots,                       \* client_id
     joined   : Nat,                         \* join_time
     bursting : BOOLEAN,                     \* CLIENT_FLAG_BURSTING
     waitq    : BOOLEAN,                     \* CLIENT_FLAG_WAIT_QPING
     qloaded  : BOOLEAN,                     \* CLIENT_FLAG_QLOAD_DONE
     held     : BOOLEAN,
     create   : Games \cup {None},           \* create_lobby
     menu     : BOOLEAN,
     browsing : BOOLEAN]

Empty(state, ver, leader) ==
    [state |-> state, ver |-> ver, gcOK |-> FALSE,
     slot |-> [i \in Slots |-> None], num |-> 0, leader |-> leader,
     bursting |-> FALSE, questing |-> FALSE, questsel |-> FALSE,
     joinable |-> FALSE, queue |-> <<>>]

Freed == Empty("free", "gc", 0)

Fresh(connected) ==
    [up |-> connected, lobby |-> None, id |-> 0, joined |-> 0,
     bursting |-> FALSE, waitq |-> FALSE, qloaded |-> FALSE, held |-> FALSE,
     create |-> None, menu |-> FALSE, browsing |-> FALSE]

\* A game as lobby_create_game makes it for client c.
NewGame(c, state) ==
    Empty(state, Version[c], IF Version[c] = "bb" THEN 0 ELSE 1)

Init ==
    /\ lobby = [l \in LobbyIds |->
                  IF l \in Games THEN Freed ELSE Empty("listed", "v2", 0)]
    /\ client = [c \in Clients |-> Fresh(FALSE)]
    /\ numGames = 0
    /\ numClients = 0
    /\ now = 0

Members(l) == {c \in Clients : client[c].lobby = l}
Listed     == {l \in LobbyIds : lobby[l].state = "listed"}
InGame(c)  == client[c].lobby \in Games

\* What a game client needs before its player can pick a lobby or a game: it
\* stands in a default lobby, no menu covers the screen and it has answered
\* the pings it received.
Idle(c) ==
    /\ client[c].lobby \in DefaultLobbies
    /\ ~client[c].menu
    /\ ~client[c].waitq

\* Nobody is still choosing the settings of game g.
Settled(g) == \A c \in Clients : client[c].menu => client[c].create # g

-----------------------------------------------------------------------------
(* lobby_add_client_locked, lobby_remove_client_locked and the election.   *)

\* Slot i is the one a new member of r gets: on a DC/PC game slot 1 goes
\* first, otherwise the smallest empty one.
TakesSlot(L, r, i) ==
    /\ L.num < Cap(r)
    /\ i < Cap(r)
    /\ L.slot[i] = None
    /\ IF r \in Games /\ L.ver = "v2" /\ L.slot[1] = None
         THEN i = 1
         ELSE \A j \in Slots : j < i => L.slot[j] # None

\* Mutant: num_clients is not incremented.
AddClient_NoCount(L, c, i) ==
    [L EXCEPT !.slot[i] = c, !.leader = IF L.num = 0 THEN i ELSE @]

AddClient(L, c, i) ==
    [L EXCEPT !.slot[i] = c,
              !.num = @ + 1,
              !.leader = IF L.num = 0 THEN i ELSE @]

\* The members the election looks at: never the old leader, and only those
\* whose join_time is before the current second.
Candidates(L, V) ==
    {i \in Slots \ {L.leader} :
        /\ L.slot[i] # None
        /\ client[L.slot[i]].joined < now
        /\ Version[L.slot[i]] \in V}

\* Mutant: the comparison of the join times is the wrong way round.
IsEarliest_Latest(L, S, i) ==
    \A j \in S \ {i} :
        \/ client[L.slot[i]].joined > client[L.slot[j]].joined
        \/ client[L.slot[i]].joined = client[L.slot[j]].joined /\ i < j

IsEarliest(L, S, i) ==
    \A j \in S \ {i} :
        \/ client[L.slot[i]].joined < client[L.slot[j]].joined
        \/ client[L.slot[i]].joined = client[L.slot[j]].joined /\ i < j

\* Mutant: -1 from the election loop is stored.
Winner_MinusOne(L, S) ==
    IF \E i \in S : IsEarliest(L, S, i)
      THEN CHOOSE i \in S : IsEarliest(L, S, i)
      ELSE -1

\* -1 from the election loop makes leader_id 0.
Winner(L, S) ==
    IF \E i \in S : IsEarliest(L, S, i)
      THEN CHOOSE i \in S : IsEarliest(L, S, i)
      ELSE 0

\* A DC/PC game that admits GameCube prefers a DC/PC leader; with none left
\* it becomes a GameCube game.
Elect(L) ==
    LET cross == L.ver = "v2" /\ L.gcOK
        old   == Candidates(L, {"v2"})
    IN  IF cross /\ old # {}
          THEN [L EXCEPT !.leader = Winner(L, old)]
          ELSE [L EXCEPT !.leader = Winner(L, Candidates(L, Versions)),
                         !.gcOK = @ /\ ~cross,
                         !.ver = IF cross THEN "gc" ELSE @]

\* Mutant: the slot is not emptied.
RemoveClient_KeepsSlot(L, c, i) ==
    IF L.slot[i] # c THEN L ELSE [L EXCEPT !.num = @ - 1]

RemoveClient(L, c, i) ==
    IF L.slot[i] # c
      THEN L
      ELSE LET E == IF i = L.leader THEN Elect(L) ELSE L
           IN  [E EXCEPT !.slot[i] = None, !.num = @ - 1]

\* Mutant: the queue is left for the next burst.
EndBurst_NoDrain(L) == [L EXCEPT !.bursting = FALSE]

\* lobby_handle_done_burst: the burst is over and every queued packet is
\* handed to its handler.
EndBurst(L) == [L EXCEPT !.bursting = FALSE, !.queue = <<>>]

-----------------------------------------------------------------------------
(* Moving a client.  lb and n stand for the block's lobbies and game count *)
(* when the call is made, C for the caller's client record.                *)

\* Mutant: the game is asked for emptiness before the count goes down.
Empties_Early(lb, c) ==
    LET l == client[c].lobby
    IN  /\ l \in Games
        /\ lb[l].slot[client[c].id] = c
        /\ lb[l].num = 0

\* Removing c from the lobby it is in empties a game, which is destroyed.
Empties(lb, c) ==
    LET l == client[c].lobby
    IN  /\ l \in Games
        /\ lb[l].slot[client[c].id] = c
        /\ lb[l].num = 1

\* The lobby c leaves, once it is gone from it.
Vacated(lb, c) ==
    IF Empties(lb, c)
      THEN Freed
      ELSE RemoveClient(lb[client[c].lobby], c, client[c].id)

\* c takes slot i of r.  Joining a game starts a burst.
Seated(lb, c, r, i) ==
    LET L == AddClient(lb[r], c, i)
    IN  IF r \in Games THEN [L EXCEPT !.bursting = TRUE] ELSE L

Placed(C, r, i) ==
    [C EXCEPT !.lobby = r, !.id = i, !.joined = now,
              !.bursting = @ \/ r \in Games,
              !.held = FALSE, !.browsing = FALSE]

\* lobby_change_lobby from a lobby l to another lobby r.
Move(lb, n, c, C, r) ==
    LET l == client[c].lobby
    IN  \E i \in Slots :
          /\ TakesSlot(lb[r], r, i)
          /\ lobby' = [lb EXCEPT ![r] = Seated(lb, c, r, i),
                                 ![l] = Vacated(lb, c)]
          /\ client' = [client EXCEPT ![c] = Placed(C, r, i)]
          /\ numGames' = IF Empties(lb, c) THEN n - 1 ELSE n

\* lobby_add_to_any: c is in no lobby and gets a slot of default lobby d,
\* the one it asked for or the first with room.
AddToAny(lb, n, c, C) ==
    \E d \in DefaultLobbies, i \in Slots :
        /\ TakesSlot(lb[d], d, i)
        /\ lobby' = [lb EXCEPT ![d] = Seated(lb, c, d, i)]
        /\ client' = [client EXCEPT ![c] = Placed(C, d, i)]
        /\ numGames' = n

\* Mutant: no check for a client that is bursting.
Admits_Bursting(L) ==
    /\ ~L.questsel
    /\ L.questing => L.joinable

\* The checks of lobby_change_lobby that look at the state of the lobby.
\* Its checks on class, version, level and legit mode refuse as well; for a
\* client that stays where it is, a refusal is a stuttering step.
Admits(L) ==
    /\ ~L.questsel
    /\ L.questing => L.joinable
    /\ ~L.bursting

\* lobby_change_lobby may refuse the BB client that made game L, or whose
\* create_lobby L has become: a character of a class the DC version lacks
\* made a game for it, others are in it by now, or it is another's game.
Refuses(L) == L.ver = "v2" \/ ~Admits(L) \/ L.num = GameMax \/ ~OpenMenus

\* join_game on c's create_lobby or a game g just created, and what its
\* caller does when it fails: destroy g.  bb_join_game reports success when
\* lobby_change_lobby refused; a BB caller then keeps g.  ok and failed are
\* c's record after either answer.
JoinNew(lb, n, c, g, ok, failed) ==
    \/ /\ client[c].lobby # None
       /\ Admits(lb[g])
       /\ Move(lb, n, c, ok, g)
    \/ /\ client[c].lobby = None
       /\ AddToAny(lb, n, c, ok)
    \/ /\ Version[c] = "bb" /\ Refuses(lb[g])
       /\ lobby' = lb
       /\ client' = [client EXCEPT ![c] = ok]
       /\ numGames' = n
    \/ /\ lobby' = [lb EXCEPT ![g] = Freed]
       /\ client' = [client EXCEPT ![c] = failed]
       /\ numGames' = n - 1

-----------------------------------------------------------------------------
(* Connections.                                                            *)

Connect(c) ==
    /\ ~client[c].up
    /\ client' = [client EXCEPT ![c] = Fresh(TRUE)]
    /\ numClients' = numClients + 1
    /\ UNCHANGED <<lobby, numGames, now>>

\* Mutant: the burst of the client that leaves is not ended.
RemovePlayer_StillBursting(c) ==
    LET l == client[c].lobby
    IN  /\ lobby' = [lobby EXCEPT ![l] = Vacated(lobby, c)]
        /\ numGames' = IF Empties(lobby, c) THEN numGames - 1 ELSE numGames

\* lobby_remove_player and lobby_remove_player_bb, for a client in a lobby.
RemovePlayer(c) ==
    LET l  == client[c].lobby
        lb == IF client[c].bursting
                THEN [lobby EXCEPT ![l] = EndBurst(@)]
                ELSE lobby
    IN  /\ lobby' = [lb EXCEPT ![l] = Vacated(lb, c)]
        /\ numGames' = IF Empties(lb, c) THEN numGames - 1 ELSE numGames

\* A client flagged CLIENT_FLAG_DISCONNECTED (silence, a failed read or
\* write, a handler that returned an error) and swept at the end of the
\* loop.  Only the sweep reads the flag, so the two are one step.
Drop(c) ==
    /\ client[c].up
    /\ client' = [client EXCEPT ![c] = Fresh(FALSE)]
    /\ numClients' = numClients - 1
    /\ IF client[c].lobby = None
         THEN UNCHANGED <<lobby, numGames>>
         ELSE RemovePlayer(c)
    /\ UNCHANGED now

Tick ==
    /\ now < MaxTime
    /\ now' = now + 1
    /\ UNCHANGED <<lobby, client, numGames, numClients>>

-----------------------------------------------------------------------------
(* Lobby handlers.                                                         *)

\* 0x61, character data, from a client in no lobby; also 0x84 from one.
EnterLobby(c) ==
    /\ client[c].up
    /\ client[c].lobby = None
    /\ AddToAny(lobby, numGames, c, client[c])
    /\ UNCHANGED <<numClients, now>>

\* 0x98: the client left a game; its 0x84 follows.
LeaveGame(c) ==
    /\ client[c].lobby # None
    /\ Disciplined => InGame(c)
    /\ RemovePlayer(c)
    /\ client' = [client EXCEPT ![c].lobby = None, ![c].id = 0,
                                ![c].held = FALSE, ![c].browsing = FALSE]
    /\ UNCHANGED <<numClients, now>>

\* 0x84 from a client in a lobby.  A game client in a game sends 0x98 first,
\* and picks a default lobby; the handler looks at neither.
ChangeLobby(c, r) ==
    /\ client[c].lobby \notin {None, r}
    /\ r \in Listed
    /\ Disciplined => Idle(c) /\ r \in DefaultLobbies
    /\ JoinPending \/ Settled(r)
    /\ Admits(lobby[r])
    /\ Move(lobby, numGames, c, client[c], r)
    /\ UNCHANGED <<numClients, now>>

\* The game menu: join a listed game.
SelectGame(c, g) ==
    /\ client[c].lobby \notin {None, g}
    /\ g \in Listed
    /\ Disciplined => Idle(c)
    /\ JoinPending \/ Settled(g)
    /\ Admits(lobby[g])
    /\ Move(lobby, numGames, c, client[c], g)
    /\ UNCHANGED <<numClients, now>>

\* lobby_change_lobby to the game the client is in: a new burst.
Rejoin(c, C) ==
    /\ lobby' = [lobby EXCEPT ![client[c].lobby].bursting = TRUE]
    /\ client' = [client EXCEPT ![c] = [C EXCEPT !.bursting = TRUE]]
    /\ UNCHANGED numGames

\* The error menu of a BB client: join the game it is in again.
RejoinGame(c) ==
    /\ InGame(c)
    /\ Disciplined => Version[c] = "bb"
    /\ Admits(lobby[client[c].lobby])
    /\ Rejoin(c, client[c])
    /\ UNCHANGED <<numClients, now>>

-----------------------------------------------------------------------------
(* Creating a game.                                                        *)

MayCreate(c, g) ==
    /\ client[c].up
    /\ Disciplined => Idle(c)
    /\ lobby[g].state = "free"

\* dc, gc and ep3_process_game_create, and the PC and BB ones for a game
\* that needs no menu (battle, challenge, ultimate, single player).
CreateGame(c, g) ==
    /\ MayCreate(c, g)
    /\ JoinNew([lobby EXCEPT ![g] = NewGame(c, "listed")], numGames + 1,
               c, g, client[c], client[c])
    /\ UNCHANGED <<numClients, now>>

\* A PC or BB game whose creator is first asked about it.  The BB game is
\* listed at once, the PC game when the menu is answered.
CreatePending(c, g) ==
    /\ MayCreate(c, g)
    /\ Version[c] # "gc"
    /\ LET st == IF Version[c] = "bb" THEN "listed" ELSE "pending"
       IN  /\ lobby' = [lobby EXCEPT ![g] = NewGame(c, st)]
           /\ numGames' = IF st = "listed" THEN numGames + 1 ELSE numGames
    /\ client' = [client EXCEPT ![c].create = g, ![c].menu = TRUE]
    /\ UNCHANGED <<numClients, now>>

\* The PC game type menu (a DC client is never shown it).
ChooseType(c) ==
    LET g      == client[c].create
        closed == [client[c] EXCEPT !.create = None, !.menu = FALSE]
    IN  /\ OpenMenus => client[c].menu
        /\ Version[c] = "v2"
        /\ g # None
        /\ JoinNew([lobby EXCEPT ![g].state = "listed"], numGames + 1,
                   c, g, closed, closed)
        /\ UNCHANGED <<numClients, now>>

\* A BB client answers a creation menu, open or not: the handlers test
\* create_lobby only.  Reading a freed game is outside the model.
Answers(c) ==
    /\ OpenMenus => client[c].menu
    /\ Version[c] = "bb"
    /\ client[c].create # None
    /\ lobby[client[c].create].state # "free"

\* bb_process_game_version: the BB version menu; GC_ALLOWED or version 1.
ChooseVersion(c) ==
    LET g == client[c].create
    IN  /\ Answers(c)
        /\ \/ lobby' = [lobby EXCEPT ![g].gcOK = TRUE]
           \/ lobby' = [lobby EXCEPT ![g].ver = "v2"]
           \/ lobby' = [lobby EXCEPT ![g].ver = "bb"]
        /\ UNCHANGED <<client, numGames, numClients, now>>

\* bb_process_game_drop_set: the last BB menu; the creator joins.  When the
\* join fails the game is destroyed and create_lobby is not cleared.  A PC
\* game at the address that is in no list yet could only be unlinked through
\* a NULL pointer, which is outside the model.
ChooseDrop(c) ==
    LET g      == client[c].create
        ok     == [client[c] EXCEPT !.create = None, !.menu = FALSE]
        failed == [client[c] EXCEPT !.menu = FALSE]
    IN  /\ Answers(c)
        /\ lobby[g].state = "listed"
        /\ IF client[c].lobby = g /\ Admits(lobby[g])
             THEN Rejoin(c, ok)
             ELSE JoinNew(lobby, numGames, c, g, ok, failed)
        /\ UNCHANGED <<numClients, now>>

\* Either BB menu cancelled: lobby_destroy, whoever may be in the game, and
\* create_lobby is not cleared.
CancelCreate(c) ==
    LET g == client[c].create
    IN  /\ Answers(c)
        /\ lobby[g].state = "listed"
        /\ lobby' = [lobby EXCEPT ![g] = Freed]
        /\ numGames' = numGames - 1
        /\ client' = [client EXCEPT ![c].menu = FALSE]
        /\ UNCHANGED <<numClients, now>>

-----------------------------------------------------------------------------
(* Bursts.  While a client bursts into a game the other members' packets   *)
(* wait in the game's queue.                                               *)

\* lobby_enqueue_pkt: the packet is kept with its sender.
Enqueue(L, c) == [L EXCEPT !.queue = Append(@, c)]

\* subcmd_handle_60, _62 and _6D during a burst.
Subcmd(c) ==
    /\ InGame(c)
    /\ lobby[client[c].lobby].bursting
    /\ Len(lobby[client[c].lobby].queue) < MaxQueue
    /\ lobby' = [lobby EXCEPT ![client[c].lobby] = Enqueue(@, c)]
    /\ UNCHANGED <<client, numGames, numClients, now>>

\* The client has loaded the game.  With a quest in progress it is sent the
\* quest and a ping, and the burst goes on until it answers.
DoneBurst(c) ==
    LET l == client[c].lobby
    IN  /\ InGame(c)
        /\ Disciplined => client[c].bursting /\ ~client[c].waitq
        /\ IF lobby[l].questing
             THEN /\ client' = [client EXCEPT ![c].waitq = TRUE,
                                              ![c].qloaded = FALSE]
                  /\ UNCHANGED lobby
             ELSE /\ client' = [client EXCEPT ![c].bursting = FALSE]
                  /\ lobby' = [lobby EXCEPT ![l] = EndBurst(@)]
        /\ UNCHANGED <<numGames, numClients, now>>

\* A ping answered by a client flagged CLIENT_FLAG_WAIT_QPING.  In no lobby
\* the handler fails and the client is dropped (Drop).
Ping(c) ==
    LET l == client[c].lobby
    IN  /\ client[c].waitq
        /\ l # None
        /\ client' = [client EXCEPT ![c].bursting = FALSE, ![c].waitq = FALSE]
        /\ lobby' = [lobby EXCEPT ![l] = EndBurst(@)]
        /\ UNCHANGED <<numGames, numClients, now>>

-----------------------------------------------------------------------------
(* Quests.                                                                 *)

\* process_qlist: a member opens the quest list.
QuestList(c) ==
    /\ InGame(c)
    /\ Disciplined => ~client[c].bursting
    /\ lobby' = [lobby EXCEPT ![client[c].lobby].questsel = TRUE]
    /\ client' = [client EXCEPT ![c].browsing = TRUE]
    /\ UNCHANGED <<numGames, numClients, now>>

\* process_qlist_end: it closes the list.
QuestListEnd(c) ==
    /\ InGame(c)
    /\ Disciplined => client[c].browsing
    /\ lobby' = [lobby EXCEPT ![client[c].lobby].questsel = FALSE]
    /\ client' = [client EXCEPT ![c].browsing = FALSE]
    /\ UNCHANGED <<numGames, numClients, now>>

\* lobby_setup_quest, from the quest menu or a GM's command: the quest is
\* sent to every member, or the server cannot load it.  A joinable quest
\* leaves its mark on the game: LOBBY_QFLAG_JOIN is never cleared.
SetupQuest(c) ==
    LET l == client[c].lobby
    IN  /\ l # None
        /\ Disciplined => InGame(c)
        /\ ~lobby[l].bursting
        /\ \/ /\ \E j \in {lobby[l].joinable, TRUE} :
                   lobby' = [lobby EXCEPT ![l].questing = TRUE,
                                          ![l].questsel = FALSE,
                                          ![l].joinable = j]
              /\ client' =
                   [d \in Clients |->
                      IF client[d].lobby = l
                        THEN [client[d] EXCEPT !.qloaded = FALSE,
                                               !.held = FALSE,
                                               !.browsing = FALSE]
                        ELSE client[d]]
           \/ /\ lobby' = [lobby EXCEPT ![l].questsel = FALSE]
              /\ client' = [client EXCEPT ![c].browsing = FALSE]
        /\ UNCHANGED <<numGames, numClients, now>>

\* The member d keeps the others from starting the quest.
StillLoading(d) == ~client[d].qloaded /\ Version[d] # "v2"

\* process_qload_done: c has loaded the quest; the last one to say so
\* releases every member.
QloadDone(c) ==
    LET l == client[c].lobby
    IN  /\ InGame(c)
        /\ Disciplined =>
             Version[c] # "v2" /\ lobby[l].questing /\ ~client[c].qloaded
        /\ client' =
             IF \E d \in Members(l) \ {c} : StillLoading(d)
               THEN [client EXCEPT ![c].qloaded = TRUE, ![c].held = TRUE]
               ELSE [d \in Clients |->
                       IF client[d].lobby = l
                         THEN [client[d] EXCEPT !.held = FALSE,
                                                !.qloaded = @ \/ d = c]
                         ELSE client[d]]
        /\ UNCHANGED <<lobby, numGames, numClients, now>>

\* /allowgc: the leader opens the game to GameCube clients, or closes it.
AllowGC(c) ==
    LET l == client[c].lobby
    IN  /\ InGame(c)
        /\ lobby[l].leader = client[c].id
        /\ \E b \in BOOLEAN : lobby' = [lobby EXCEPT ![l].gcOK = b]
        /\ UNCHANGED <<client, numGames, numClients, now>>

-----------------------------------------------------------------------------
Moves(c) ==
    \/ EnterLobby(c)
    \/ LeaveGame(c)
    \/ \E r \in LobbyIds : ChangeLobby(c, r)
    \/ \E g \in Games : SelectGame(c, g)
    \/ RejoinGame(c)

Creates(c) ==
    \/ \E g \in Games : CreateGame(c, g)
    \/ \E g \in Games : CreatePending(c, g)
    \/ ChooseType(c)
    \/ ChooseVersion(c)
    \/ ChooseDrop(c)
    \/ CancelCreate(c)

Plays(c) ==
    \/ Subcmd(c)
    \/ DoneBurst(c)
    \/ Ping(c)
    \/ QuestList(c)
    \/ QuestListEnd(c)
    \/ SetupQuest(c)
    \/ QloadDone(c)
    \/ AllowGC(c)

Next ==
    \/ Tick
    \/ \E c \in Clients :
         Connect(c) \/ Drop(c) \/ Moves(c) \/ Creates(c) \/ Plays(c)

Spec == Init /\ [][Next]_vars

\* A client that bursts finishes or is dropped: the block drops a client
\* that is silent for too long.
Finishes(c) == DoneBurst(c) \/ Ping(c) \/ (client[c].bursting /\ Drop(c))

FairSpec == Spec /\ \A c \in Clients : WF_vars(Finishes(c))

-----------------------------------------------------------------------------
TypeOK ==
    /\ lobby \in [LobbyIds -> LobbyRec]
    /\ client \in [Clients -> ClientRec]
    /\ numGames \in Int
    /\ numClients \in Int
    /\ now \in Nat

\* The two sides of membership agree: slot i of a lobby holds c exactly when
\* c's cur_lobby and client_id name that slot, so nobody is in two lobbies,
\* nobody points to a freed game, and a client in a lobby is connected.
SlotsAgree ==
    \A c \in Clients :
        /\ \A l \in LobbyIds, i \in Slots :
             lobby[l].slot[i] = c <=> client[c].lobby = l /\ client[c].id = i
        /\ client[c].lobby # None => client[c].up

\* The counts the server reports and decides by are the true ones:
\* num_clients of every lobby, and num_games and num_clients of the block.
CountsAgree ==
    /\ \A l \in LobbyIds :
         /\ lobby[l].num = Cardinality(Members(l))
         /\ lobby[l].num <= Cap(l)
    /\ numGames = Cardinality(Listed \cap Games)
    /\ numClients = Cardinality({c \in Clients : client[c].up})

\* A queued packet waits for a burst that is still going on, whoever left,
\* and whichever of the ways a burst can end was taken.
QueueOnlyWhileBursting ==
    \A l \in LobbyIds : lobby[l].queue # <<>> => lobby[l].bursting

\* A game is closed to newcomers because exactly one member is bursting.
BurstHasOneBurster ==
    \A g \in Games :
        LET B == {c \in Members(g) : client[c].bursting}
        IN  IF lobby[g].bursting THEN Cardinality(B) = 1 ELSE B = {}

\* A game in the game list has a player in it, or its creator is still
\* choosing its settings.
NoEmptyGame ==
    \A g \in Games : lobby[g].state = "listed" =>
        lobby[g].num > 0 \/ ~Settled(g)

\* The leader_id sent to everyone who joins names a member.
LeaderIsMember ==
    \A l \in LobbyIds :
        lobby[l].num > 0 => lobby[l].slot[lobby[l].leader] # None

\* A game that refuses newcomers because a quest is being selected has a
\* member who is selecting one.
QuestselHasSelector ==
    \A g \in Games : lobby[g].questsel =>
        \E c \in Members(g) : client[c].browsing

\* The packets queued in a game come from its members.
QueuedByMembers ==
    \A g \in Games : \A k \in 1 .. Len(lobby[g].queue) :
        client[lobby[g].queue[k]].lobby = g

\* A member that waits for QUEST_LOAD_DONE waits for another that has still
\* to load the quest.
HeldForALoader ==
    \A c \in Clients : client[c].held =>
        \E d \in Members(client[c].lobby) : StillLoading(d)

\* What a game keeps of a member goes when the member goes: the lock its quest
\* list put on the game, the packets it sent during a burst, and that the
\* others wait for it to load the quest.
LeavesNoTrace == QuestselHasSelector /\ QueuedByMembers /\ HeldForALoader

\* M is what becomes of a game L: when its leader changes, the new one has
\* been in the game longest of all that are left, or of the DC and PC players
\* if the game is theirs and open to GameCube.
LongestLeads(L, M) ==
    LET i == M.leader
    IN  /\ L.num > 1 /\ M.num > 0
        /\ i # L.leader
        /\ M.slot[i] # None
        => \A j \in Slots :
             \/ M.slot[j] = None
             \/ client[M.slot[j]].joined >= client[M.slot[i]].joined
             \/ M.gcOK /\ M.ver = "v2" /\ Version[M.slot[j]] # "v2"

\* A new leader is one who has been in the game longest, among the DC and PC
\* players if the game is theirs and open to GameCube.
SuccessorIsLongest ==
    [][\A g \in Games : LongestLeads(lobby[g], lobby'[g])]_vars

\* A game is destroyed when its last member leaves it, or before anyone got
\* in: nobody's cur_lobby is left naming a freed game.
DestroyedHasNoMembers ==
    [][\A g \in Games :
         lobby[g].state # "free" /\ lobby'[g].state = "free" =>
           \A c \in Clients : client'[c].lobby # g]_vars

\* Every burst ends, so a game does not stay closed and its queue is played.
BurstEnds ==
    \A g \in Games : lobby[g].bursting ~> ~lobby[g].bursting

-----------------------------------------------------------------------------
(* The block keeps the promises of Roster.                                 *)

R == INSTANCE Roster WITH
       Players  <- Clients,
       Halls    <- DefaultLobbies,
       Rooms    <- Games,
       Nowhere  <- None,
       Capacity <- [l \in LobbyIds |-> Cap(l)],
       at       <- [c \in Clients |-> client[c].lobby],
       open     <- Listed \cap Games

\* Every behaviour of the block is one of Roster: whichever handlers run and
\* however a connection ends, players, games and room agree.
KeepsRoster == R!RSpec

=============================================================================
