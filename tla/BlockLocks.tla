----------------------------- MODULE BlockLocks -----------------------------
(***************************************************************************)
(* The locks of the ship's threads.  Each block has a thread (block_thd)   *)
(* that serves the clients of the block one after the other, holding the   *)
(* mutex of the one it serves; only that thread puts a client into the     *)
(* block's list or takes one out and frees it, under the block's lock for  *)
(* writing.  A thread that looks for a client, a block's or the ship's     *)
(* (ship_thd, which also handles what the shipgate sends), mostly holds    *)
(* the lock for reading and takes the mutexes of the clients it wants one  *)
(* at a time; update_lobby_event looks at the members of a lobby under the *)
(* mutex of the lobby instead; and the commands of admin.c go through the  *)
(* lists of all blocks with no lock at all.                                *)
(*                                                                         *)
(* The order of a list is left out (a list is a set), and so are the locks *)
(* lobby_lock and pkt_mutex; the lobbies of a block are one.               *)
(***************************************************************************)
EXTENDS Naturals, FiniteSets

CONSTANTS
    NumBlocks,  \* ship->cfg->blocks
    Client,     \* connections: structures of type ship_client_t
    None,       \* no client
    MaxDepth,   \* bound: how often a mutex is locked; what is over 2 are leaks
    Used        \* bound: the ways threads look at other clients, see Ways

ASSUME BlocksAssumption == NumBlocks \in Nat \ {0}
ASSUME NoneAssumption == None \notin Client
ASSUME DepthAssumption == MaxDepth \in Nat /\ MaxDepth >= 2

Block   == 1 .. NumBlocks
Outside == 0                        \* the ship's own thread
Thread  == 0 .. NumBlocks
Nobody  == NumBlocks + 1

VARIABLES
    at,       \* the block whose list a client is in, 0 for none
    flagged,  \* clients with CLIENT_FLAG_DISCONNECTED
    pc,       \* where a thread is
    cur,      \* the client a block thread serves, or is about to
    rest,     \* those its round has still to serve
    how,      \* how a thread looks at others, see Ways
    blk,      \* the block in which it looks
    left,     \* the clients it has still to look at in this block
    vic,      \* the one whose mutex it waits for or has taken, or it walks by
    rd,       \* how often a thread holds a block's lock for reading
    holder,   \* the thread that has a client's mutex (recursive)
    depth,    \* how often it has locked it
    lobby     \* the thread that has the mutex of the lobby of a block

clients == <<at, flagged>>
round   == <<cur, rest>>
look    == <<how, blk, left, vic>>
mutexes == <<holder, depth>>
vars == <<at, flagged, pc, cur, rest, how, blk, left, vic, rd, holder, depth, lobby>>

Labels == {"round", "accept", "lock", "handle", "sweep", "bury",
           "idle", "enter", "reach", "told", "walk"}

\* "list": under the lock of the block, "ban": the same by global_ban, "lobby": under
\* the mutex of the lobby, "bare": with no lock.
Ways == {"list", "ban", "lobby", "bare"}
Locks == {"list", "ban"}

TypeOK ==
    /\ at \in [Client -> 0 .. NumBlocks]
    /\ flagged \subseteq Client
    /\ pc \in [Thread -> Labels]
    /\ cur \in [Thread -> Client \cup {None}]
    /\ rest \in [Thread -> SUBSET Client]
    /\ how \in [Thread -> Ways]
    /\ blk \in [Thread -> Block]
    /\ left \in [Thread -> SUBSET Client]
    /\ vic \in [Thread -> Client \cup {None}]
    /\ rd \in [Thread -> [Block -> Nat]]
    /\ holder \in [Client -> Thread \cup {Nobody}]
    /\ depth \in [Client -> Nat]
    /\ lobby \in [Block -> Thread \cup {Nobody}]

In(b) == {c \in Client : at[c] = b}
NoReaders(b) == \A t \in Thread : rd[t][b] = 0

\* A thread that waits for the lock for writing, or has it, keeps new readers
\* out (pthread_rwlock_rdlock of pthreads4w).
Writer(b) == pc[b] \in {"accept", "sweep", "bury"}

\* A mutex is recursive (clients.c:352).
Free(c, t) == holder[c] \in {t, Nobody}
Locked(c, t) == /\ holder' = [holder EXCEPT ![c] = t]
                /\ depth' = [depth EXCEPT ![c] = @ + 1]

\* Mutant: whoever unlocks a mutex takes one from its count.
Unlocked_Anyone(t, S) ==
    /\ holder' = [c \in Client |-> IF c \in S /\ depth[c] = 1 THEN Nobody ELSE holder[c]]
    /\ depth' = [c \in Client |-> IF c \in S THEN depth[c] - 1 ELSE depth[c]]

\* A thread unlocks the mutexes of the clients in S: those it does not have are none
\* the less locked, only the owner of a recursive mutex can unlock it.
Unlocked(t, S) ==
    LET has(c) == c \in S /\ holder[c] = t IN
    /\ holder' = [c \in Client |-> IF has(c) /\ depth[c] = 1 THEN Nobody ELSE holder[c]]
    /\ depth' = [c \in Client |-> IF has(c) THEN depth[c] - 1 ELSE depth[c]]

Goto(t, l) == pc' = [pc EXCEPT ![t] = l]

Init ==
    /\ at = [c \in Client |-> 0]
    /\ flagged = {}
    /\ pc = [t \in Thread |-> IF t = Outside THEN "idle" ELSE "round"]
    /\ cur = [t \in Thread |-> None]
    /\ rest = [t \in Thread |-> {}]
    /\ how = [t \in Thread |-> "list"]
    /\ blk = [t \in Thread |-> 1]
    /\ left = [t \in Thread |-> {}]
    /\ vic = [t \in Thread |-> None]
    /\ rd = [t \in Thread |-> [b \in Block |-> 0]]
    /\ holder = [c \in Client |-> Nobody]
    /\ depth = [c \in Client |-> 0]
    /\ lobby = [b \in Block |-> Nobody]

(***************************************************************************)
(* The round of a block's thread.                                          *)
(***************************************************************************)

\* The next client is to be served, or the lock is unlocked and the sweep comes.
\* The round has the lock held times: not yet, or once.
ServeNext(b, todo, held) ==
    \/ \E c \in todo :
        /\ cur' = [cur EXCEPT ![b] = c]
        /\ rest' = [rest EXCEPT ![b] = todo \ {c}]
        /\ Goto(b, "lock")
        /\ rd' = [rd EXCEPT ![b][b] = @ + 1 - held]
    \/ /\ todo = {}
       /\ cur' = [cur EXCEPT ![b] = None]
       /\ Goto(b, "sweep")
       /\ rd' = [rd EXCEPT ![b][b] = @ - held]
       /\ UNCHANGED rest

\* The walk over the list before select marks who has been silent too long.
\* Then there is a connection to accept, something to read or write, or
\* select runs out of time or fails.
Round(b) ==
    /\ pc[b] = "round"
    /\ \E dead \in SUBSET In(b) : flagged' = flagged \cup dead
    /\ \/ Goto(b, "accept") /\ UNCHANGED <<round, rd>>
       \/ ServeNext(b, In(b), 0)
       \/ Goto(b, "sweep") /\ UNCHANGED <<round, rd>>
    /\ UNCHANGED <<at, look, mutexes, lobby>>

\* One connection a round; several are several rounds.
Accept(b) ==
    /\ pc[b] = "accept"
    /\ NoReaders(b)
    /\ \/ \E c \in In(0) : /\ at' = [at EXCEPT ![c] = b]
                           /\ ServeNext(b, In(b) \cup {c}, 0)
       \/ ServeNext(b, In(b), 0) /\ UNCHANGED at      \* it could not be created
    /\ UNCHANGED <<flagged, look, mutexes, lobby>>

Lock(b) ==
    /\ pc[b] = "lock"
    /\ Free(cur[b], b)
    /\ Locked(cur[b], b)
    /\ Goto(b, "handle")
    /\ UNCHANGED <<clients, round, look, rd, lobby>>

\* There was nothing to read, or the handler is done; it or the socket may have
\* failed.  After a ban the mutex may no longer be this thread's to unlock.
Served(b) ==
    /\ pc[b] = "handle"
    /\ flagged' \in {flagged, flagged \cup {cur[b]}}
    /\ Unlocked(b, {cur[b]})
    /\ ServeNext(b, rest[b], 1)
    /\ UNCHANGED <<at, look, lobby>>

\* dc_process_char and lobby_check_client_legit lock the mutex once more and
\* return without unlocking it; the former makes the handler fail.
Leak(b) ==
    /\ pc[b] = "handle"
    /\ holder[cur[b]] = b
    /\ depth[cur[b]] + 2 <= MaxDepth
    /\ flagged' \in {flagged, flagged \cup {cur[b]}}
    /\ ServeNext(b, rest[b], 1)
    /\ UNCHANGED <<at, look, mutexes, lobby>>

\* Mutant: the sweep does not take the block's lock.
Sweep_NoLock(b) ==
    /\ pc[b] = "sweep"
    /\ Goto(b, "bury")
    /\ UNCHANGED <<clients, round, look, rd, mutexes, lobby>>

Sweep(b) ==
    /\ pc[b] = "sweep"
    /\ NoReaders(b)
    /\ Goto(b, "bury")
    /\ UNCHANGED <<clients, round, look, rd, mutexes, lobby>>

\* lobby_remove_player takes the mutex of the lobby; then the client is freed,
\* with its mutex, whoever has that.
Bury(b) ==
    /\ pc[b] = "bury"
    /\ lobby[b] = Nobody
    /\ \E c \in In(b) \cap flagged :
        /\ at' = [at EXCEPT ![c] = 0]
        /\ flagged' = flagged \ {c}
        /\ holder' = [holder EXCEPT ![c] = Nobody]
        /\ depth' = [depth EXCEPT ![c] = 0]
    /\ UNCHANGED <<pc, round, look, rd, lobby>>

EndRound(b) ==
    /\ pc[b] = "bury"
    /\ In(b) \cap flagged = {}
    /\ Goto(b, "round")
    /\ UNCHANGED <<clients, round, look, rd, mutexes, lobby>>

(***************************************************************************)
(* A look at other clients, from the handler of a packet of a client or of *)
(* one of the shipgate.                                                    *)
(***************************************************************************)

\* It begins with one of blocks.
Start(t, h, blocks) ==
    /\ pc[t] \in {"handle", "idle"} /\ h \in Used
    /\ how' = [how EXCEPT ![t] = h]
    /\ \E b \in blocks : blk' = [blk EXCEPT ![t] = b]
    /\ Goto(t, "enter")
    /\ UNCHANGED <<clients, round, left, vic, rd, mutexes, lobby>>

\* Mail, guild search and the like go through the lists of all blocks until the client
\* is found; what names a block goes through the list of that one.  The blocks before
\* the first in which somebody is wanted are passed over.
LookInLists(t) == Start(t, "list", Block)

\* The messages to all, a kick by guildcard, the announcement of a shutdown or an
\* update, the question whether a guildcard is online, and what names the handler's
\* own block, with neither the lock of the block nor a mutex.
WalkLists(t) == Start(t, "bare", Block)

\* A player's command global_ban begins with the first block and leaves none out.
Ban(t) == t # Outside /\ Start(t, "ban", {1})

\* update_lobby_event does so with the lobbies of all blocks, by command of a player
\* or at the change of the event; what is sent to a lobby concerns one only.
LookInLobbies(t) == Start(t, "lobby", Block)

EndLook(t) ==
    /\ Goto(t, IF t = Outside THEN "idle" ELSE "handle")
    /\ how' = [how EXCEPT ![t] = "list"]
    /\ blk' = [blk EXCEPT ![t] = 1]

NextBlock(t) ==
    \/ EndLook(t)
    \/ blk[t] < NumBlocks /\ blk' = [blk EXCEPT ![t] = @ + 1] /\ Goto(t, "enter") /\ UNCHANGED how

\* Of those still to be looked at one is wanted, or none is.
WantNext(t, todo, l) ==
    \E c \in todo :
        /\ vic' = [vic EXCEPT ![t] = c]
        /\ left' = [left EXCEPT ![t] = todo \ {c}]
        /\ Goto(t, l)
        /\ UNCHANGED <<how, blk>>

\* Some handlers mark the one they look for without its mutex: the mark is lost
\* when the thread that has the mutex changes another flag meanwhile.
Kick(t, c) ==
    \/ flagged' = flagged \cup {c}
    \/ holder[c] \notin {t, Nobody} /\ UNCHANGED flagged

Enter(t) ==
    LET b == blk[t] IN
    /\ pc[t] = "enter" /\ how[t] = "list"
    /\ t # b => ~ Writer(b)
    /\ \/ /\ WantNext(t, In(b), "reach")
          /\ rd' = [rd EXCEPT ![t][b] = @ + 1]
          /\ UNCHANGED flagged
       \/ /\ NextBlock(t)                          \* nobody wanted
          /\ \/ UNCHANGED flagged
             \/ \E c \in In(b) : Kick(t, c)
          /\ UNCHANGED <<left, vic, rd>>
    /\ UNCHANGED <<at, round, mutexes, lobby>>

\* The banned client is in the list, or not in this block: global_ban unlocks the mutex
\* of every client it passes, which it has not locked.  If the ban's own client is
\* among them its mutex is free from here on, in the middle of the handler.
EnterBan(t) ==
    LET b == blk[t] IN
    /\ pc[t] = "enter" /\ how[t] = "ban"
    /\ t # b => ~ Writer(b)
    /\ \/ \E c \in In(b) : \E passed \in SUBSET (In(b) \ {c}) :
           /\ Unlocked(t, passed)
           /\ WantNext(t, {c}, "reach")
           /\ rd' = [rd EXCEPT ![t][b] = @ + 1]
       \/ /\ Unlocked(t, In(b))
          /\ NextBlock(t)
          /\ b < NumBlocks => Goto(t, "enter")
          /\ UNCHANGED <<left, vic, rd>>
    /\ UNCHANGED <<clients, round, lobby>>

\* Another thread may be writing the list meanwhile.
EnterBare(t) ==
    /\ pc[t] = "enter" /\ how[t] = "bare"
    /\ \/ WantNext(t, In(blk[t]), "walk")
       \/ NextBlock(t) /\ UNCHANGED <<left, vic>>
    /\ UNCHANGED <<clients, round, rd, mutexes, lobby>>

\* The walk does what it has to with a client, a kick marks it, and goes on from there.
\* If the client was freed under it, what it reads is no longer defined: here the walk
\* ends, or finds another of the clients as before, and a mark is lost; or it hits the
\* one that has got the memory since.
Walk(t) ==
    LET b == blk[t] IN
    /\ pc[t] = "walk"
    /\ flagged' \in {flagged, flagged \cup ({vic[t]} \ In(0))}
    /\ \/ WantNext(t, left[t] \cap In(b), "walk")
       \/ /\ NextBlock(t)
          /\ left' = [left EXCEPT ![t] = {}]
          /\ vic' = [vic EXCEPT ![t] = None]
    /\ UNCHANGED <<at, round, rd, mutexes, lobby>>

\* The members of a lobby are some of the clients of its block.
EnterLobby(t) ==
    LET b == blk[t] IN
    /\ pc[t] = "enter" /\ how[t] = "lobby"
    /\ lobby[b] = Nobody
    /\ \/ /\ \E members \in SUBSET In(b) : WantNext(t, members, "reach")
          /\ lobby' = [lobby EXCEPT ![b] = t]
       \/ /\ NextBlock(t)
          /\ UNCHANGED <<left, vic, lobby>>
    /\ UNCHANGED <<clients, round, rd, mutexes>>

Reach(t) ==
    /\ pc[t] = "reach"
    /\ Free(vic[t], t)
    /\ Locked(vic[t], t)
    /\ Goto(t, "told")
    /\ UNCHANGED <<clients, round, look, rd, lobby>>

\* Mutant: the block's lock stays locked when the client was found.
Told_KeepsLock(t) ==
    /\ pc[t] = "told"
    /\ Unlocked(t, {vic[t]})
    /\ EndLook(t)
    /\ left' = [left EXCEPT ![t] = {}]
    /\ vic' = [vic EXCEPT ![t] = None]
    /\ IF how[t] \in Locks THEN UNCHANGED lobby
                           ELSE lobby' = [lobby EXCEPT ![blk[t]] = Nobody]
    /\ UNCHANGED <<clients, round, rd>>

\* What is done under the mutex may be a ban (admin.c:533).  Then comes another
\* client, or the block is left: for the next one, or because this was it.
Told(t) ==
    LET b == blk[t] IN
    /\ pc[t] = "told"
    /\ \/ UNCHANGED flagged
       \/ how[t] # "lobby" /\ flagged' = flagged \cup {vic[t]}
    /\ Unlocked(t, {vic[t]})
    /\ \/ WantNext(t, left[t], "reach") /\ UNCHANGED <<rd, lobby>>
       \/ /\ IF how[t] = "ban" THEN EndLook(t) ELSE NextBlock(t)
          /\ left' = [left EXCEPT ![t] = {}]
          /\ vic' = [vic EXCEPT ![t] = None]
          /\ IF how[t] \in Locks
             THEN rd' = [rd EXCEPT ![t][b] = @ - 1] /\ UNCHANGED lobby
             ELSE lobby' = [lobby EXCEPT ![b] = Nobody] /\ UNCHANGED rd
    /\ UNCHANGED <<at, round>>

Looks(t) == LookInLists(t) \/ WalkLists(t) \/ Ban(t) \/ LookInLobbies(t)

Steps(t) ==
    \/ Enter(t) \/ EnterBan(t) \/ EnterBare(t) \/ EnterLobby(t)
    \/ Reach(t) \/ Told(t) \/ Walk(t)

Serves(b) ==
    \/ Round(b) \/ Accept(b) \/ Lock(b) \/ Served(b) \/ Leak(b)
    \/ Sweep(b) \/ Bury(b) \/ EndRound(b)

Next ==
    \/ \E t \in Thread : Looks(t) \/ Steps(t)
    \/ \E b \in Block : Serves(b)

Spec == Init /\ [][Next]_vars

(***************************************************************************)
(* Fairness: a thread that can go on again and again does so, which says   *)
(* of a lock that whoever waits for it gets it when it is unlocked again   *)
(* and again, and of a handler that it ends.                               *)
(***************************************************************************)
Fairness == /\ \A t \in Thread : SF_vars(Steps(t))
            /\ \A b \in Block : SF_vars(Serves(b))

FairSpec == Spec /\ Fairness

(***************************************************************************)
(* Properties.                                                             *)
(***************************************************************************)

\* The clients a thread may touch before it looks for the next: with a lock also those
\* still to come, in a bare walk the one it has come to.
LooksAt(t) == CASE pc[t] \in {"reach", "told"} -> left[t] \cup {vic[t]}
                [] pc[t] = "walk" -> {vic[t]}
                [] OTHER -> {}

\* A client is not freed under a thread that may still touch it, but for one case: a
\* walk without a lock through the list of another block's thread.  Those in the part
\* of a list or of a lobby that a thread has still to look at, the one whose mutex it
\* waits for and the one whose mutex it has are in the list of that block, whatever
\* a ban has unlocked, and so is the one the block serves, and any a handler comes by
\* in its own block.  The sweep (block.c:489) relies on the block's lock for it,
\* lobby_remove_player on the mutex of the lobby, and what needs no lock on being the
\* thread that sweeps.
UsedIsThere ==
    /\ \A t \in Thread : \A c \in LooksAt(t) :
          at[c] = blk[t] \/ (how[t] = "bare" /\ t # blk[t])
    /\ \A b \in Block : cur[b] # None => at[cur[b]] = b

Serving(t) == t # Outside /\ pc[t] \in {"handle", "enter", "reach", "told", "walk"}

\* The threads one waits for.
WaitsFor(t) ==
    CASE pc[t] = "lock"  -> {holder[cur[t]]} \ {t, Nobody}
      [] pc[t] = "reach" -> {holder[vic[t]]} \ {t, Nobody}
      [] pc[t] = "enter" /\ how[t] \in Locks -> {b \in Block : b = blk[t] /\ b # t /\ Writer(b)}
      [] pc[t] = "enter" /\ how[t] = "lobby" -> {lobby[blk[t]]} \ {Nobody}
      [] pc[t] \in {"accept", "sweep"} -> {u \in Thread : rd[u][t] > 0}
      [] pc[t] = "bury" -> {lobby[t]} \ {Nobody}
      [] OTHER -> {}

Deadlocks == {S \in SUBSET Thread : S # {} /\ \A t \in S : WaitsFor(t) \cap S # {}}

\* The mutex of a client is locked more often than its holder has it in hand.
InHand(c, t) ==
    (IF Serving(t) /\ cur[t] = c THEN 1 ELSE 0)
    + (IF pc[t] = "told" /\ vic[t] = c THEN 1 ELSE 0)

Leaked(c) == holder[c] # Nobody /\ depth[c] > InHand(c, holder[c])

\* The only way to a deadlock is the mutex that a block's thread keeps over the
\* whole handler (block.c:425): one thread of the deadlock waits for the client
\* that another one of it serves while that waits itself -- or for a mutex that
\* was never unlocked.  Neither that a thread locks its own block for reading
\* twice, nor that writers go first, nor that the sweep takes the mutex of a lobby
\* under the block's lock leads to one.
OnlyCrossings ==
    \A S \in Deadlocks :
        \/ \E b, t \in S : /\ b # t /\ Serving(b)
                           /\ pc[t] = "reach" /\ vic[t] = cur[b]
        \/ \E t \in S : pc[t] = "reach" /\ Leaked(vic[t])

\* "If we haven't heard from a client in a minute and a half, it is probably dead.
\* Disconnect it." (block.c:215)
DeadAreDisconnected == \A c \in Client : c \in flagged ~> at[c] = 0
=============================================================================
