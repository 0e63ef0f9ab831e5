-------------------------- MODULE BlockLocksProofs --------------------------
(***************************************************************************)
(* That no client is freed under a thread that may still touch it, but for *)
(* walks without a lock through another block's list, and that only the    *)
(* mutex a block's thread keeps over a handler can lead to a deadlock, for *)
(* any number of blocks and clients.  The inductive invariant accounts for *)
(* every lock but the clients' mutexes by where the threads are; a mutex   *)
(* may be held longer than that, by a leak, or shorter, after a ban.       *)
(***************************************************************************)
EXTENDS BlockLocks, TLAPS

Busy == {"lock", "handle", "enter", "reach", "told", "walk"}
Looking == {"reach", "told"}

\* Where a thread is tells what it has chosen.
Placed ==
    /\ pc[Outside] \in {"idle", "enter", "reach", "told", "walk"}
    /\ cur[Outside] = None
    /\ \A b \in Block : pc[b] # "idle"
    /\ \A b \in Block : cur[b] # None <=> pc[b] \in Busy
    /\ \A b \in Block : pc[b] \in Busy => \A c \in rest[b] : at[c] = b
    /\ \A t \in Thread : pc[t] \in Looking => vic[t] # None /\ how[t] # "bare"
    /\ \A t \in Thread : pc[t] = "walk" => vic[t] # None /\ how[t] = "bare"

\* A block's lock is held for reading by its own thread while that serves, and by
\* each thread that looks at a client of the list.
Own(t, b) == IF t = b /\ pc[t] \in Busy THEN 1 ELSE 0
Look(t, b) == IF pc[t] \in Looking /\ how[t] \in Locks /\ blk[t] = b THEN 1 ELSE 0

ReadersRight == \A t \in Thread, b \in Block : rd[t][b] = Own(t, b) + Look(t, b)

\* The mutex of a lobby is held by the thread that looks at a member.
LobbiesRight ==
    \A t \in Thread, b \in Block :
        lobby[b] = t <=> pc[t] \in Looking /\ how[t] = "lobby" /\ blk[t] = b

\* The mutex of a client is held by the thread of its block, or by one that has
\* reached it, which has locked it once.  Not even the thread that serves a client need
\* have its mutex: a ban may have unlocked it.
MutexesRight ==
    /\ \A c \in Client : depth[c] = 0 <=> holder[c] = Nobody
    /\ \A c \in Client, t \in Thread : holder[c] = t =>
        \/ t # Outside /\ at[c] = t
        \/ pc[t] = "told" /\ vic[t] = c /\ depth[c] = 1
    /\ \A t \in Thread : pc[t] = "told" => holder[vic[t]] = t

\* While the block's thread frees clients nobody reads the list.
BuryAlone ==
    \A b \in Block : pc[b] = "bury" => \A t \in Thread : rd[t][b] = 0

IInv == /\ TypeOK /\ Placed /\ ReadersRight /\ LobbiesRight /\ BuryAlone
        /\ UsedIsThere /\ MutexesRight

\* What the thread of a block does next in its round, with todo left to serve: it
\* goes to the lock of one of them or is past them all.
Turns(b, todo) ==
    \E c \in Client \cup {None}, r \in SUBSET Client,
       l \in {"lock", "sweep", "accept"}, k \in {0, 1} :
        /\ cur' = [cur EXCEPT ![b] = c]
        /\ rest' = [rest EXCEPT ![b] = r]
        /\ pc' = [pc EXCEPT ![b] = l]
        /\ rd' = [rd EXCEPT ![b] = [rd[b] EXCEPT ![b] = k]]
        /\ l = "lock" => c \in todo /\ r \subseteq todo /\ k = 1
        /\ l # "lock" => c = None /\ k = 0

\* A thread leaves a block for the next one or is done with its look.
Leaves(t) ==
    \E l \in {"idle", "handle", "enter"}, h \in Ways, d \in Block :
        /\ t = Outside => l # "handle"
        /\ t # Outside => l # "idle"
        /\ pc' = [pc EXCEPT ![t] = l]
        /\ how' = [how EXCEPT ![t] = h]
        /\ blk' = [blk EXCEPT ![t] = d]

-----------------------------------------------------------------------------
\* Every thread is a block's or the one outside, and nobody is none of them.
LEMMA Threads ==
    /\ Thread = Block \cup {Outside}
    /\ Outside \notin Block /\ Outside \in Thread
    /\ Nobody \notin Thread
    /\ Block \subseteq Thread
    /\ \A b \in Block : b # Outside /\ b # 0 /\ b \in 0 .. NumBlocks
    /\ Outside = 0
  BY BlocksAssumption, SMT DEF Thread, Block, Outside, Nobody

\* The initial states are as the invariant says.
LEMMA Initial == Init => IInv
<1> SUFFICES ASSUME Init PROVE IInv  OBVIOUS
<1> USE BlocksAssumption, NoneAssumption, Threads DEF Init
<1>1. 1 \in Block
  BY DEF Block
<1>2. TypeOK
  BY <1>1, SMT DEF TypeOK, Labels, Ways, Block, Thread, Outside, Nobody
<1>3. Placed
  BY DEF Placed, Busy, Looking
<1>4. ReadersRight
  BY DEF ReadersRight, Own, Look, Busy, Looking
<1>5. LobbiesRight
  BY DEF LobbiesRight, Looking
<1>6. BuryAlone
  BY DEF BuryAlone
<1>7. UsedIsThere
  BY DEF UsedIsThere, LooksAt
<1>8. MutexesRight
  BY DEF MutexesRight, Serving, Outside
<1> QED  BY <1>2, <1>3, <1>4, <1>5, <1>6, <1>7, <1>8 DEF IInv

\* What a thread unlocks: only what it has, and each mutex once.
Loosened(t, S) ==
    /\ holder' \in [Client -> Thread \cup {Nobody}] /\ depth' \in [Client -> Nat]
    /\ \A c \in Client : depth'[c] = 0 <=> holder'[c] = Nobody
    /\ \A c \in Client : holder'[c] # Nobody => holder'[c] = holder[c]
    /\ \A c \in Client : holder[c] # t => holder'[c] = holder[c] /\ depth'[c] = depth[c]
    /\ \A c \in S : holder[c] = t => depth'[c] + 1 = depth[c]

LEMMA Loosen ==
    ASSUME TypeOK, MutexesRight, NEW t \in Thread, NEW S \in SUBSET Client, Unlocked(t, S)
    PROVE  Loosened(t, S)
<1> USE Threads
<1>1. holder \in [Client -> Thread \cup {Nobody}] /\ depth \in [Client -> Nat]
  BY DEF TypeOK
<1>2. \A c \in Client : depth[c] = 0 <=> holder[c] = Nobody
  BY DEF MutexesRight
<1>3. ASSUME NEW c \in Client
      PROVE  /\ holder'[c] = IF c \in S /\ holder[c] = t /\ depth[c] = 1 THEN Nobody ELSE holder[c]
             /\ depth'[c] = IF c \in S /\ holder[c] = t THEN depth[c] - 1 ELSE depth[c]
  BY DEF Unlocked
<1>4. holder' = [c \in Client |-> holder'[c]] /\ depth' = [c \in Client |-> depth'[c]]
  BY DEF Unlocked
<1>5. ASSUME NEW c \in Client
      PROVE  /\ holder'[c] \in Thread \cup {Nobody} /\ depth'[c] \in Nat
             /\ depth'[c] = 0 <=> holder'[c] = Nobody
             /\ holder'[c] # Nobody => holder'[c] = holder[c]
             /\ holder[c] # t => holder'[c] = holder[c] /\ depth'[c] = depth[c]
             /\ c \in S /\ holder[c] = t => depth'[c] + 1 = depth[c]
  BY <1>1, <1>2, <1>3, SMT
<1>6. holder' \in [Client -> Thread \cup {Nobody}] /\ depth' \in [Client -> Nat]
  BY <1>4, <1>5
<1>7. \A c \in Client : depth'[c] = 0 <=> holder'[c] = Nobody
  BY <1>5
<1>8. \A c \in Client : holder'[c] # Nobody => holder'[c] = holder[c]
  BY <1>5
<1>9. \A c \in Client : holder[c] # t => holder'[c] = holder[c] /\ depth'[c] = depth[c]
  BY <1>5
<1>10. \A c \in S : holder[c] = t => depth'[c] + 1 = depth[c]
  BY <1>5
<1> QED  BY <1>6, <1>7, <1>8, <1>9, <1>10 DEF Loosened

\* To unlock none is to leave the mutexes alone.
LEMMA LooseNone ==
    ASSUME TypeOK, MutexesRight, NEW t \in Thread, UNCHANGED <<holder, depth>>
    PROVE  Unlocked(t, {})
  BY DEF TypeOK, Unlocked

\* A look at other clients begins.
LEMMA LooksStep == ASSUME IInv, NEW t \in Thread, Looks(t) PROVE IInv'
<1> USE Threads, BlocksAssumption
<1>1. /\ pc[t] \in {"handle", "idle"} /\ pc' = [pc EXCEPT ![t] = "enter"]
      /\ \E h \in Ways : how' = [how EXCEPT ![t] = h]
      /\ \E b \in Block : blk' = [blk EXCEPT ![t] = b]
      /\ UNCHANGED <<at, flagged, cur, rest, left, vic, rd, holder, depth, lobby>>
  <2>1. 1 \in Block
    BY SMT DEF Block
  <2>2. ASSUME NEW h \in Ways, NEW bs \in SUBSET Block, Start(t, h, bs)
        PROVE  /\ pc[t] \in {"handle", "idle"} /\ pc' = [pc EXCEPT ![t] = "enter"]
               /\ how' = [how EXCEPT ![t] = h]
               /\ \E b \in Block : blk' = [blk EXCEPT ![t] = b]
               /\ UNCHANGED <<at, flagged, cur, rest, left, vic, rd, holder, depth, lobby>>
    BY <2>2 DEF Start, Goto, round, clients, mutexes
  <2>3. \E h \in Ways, bs \in SUBSET Block : Start(t, h, bs)
    <3>1. {1} \in SUBSET Block /\ Block \in SUBSET Block
      BY <2>1
    <3>2. "list" \in Ways /\ "ban" \in Ways /\ "lobby" \in Ways /\ "bare" \in Ways
      BY DEF Ways
    <3> QED  BY <3>1, <3>2 DEF Looks, LookInLists, WalkLists, Ban, LookInLobbies
  <2> QED  BY <2>2, <2>3
<1>2. TypeOK /\ Placed /\ ReadersRight /\ LobbiesRight /\ BuryAlone /\ UsedIsThere /\ MutexesRight
  BY DEF IInv
<1>3. (pc[t] = "handle" /\ t \in Block) \/ (pc[t] = "idle" /\ t = Outside)
  <2>1. t \in Block => pc[t] # "idle"
    BY <1>2 DEF Placed
  <2>2. t = Outside => pc[t] # "handle"
    BY <1>2, SMT DEF Placed
  <2>3. t \in Block \/ t = Outside
    BY Threads, Zenon
  <2>4. pc[t] \in {"handle", "idle"} => pc[t] = "handle" \/ pc[t] = "idle"
    OBVIOUS
  <2> QED  BY <1>1, <2>1, <2>2, <2>3, <2>4, Zenon
<1>4. TypeOK'
  <2>1. pc' \in [Thread -> Labels]
    BY <1>1, <1>2, <1>3, SMT DEF TypeOK, Labels
  <2>2. how' \in [Thread -> Ways]
    BY <1>1, <1>2, <1>3, SMT DEF TypeOK
  <2>3. blk' \in [Thread -> Block]
    BY <1>1, <1>2, <1>3, SMT DEF TypeOK
  <2> QED  BY <1>1, <1>2, <2>1, <2>2, <2>3 DEF TypeOK
<1>5. Placed'
  BY <1>1, <1>2, <1>3, SMTT(20) DEF Placed, TypeOK, Busy, Looking
<1>6. ReadersRight'
  <2> SUFFICES ASSUME NEW u \in Thread, NEW d \in Block
               PROVE  rd'[u][d] = Own(u, d)' + Look(u, d)'
    BY DEF ReadersRight
  <2>1. rd[u][d] = Own(u, d) + Look(u, d)
    BY <1>2 DEF ReadersRight
  <2> QED  BY <1>1, <1>2, <1>3, <2>1, SMTT(20) DEF TypeOK, Own, Look, Busy, Looking
<1>7. LobbiesRight'
  <2> SUFFICES ASSUME NEW u \in Thread, NEW d \in Block
               PROVE  lobby'[d] = u <=> pc'[u] \in Looking /\ how'[u] = "lobby" /\ blk'[u] = d
    BY DEF LobbiesRight
  <2>1. lobby[d] = u <=> pc[u] \in Looking /\ how[u] = "lobby" /\ blk[u] = d
    <3>1. LobbiesRight
      BY <1>2
    <3> QED  BY <3>1, SMT DEF LobbiesRight
  <2> QED  BY <1>1, <1>2, <1>3, <2>1, SMTT(20) DEF TypeOK, Looking
<1>8. BuryAlone'
  <2> SUFFICES ASSUME NEW d \in Block, pc'[d] = "bury", NEW u \in Thread PROVE rd'[u][d] = 0
    BY DEF BuryAlone
  <2>1. pc[d] = "bury"
    BY <1>1, <1>2 DEF TypeOK
  <2> QED  BY <1>1, <1>2, <2>1 DEF BuryAlone
<1>9. UsedIsThere'
  BY <1>1, <1>2, <1>3, SMTT(20) DEF UsedIsThere, LooksAt, TypeOK, Placed, Busy, Looking
<1>10. MutexesRight'
  <2>1. \A c \in Client : depth'[c] = 0 <=> holder'[c] = Nobody
    BY <1>1, <1>2, <1>3, SMTT(20) DEF MutexesRight, TypeOK
  <2>2. \A c \in Client, u \in Thread : holder'[c] = u =>
          \/ u # Outside /\ at'[c] = u
          \/ pc'[u] = "told" /\ vic'[u] = c /\ depth'[c] = 1
    BY <1>1, <1>2, <1>3, SMTT(20) DEF MutexesRight, TypeOK
  <2>3. \A u \in Thread : pc'[u] = "told" => holder'[vic'[u]] = u
    BY <1>1, <1>2, <1>3, SMTT(20) DEF MutexesRight, TypeOK
  <2> QED  BY <2>1, <2>2, <2>3 DEF MutexesRight
<1> QED  BY <1>4, <1>5, <1>6, <1>7, <1>8, <1>9, <1>10 DEF IInv

\* A mutex is taken.
LEMMA ReachStep == ASSUME IInv, NEW t \in Thread, Reach(t) PROVE IInv'
<1> USE Threads, BlocksAssumption
<1>1. /\ pc[t] = "reach" /\ pc' = [pc EXCEPT ![t] = "told"]
      /\ holder[vic[t]] \in {t, Nobody}
      /\ holder' = [holder EXCEPT ![vic[t]] = t]
      /\ depth' = [depth EXCEPT ![vic[t]] = @ + 1]
      /\ UNCHANGED <<at, flagged, cur, rest, how, blk, left, vic, rd, lobby>>
  BY DEF Reach, Goto, Free, Locked, look, round, clients
<1>2. TypeOK /\ Placed /\ ReadersRight /\ LobbiesRight /\ BuryAlone /\ UsedIsThere /\ MutexesRight
  BY DEF IInv
<1>3. vic[t] \in Client
  BY <1>1, <1>2, NoneAssumption, SMT DEF TypeOK, Placed, Looking
<1>4. TypeOK'
  <2>1. pc' \in [Thread -> Labels]
    BY <1>1, <1>2, <1>3, SMT DEF TypeOK, Labels
  <2>2. holder' \in [Client -> Thread \cup {Nobody}] /\ depth' \in [Client -> Nat]
    BY <1>1, <1>2, <1>3, SMT DEF TypeOK
  <2> QED  BY <1>1, <1>2, <2>1, <2>2 DEF TypeOK
<1>5. Placed'
  BY <1>1, <1>2, <1>3, SMTT(20) DEF Placed, TypeOK, Busy, Looking
<1>6. ReadersRight'
  <2> SUFFICES ASSUME NEW u \in Thread, NEW d \in Block
               PROVE  rd'[u][d] = Own(u, d)' + Look(u, d)'
    BY DEF ReadersRight
  <2>1. rd[u][d] = Own(u, d) + Look(u, d)
    BY <1>2 DEF ReadersRight
  <2> QED  BY <1>1, <1>2, <1>3, <2>1, SMTT(20) DEF TypeOK, Own, Look, Busy, Looking
<1>7. LobbiesRight'
  <2> SUFFICES ASSUME NEW u \in Thread, NEW d \in Block
               PROVE  lobby'[d] = u <=> pc'[u] \in Looking /\ how'[u] = "lobby" /\ blk'[u] = d
    BY DEF LobbiesRight
  <2>1. lobby[d] = u <=> pc[u] \in Looking /\ how[u] = "lobby" /\ blk[u] = d
    <3>1. LobbiesRight
      BY <1>2
    <3> QED  BY <3>1, SMT DEF LobbiesRight
  <2> QED  BY <1>1, <1>2, <1>3, <2>1, SMTT(20) DEF TypeOK, Looking
<1>8. BuryAlone'
  BY <1>1, <1>2, <1>3, SMTT(20) DEF BuryAlone, TypeOK
<1>9. UsedIsThere'
  BY <1>1, <1>2, <1>3, SMTT(20) DEF UsedIsThere, LooksAt, TypeOK, Placed, Busy, Looking
<1>10. MutexesRight'
  <2>1. \A c \in Client : depth'[c] = 0 <=> holder'[c] = Nobody
    BY <1>1, <1>2, <1>3, SMTT(20) DEF MutexesRight, TypeOK
  <2>2. \A c \in Client, u \in Thread : holder'[c] = u =>
          \/ u # Outside /\ at'[c] = u
          \/ pc'[u] = "told" /\ vic'[u] = c /\ depth'[c] = 1
    BY <1>1, <1>2, <1>3, SMTT(20) DEF MutexesRight, TypeOK
  <2>3. \A u \in Thread : pc'[u] = "told" => holder'[vic'[u]] = u
    BY <1>1, <1>2, <1>3, SMTT(20) DEF MutexesRight, TypeOK
  <2> QED  BY <2>1, <2>2, <2>3 DEF MutexesRight
<1> QED  BY <1>4, <1>5, <1>6, <1>7, <1>8, <1>9, <1>10 DEF IInv

\* The thread of a block takes the mutex of the client it is to serve.
LEMMA LockStep == ASSUME IInv, NEW b \in Block, Lock(b) PROVE IInv'
<1> USE Threads, BlocksAssumption
<1>1. /\ pc[b] = "lock" /\ pc' = [pc EXCEPT ![b] = "handle"]
      /\ holder[cur[b]] \in {b, Nobody}
      /\ holder' = [holder EXCEPT ![cur[b]] = b]
      /\ depth' = [depth EXCEPT ![cur[b]] = @ + 1]
      /\ UNCHANGED <<at, flagged, cur, rest, how, blk, left, vic, rd, lobby>>
  BY DEF Lock, Goto, Free, Locked, look, round, clients
<1>2. TypeOK /\ Placed /\ ReadersRight /\ LobbiesRight /\ BuryAlone /\ UsedIsThere /\ MutexesRight
  BY DEF IInv
<1>3. cur[b] \in Client /\ at[cur[b]] = b
  BY <1>1, <1>2, NoneAssumption, SMT DEF TypeOK, Placed, Busy, UsedIsThere
<1>4. TypeOK'
  <2>1. pc' \in [Thread -> Labels]
    BY <1>1, <1>2, <1>3, SMT DEF TypeOK, Labels
  <2>2. holder' \in [Client -> Thread \cup {Nobody}] /\ depth' \in [Client -> Nat]
    BY <1>1, <1>2, <1>3, SMT DEF TypeOK
  <2> QED  BY <1>1, <1>2, <2>1, <2>2 DEF TypeOK
<1>5. Placed'
  BY <1>1, <1>2, <1>3, SMTT(20) DEF Placed, TypeOK, Busy, Looking
<1>6. ReadersRight'
  <2> SUFFICES ASSUME NEW u \in Thread, NEW d \in Block
               PROVE  rd'[u][d] = Own(u, d)' + Look(u, d)'
    BY DEF ReadersRight
  <2>1. rd[u][d] = Own(u, d) + Look(u, d)
    BY <1>2 DEF ReadersRight
  <2> QED  BY <1>1, <1>2, <1>3, <2>1, SMTT(20) DEF TypeOK, Own, Look, Busy, Looking
<1>7. LobbiesRight'
  <2> SUFFICES ASSUME NEW u \in Thread, NEW d \in Block
               PROVE  lobby'[d] = u <=> pc'[u] \in Looking /\ how'[u] = "lobby" /\ blk'[u] = d
    BY DEF LobbiesRight
  <2>1. lobby[d] = u <=> pc[u] \in Looking /\ how[u] = "lobby" /\ blk[u] = d
    <3>1. LobbiesRight
      BY <1>2
    <3> QED  BY <3>1, SMT DEF LobbiesRight
  <2> QED  BY <1>1, <1>2, <1>3, <2>1, SMTT(20) DEF TypeOK, Looking
<1>8. BuryAlone'
  BY <1>1, <1>2, <1>3, SMTT(20) DEF BuryAlone, TypeOK
<1>9. UsedIsThere'
  BY <1>1, <1>2, <1>3, SMTT(20) DEF UsedIsThere, LooksAt, TypeOK, Placed, Busy, Looking
<1>10. MutexesRight'
  <2>1. \A c \in Client : depth'[c] = 0 <=> holder'[c] = Nobody
    BY <1>1, <1>2, <1>3, SMTT(20) DEF MutexesRight, TypeOK
  <2>2. \A c \in Client, u \in Thread : holder'[c] = u =>
          \/ u # Outside /\ at'[c] = u
          \/ pc'[u] = "told" /\ vic'[u] = c /\ depth'[c] = 1
    BY <1>1, <1>2, <1>3, SMTT(20) DEF MutexesRight, TypeOK
  <2>3. \A u \in Thread : pc'[u] = "told" => holder'[vic'[u]] = u
    BY <1>1, <1>2, <1>3, SMTT(20) DEF MutexesRight, TypeOK
  <2> QED  BY <2>1, <2>2, <2>3 DEF MutexesRight
<1> QED  BY <1>4, <1>5, <1>6, <1>7, <1>8, <1>9, <1>10 DEF IInv

\* The sweep takes the block's lock.
LEMMA SweepStep == ASSUME IInv, NEW b \in Block, Sweep(b) PROVE IInv'
<1> USE Threads, BlocksAssumption
<1>1. /\ pc[b] = "sweep" /\ pc' = [pc EXCEPT ![b] = "bury"]
      /\ \A u \in Thread : rd[u][b] = 0
      /\ UNCHANGED <<at, flagged, cur, rest, how, blk, left, vic, rd, holder, depth, lobby>>
  BY DEF Sweep, NoReaders, Goto, look, round, clients, mutexes
<1>2. TypeOK /\ Placed /\ ReadersRight /\ LobbiesRight /\ BuryAlone /\ UsedIsThere /\ MutexesRight
  BY DEF IInv
<1>3. TypeOK'
  <2>1. pc' \in [Thread -> Labels]
    BY <1>1, <1>2, SMT DEF TypeOK, Labels
  <2> QED  BY <1>1, <1>2, <2>1 DEF TypeOK
<1>4. Placed'
  BY <1>1, <1>2, SMTT(20) DEF Placed, TypeOK, Busy, Looking
<1>5. ReadersRight'
  <2> SUFFICES ASSUME NEW u \in Thread, NEW d \in Block
               PROVE  rd'[u][d] = Own(u, d)' + Look(u, d)'
    BY DEF ReadersRight
  <2>1. rd[u][d] = Own(u, d) + Look(u, d)
    BY <1>2 DEF ReadersRight
  <2> QED  BY <1>1, <1>2, <2>1, SMTT(20) DEF TypeOK, Own, Look, Busy, Looking
<1>6. LobbiesRight'
  <2> SUFFICES ASSUME NEW u \in Thread, NEW d \in Block
               PROVE  lobby'[d] = u <=> pc'[u] \in Looking /\ how'[u] = "lobby" /\ blk'[u] = d
    BY DEF LobbiesRight
  <2>1. lobby[d] = u <=> pc[u] \in Looking /\ how[u] = "lobby" /\ blk[u] = d
    <3>1. LobbiesRight
      BY <1>2
    <3> QED  BY <3>1, SMT DEF LobbiesRight
  <2> QED  BY <1>1, <1>2, <2>1, SMTT(20) DEF TypeOK, Looking
<1>7. BuryAlone'
  BY <1>1, <1>2, SMTT(20) DEF BuryAlone, TypeOK
<1>8. UsedIsThere'
  BY <1>1, <1>2, SMTT(20) DEF UsedIsThere, LooksAt, TypeOK, Placed, Busy, Looking
<1>9. MutexesRight'
  <2>1. \A c \in Client : depth'[c] = 0 <=> holder'[c] = Nobody
    BY <1>1, <1>2, SMTT(20) DEF MutexesRight, TypeOK
  <2>2. \A c \in Client, u \in Thread : holder'[c] = u =>
          \/ u # Outside /\ at'[c] = u
          \/ pc'[u] = "told" /\ vic'[u] = c /\ depth'[c] = 1
    BY <1>1, <1>2, SMTT(20) DEF MutexesRight, TypeOK
  <2>3. \A u \in Thread : pc'[u] = "told" => holder'[vic'[u]] = u
    BY <1>1, <1>2, SMTT(20) DEF MutexesRight, TypeOK
  <2> QED  BY <2>1, <2>2, <2>3 DEF MutexesRight
<1> QED  BY <1>3, <1>4, <1>5, <1>6, <1>7, <1>8, <1>9 DEF IInv

\* The round ends.
LEMMA EndRoundStep == ASSUME IInv, NEW b \in Block, EndRound(b) PROVE IInv'
<1> USE Threads, BlocksAssumption
<1>1. /\ pc[b] = "bury" /\ pc' = [pc EXCEPT ![b] = "round"]
      /\ UNCHANGED <<at, flagged, cur, rest, how, blk, left, vic, rd, holder, depth, lobby>>
  BY DEF EndRound, Goto, look, round, clients, mutexes
<1>2. TypeOK /\ Placed /\ ReadersRight /\ LobbiesRight /\ BuryAlone /\ UsedIsThere /\ MutexesRight
  BY DEF IInv
<1>3. TypeOK'
  <2>1. pc' \in [Thread -> Labels]
    BY <1>1, <1>2, SMT DEF TypeOK, Labels
  <2> QED  BY <1>1, <1>2, <2>1 DEF TypeOK
<1>4. Placed'
  BY <1>1, <1>2, SMTT(20) DEF Placed, TypeOK, Busy, Looking
<1>5. ReadersRight'
  <2> SUFFICES ASSUME NEW u \in Thread, NEW d \in Block
               PROVE  rd'[u][d] = Own(u, d)' + Look(u, d)'
    BY DEF ReadersRight
  <2>1. rd[u][d] = Own(u, d) + Look(u, d)
    BY <1>2 DEF ReadersRight
  <2> QED  BY <1>1, <1>2, <2>1, SMTT(20) DEF TypeOK, Own, Look, Busy, Looking
<1>6. LobbiesRight'
  <2> SUFFICES ASSUME NEW u \in Thread, NEW d \in Block
               PROVE  lobby'[d] = u <=> pc'[u] \in Looking /\ how'[u] = "lobby" /\ blk'[u] = d
    BY DEF LobbiesRight
  <2>1. lobby[d] = u <=> pc[u] \in Looking /\ how[u] = "lobby" /\ blk[u] = d
    <3>1. LobbiesRight
      BY <1>2
    <3> QED  BY <3>1, SMT DEF LobbiesRight
  <2> QED  BY <1>1, <1>2, <2>1, SMTT(20) DEF TypeOK, Looking
<1>7. BuryAlone'
  BY <1>1, <1>2, SMTT(20) DEF BuryAlone, TypeOK
<1>8. UsedIsThere'
  BY <1>1, <1>2, SMTT(20) DEF UsedIsThere, LooksAt, TypeOK, Placed, Busy, Looking
<1>9. MutexesRight'
  <2>1. \A c \in Client : depth'[c] = 0 <=> holder'[c] = Nobody
    BY <1>1, <1>2, SMTT(20) DEF MutexesRight, TypeOK
  <2>2. \A c \in Client, u \in Thread : holder'[c] = u =>
          \/ u # Outside /\ at'[c] = u
          \/ pc'[u] = "told" /\ vic'[u] = c /\ depth'[c] = 1
    BY <1>1, <1>2, SMTT(20) DEF MutexesRight, TypeOK
  <2>3. \A u \in Thread : pc'[u] = "told" => holder'[vic'[u]] = u
    BY <1>1, <1>2, SMTT(20) DEF MutexesRight, TypeOK
  <2> QED  BY <2>1, <2>2, <2>3 DEF MutexesRight
<1> QED  BY <1>3, <1>4, <1>5, <1>6, <1>7, <1>8, <1>9 DEF IInv

\* A client is freed: nobody reads the list of its block or has the lobby's mutex.
LEMMA BuryStep == ASSUME IInv, NEW b \in Block, Bury(b) PROVE IInv'
<1> USE Threads, BlocksAssumption
<1>1. /\ pc[b] = "bury" /\ lobby[b] = Nobody
      /\ \E c \in Client : /\ at[c] = b
                           /\ at' = [at EXCEPT ![c] = 0]
                           /\ flagged' = flagged \ {c}
                           /\ holder' = [holder EXCEPT ![c] = Nobody]
                           /\ depth' = [depth EXCEPT ![c] = 0]
      /\ UNCHANGED <<pc, cur, rest, how, blk, left, vic, rd, lobby>>
  BY DEF Bury, In, look, round
<1>2. TypeOK /\ Placed /\ ReadersRight /\ LobbiesRight /\ BuryAlone /\ UsedIsThere /\ MutexesRight
  BY DEF IInv
<1>3. PICK c \in Client : /\ at[c] = b
                        /\ at' = [at EXCEPT ![c] = 0]
                        /\ flagged' = flagged \ {c}
                        /\ holder' = [holder EXCEPT ![c] = Nobody]
                        /\ depth' = [depth EXCEPT ![c] = 0]
  BY <1>1
<1>4. \A u \in Thread : pc[u] \in Looking => blk[u] # b
  <2> SUFFICES ASSUME NEW u \in Thread, pc[u] \in Looking, blk[u] = b PROVE FALSE
    OBVIOUS
  <2>1. how[u] \in Locks \cup {"lobby"}
    BY <1>2, SMT DEF TypeOK, Placed, Ways, Locks
  <2>2. lobby[b] # u
    BY <1>1
  <2>3. how[u] # "lobby"
    BY <1>2, <2>2 DEF LobbiesRight
  <2>4. rd[u][b] = Own(u, b) + 1 /\ rd[u][b] = 0
    BY <1>1, <1>2, <2>1, <2>3, SMT DEF ReadersRight, BuryAlone, Look
  <2> QED  BY <2>4, SMT DEF Own
<1>5. \A u \in Thread : pc[u] \in Looking => vic[u] \in Client /\ at[vic[u]] = blk[u]
  BY <1>2, NoneAssumption, SMTT(20) DEF TypeOK, Placed, UsedIsThere, LooksAt, Looking
<1>6. \A d \in Block : pc[d] \in Busy => cur[d] \in Client /\ at[cur[d]] = d /\ d # b
  BY <1>1, <1>2, NoneAssumption, SMTT(20) DEF TypeOK, Placed, UsedIsThere, Busy
<1>7. TypeOK'
  <2>1. at' \in [Client -> 0 .. NumBlocks]
    BY <1>1, <1>2, <1>3, <1>4, <1>5, <1>6, SMT DEF TypeOK, Block
  <2>2. flagged' \subseteq Client
    BY <1>1, <1>2, <1>3, <1>4, <1>5, <1>6, SMT DEF TypeOK
  <2>3. holder' \in [Client -> Thread \cup {Nobody}] /\ depth' \in [Client -> Nat]
    BY <1>1, <1>2, <1>3, <1>4, <1>5, <1>6, SMT DEF TypeOK
  <2> QED  BY <1>1, <1>2, <2>1, <2>2, <2>3 DEF TypeOK
<1>8. Placed'
  BY <1>1, <1>2, <1>3, <1>4, <1>5, <1>6, SMTT(20) DEF Placed, TypeOK, Busy, Looking
<1>9. ReadersRight'
  <2> SUFFICES ASSUME NEW u \in Thread, NEW d \in Block
               PROVE  rd'[u][d] = Own(u, d)' + Look(u, d)'
    BY DEF ReadersRight
  <2>1. rd[u][d] = Own(u, d) + Look(u, d)
    BY <1>2 DEF ReadersRight
  <2> QED  BY <1>1, <1>2, <1>3, <1>4, <1>5, <1>6, <2>1, SMTT(20) DEF TypeOK, Own, Look, Busy, Looking
<1>10. LobbiesRight'
  <2> SUFFICES ASSUME NEW u \in Thread, NEW d \in Block
               PROVE  lobby'[d] = u <=> pc'[u] \in Looking /\ how'[u] = "lobby" /\ blk'[u] = d
    BY DEF LobbiesRight
  <2>1. lobby[d] = u <=> pc[u] \in Looking /\ how[u] = "lobby" /\ blk[u] = d
    <3>1. LobbiesRight
      BY <1>2
    <3> QED  BY <3>1, SMT DEF LobbiesRight
  <2> QED  BY <1>1, <1>2, <1>3, <1>4, <1>5, <1>6, <2>1, SMTT(20) DEF TypeOK, Looking
<1>11. BuryAlone'
  BY <1>1, <1>2, <1>3, <1>4, <1>5, <1>6, SMTT(20) DEF BuryAlone, TypeOK
<1>12. UsedIsThere'
  <2>1. ASSUME NEW u \in Thread, NEW d \in LooksAt(u)'
        PROVE  at'[d] = blk'[u] \/ (how'[u] = "bare" /\ u # blk'[u])
    <3>1. d \in LooksAt(u)
      BY <1>1, <2>1, SMT DEF LooksAt
    <3>2. pc[u] \in Looking \cup {"walk"}
      BY <3>1, SMT DEF LooksAt, Looking
    <3>3. at[d] = blk[u] \/ (how[u] = "bare" /\ u # blk[u])
      BY <1>2, <3>1 DEF UsedIsThere
    <3>4. CASE how[u] = "bare" /\ u # blk[u]
      BY <1>1, <3>4
    <3>5. CASE at[d] = blk[u] /\ ~ (how[u] = "bare" /\ u # blk[u])
      <4>1. pc[u] = "walk" => how[u] = "bare"
        BY <1>2 DEF Placed
      <4>2. blk[u] # b
        BY <1>1, <1>4, <3>2, <3>5, <4>1, SMT
      <4>3. d # c
        BY <1>3, <3>5, <4>2
      <4>4. at'[d] = at[d]
        BY <1>2, <1>3, <4>3 DEF TypeOK
      <4> QED  BY <1>1, <3>5, <4>4
    <3> QED  BY <3>3, <3>4, <3>5
  <2>2. ASSUME NEW d \in Block, cur'[d] # None PROVE at'[cur'[d]] = d
    BY <1>1, <1>2, <1>3, <1>6, <2>2, SMT DEF TypeOK, Placed
  <2> QED  BY <2>1, <2>2 DEF UsedIsThere
<1>13. MutexesRight'
  <2>1. \A y \in Client : depth'[y] = 0 <=> holder'[y] = Nobody
    BY <1>1, <1>2, <1>3, <1>4, <1>5, <1>6, SMTT(20) DEF MutexesRight, TypeOK
  <2>2. \A y \in Client, u \in Thread : holder'[y] = u =>
          \/ u # Outside /\ at'[y] = u
          \/ pc'[u] = "told" /\ vic'[u] = y /\ depth'[y] = 1
    BY <1>1, <1>2, <1>3, <1>4, <1>5, <1>6, SMTT(20) DEF MutexesRight, TypeOK
  <2>3. \A u \in Thread : pc'[u] = "told" => holder'[vic'[u]] = u
    BY <1>1, <1>2, <1>3, <1>4, <1>5, SMTT(20) DEF MutexesRight, TypeOK, Looking
  <2> QED  BY <2>1, <2>2, <2>3 DEF MutexesRight
<1> QED  BY <1>7, <1>8, <1>9, <1>10, <1>11, <1>12, <1>13 DEF IInv

\* What comes after a client in the round, or at its begin, with todo left to serve.
LEMMA NextServed ==
    ASSUME TypeOK, NEW b \in Block, NEW held \in {0, 1}, rd[b][b] = held,
           NEW todo \in SUBSET Client, ServeNext(b, todo, held)
    PROVE  Turns(b, todo)
<1> USE Threads
<1>1. CASE \E c \in todo : /\ cur' = [cur EXCEPT ![b] = c]
                           /\ rest' = [rest EXCEPT ![b] = todo \ {c}]
                           /\ Goto(b, "lock")
                           /\ rd' = [rd EXCEPT ![b][b] = @ + 1 - held]
  <2>1. PICK c \in todo : /\ cur' = [cur EXCEPT ![b] = c]
                          /\ rest' = [rest EXCEPT ![b] = todo \ {c}]
                          /\ Goto(b, "lock")
                          /\ rd' = [rd EXCEPT ![b][b] = @ + 1 - held]
    BY <1>1
  <2>2. rd' = [rd EXCEPT ![b] = [rd[b] EXCEPT ![b] = 1]]
    <3>1. rd[b][b] + 1 - held = 1
      BY SMT
    <3> QED  BY <2>1, <3>1
  <2>3. c \in Client \cup {None} /\ todo \ {c} \in SUBSET Client
    BY <2>1
  <2> QED  BY <2>1, <2>2, <2>3 DEF Goto, Turns
<1>2. CASE /\ todo = {}
           /\ cur' = [cur EXCEPT ![b] = None]
           /\ Goto(b, "sweep")
           /\ rd' = [rd EXCEPT ![b][b] = @ - held]
           /\ UNCHANGED rest
  <2>1. rd' = [rd EXCEPT ![b] = [rd[b] EXCEPT ![b] = 0]]
    <3>1. rd[b][b] - held = 0
      BY SMT
    <3> QED  BY <1>2, <3>1
  <2>2. rest' = [rest EXCEPT ![b] = rest[b]] /\ rest[b] \in SUBSET Client
    BY <1>2 DEF TypeOK
  <2> QED  BY <1>2, <2>1, <2>2 DEF Goto, Turns
<1> QED  BY <1>1, <1>2 DEF ServeNext

\* A client has been served: its mutex is unlocked or leaked, and the next one's turn comes.
LEMMA ServedStep == ASSUME IInv, NEW b \in Block, Served(b) \/ Leak(b) PROVE IInv'
<1> USE Threads, BlocksAssumption
<1>1. /\ pc[b] = "handle"
      /\ flagged' \in {flagged, flagged \cup {cur[b]}}
      /\ Unlocked(b, {cur[b]}) \/ UNCHANGED <<holder, depth>>
      /\ ServeNext(b, rest[b], 1)
      /\ UNCHANGED <<at, how, blk, left, vic, lobby>>
  BY DEF Served, Leak, look, mutexes
<1>2. TypeOK /\ Placed /\ ReadersRight /\ LobbiesRight /\ BuryAlone /\ UsedIsThere /\ MutexesRight
  BY DEF IInv
<1>3. cur[b] \in Client /\ at[cur[b]] = b
  BY <1>1, <1>2, NoneAssumption, SMT DEF TypeOK, Placed, Busy, UsedIsThere
<1>4. \A c \in Client, u \in Thread : holder[c] = u /\ u # b =>
        \/ u # Outside /\ at[c] = u
        \/ pc[u] = "told" /\ vic[u] = c /\ depth[c] = 1
  BY <1>2 DEF MutexesRight
<1>5. rd[b][b] = 1
  BY <1>1, <1>2, SMT DEF ReadersRight, Own, Look, Busy, Looking
<1>6. rest[b] \in SUBSET Client /\ \A c \in rest[b] : at[c] = b
  BY <1>1, <1>2, SMT DEF TypeOK, Placed, Busy
<1>7. PICK c \in Client \cup {None}, r \in SUBSET Client,
          l \in {"lock", "sweep", "accept"}, k \in {0, 1} :
             /\ cur' = [cur EXCEPT ![b] = c]
             /\ rest' = [rest EXCEPT ![b] = r]
             /\ pc' = [pc EXCEPT ![b] = l]
             /\ rd' = [rd EXCEPT ![b] = [rd[b] EXCEPT ![b] = k]]
             /\ l = "lock" => c \in rest[b] /\ r \subseteq rest[b] /\ k = 1
             /\ l # "lock" => c = None /\ k = 0
  <2>1. ServeNext(b, rest[b], 1) /\ TypeOK /\ 1 \in {0, 1}
    BY <1>1, <1>2
  <2>2. Turns(b, rest[b])
    BY <2>1, <1>5, <1>6, NextServed
  <2> QED  BY <2>2 DEF Turns
<1>8. /\ holder' \in [Client -> Thread \cup {Nobody}] /\ depth' \in [Client -> Nat]
      /\ \A y \in Client : depth'[y] = 0 <=> holder'[y] = Nobody
      /\ \A y \in Client : holder'[y] # Nobody => holder'[y] = holder[y]
      /\ \A y \in Client : holder[y] # b => holder'[y] = holder[y] /\ depth'[y] = depth[y]
  <2>1. \E S \in SUBSET Client : Unlocked(b, S)
    BY <1>1, <1>2, <1>3, LooseNone
  <2>2. \E S \in SUBSET Client : Loosened(b, S)
    BY <1>2, <2>1, Loosen
  <2> QED  BY <2>2 DEF Loosened
<1>9. TypeOK'
  <2>1. pc' \in [Thread -> Labels]
    BY <1>1, <1>2, <1>3, <1>4, <1>5, <1>6, <1>7, <1>8, SMT DEF TypeOK, Labels
  <2>2. flagged' \subseteq Client
    BY <1>1, <1>2, <1>3, <1>4, <1>5, <1>6, <1>7, <1>8, SMT DEF TypeOK
  <2>3. cur' \in [Thread -> Client \cup {None}] /\ rest' \in [Thread -> SUBSET Client]
    BY <1>1, <1>2, <1>3, <1>4, <1>5, <1>6, <1>7, <1>8, SMT DEF TypeOK
  <2>4. rd' \in [Thread -> [Block -> Nat]]
    BY <1>1, <1>2, <1>3, <1>4, <1>5, <1>6, <1>7, <1>8, SMT DEF TypeOK
  <2>5. holder' \in [Client -> Thread \cup {Nobody}] /\ depth' \in [Client -> Nat]
    BY <1>1, <1>2, <1>3, <1>4, <1>5, <1>6, <1>7, <1>8, SMT DEF TypeOK
  <2> QED  BY <1>1, <1>2, <2>1, <2>2, <2>3, <2>4, <2>5 DEF TypeOK
<1>10. Placed'
  <2>1. pc'[Outside] \in {"idle", "enter", "reach", "told", "walk"} /\ cur'[Outside] = None
    BY <1>1, <1>2, <1>6, <1>7, SMT DEF Placed, TypeOK
  <2>2. \A d \in Block : pc'[d] # "idle"
    BY <1>1, <1>2, <1>6, <1>7, SMT DEF Placed, TypeOK
  <2>3. \A d \in Block : cur'[d] # None <=> pc'[d] \in Busy
    BY <1>1, <1>2, <1>6, <1>7, NoneAssumption, SMTT(20) DEF Placed, TypeOK, Busy
  <2>4. \A d \in Block : pc'[d] \in Busy => \A c1 \in rest'[d] : at'[c1] = d
    BY <1>1, <1>2, <1>6, <1>7, SMTT(20) DEF Placed, TypeOK, Busy
  <2>5. \A u \in Thread : pc'[u] \in Looking => vic'[u] # None /\ how'[u] # "bare"
    BY <1>1, <1>2, <1>6, <1>7, SMT DEF Placed, TypeOK, Looking
  <2>6. \A u \in Thread : pc'[u] = "walk" => vic'[u] # None /\ how'[u] = "bare"
    BY <1>1, <1>2, <1>6, <1>7, SMT DEF Placed, TypeOK, Looking
  <2> QED  BY <2>1, <2>2, <2>3, <2>4, <2>5, <2>6 DEF Placed
<1>11. ReadersRight'
  <2> SUFFICES ASSUME NEW u \in Thread, NEW d \in Block
               PROVE  rd'[u][d] = Own(u, d)' + Look(u, d)'
    BY DEF ReadersRight
  <2>1. rd[u][d] = Own(u, d) + Look(u, d)
    BY <1>2 DEF ReadersRight
  <2> QED  BY <1>1, <1>2, <1>3, <1>4, <1>5, <1>6, <1>7, <1>8, <2>1, SMTT(20) DEF TypeOK, Own, Look, Busy, Looking
<1>12. LobbiesRight'
  <2> SUFFICES ASSUME NEW u \in Thread, NEW d \in Block
               PROVE  lobby'[d] = u <=> pc'[u] \in Looking /\ how'[u] = "lobby" /\ blk'[u] = d
    BY DEF LobbiesRight
  <2>1. lobby[d] = u <=> pc[u] \in Looking /\ how[u] = "lobby" /\ blk[u] = d
    <3>1. LobbiesRight
      BY <1>2
    <3> QED  BY <3>1, SMT DEF LobbiesRight
  <2> QED  BY <1>1, <1>2, <1>3, <1>4, <1>5, <1>6, <1>7, <1>8, <2>1, SMTT(20) DEF TypeOK, Looking
<1>13. BuryAlone'
  BY <1>1, <1>2, <1>3, <1>4, <1>5, <1>6, <1>7, <1>8, SMTT(20) DEF BuryAlone, TypeOK
<1>14. UsedIsThere'
  BY <1>1, <1>2, <1>3, <1>4, <1>5, <1>6, <1>7, <1>8, SMTT(20) DEF UsedIsThere, LooksAt, TypeOK, Placed, Busy, Looking
<1>15. MutexesRight'
  <2>1. \A y \in Client : depth'[y] = 0 <=> holder'[y] = Nobody
    BY <1>1, <1>2, <1>3, <1>4, <1>5, <1>6, <1>7, <1>8, SMTT(20) DEF MutexesRight, TypeOK
  <2>2. \A y \in Client, u \in Thread : holder'[y] = u =>
          \/ u # Outside /\ at'[y] = u
          \/ pc'[u] = "told" /\ vic'[u] = y /\ depth'[y] = 1
    BY <1>1, <1>2, <1>3, <1>4, <1>5, <1>6, <1>7, <1>8, SMTT(20) DEF MutexesRight, TypeOK
  <2>3. \A u \in Thread : pc'[u] = "told" => holder'[vic'[u]] = u
    BY <1>1, <1>2, <1>3, <1>4, <1>5, <1>6, <1>7, <1>8, SMTT(20) DEF MutexesRight, TypeOK, Placed, Looking
  <2> QED  BY <2>1, <2>2, <2>3 DEF MutexesRight
<1> QED  BY <1>9, <1>10, <1>11, <1>12, <1>13, <1>14, <1>15 DEF IInv

\* The round begins, with a new client or without.
LEMMA RoundStep == ASSUME IInv, NEW b \in Block, Round(b) \/ Accept(b) PROVE IInv'
<1> USE Threads, BlocksAssumption
<1>1. /\ pc[b] \in {"round", "accept"}
      /\ flagged' \in SUBSET (flagged \cup In(b))
      /\ \/ at' = at
         \/ \E x \in Client : at[x] = 0 /\ at' = [at EXCEPT ![x] = b]
      /\ UNCHANGED <<how, blk, left, vic, holder, depth, lobby>>
  BY DEF Round, Accept, In, look, mutexes
<1>2. TypeOK /\ Placed /\ ReadersRight /\ LobbiesRight /\ BuryAlone /\ UsedIsThere /\ MutexesRight
  BY DEF IInv
<1>3. cur[b] = None /\ cur[b] \notin Client
  BY <1>1, <1>2, NoneAssumption, SMT DEF Placed, Busy
<1>4. rd[b][b] = 0
  BY <1>1, <1>2, SMT DEF ReadersRight, Own, Look, Busy, Looking
<1>5. at' \in [Client -> 0 .. NumBlocks] /\ \A x \in Client : at[x] # 0 => at'[x] = at[x]
  <2>1. at \in [Client -> 0 .. NumBlocks] /\ b \in 0 .. NumBlocks
    BY <1>2 DEF TypeOK
  <2> QED  BY <1>1, <2>1
<1>6. \A x \in Client, u \in Thread : holder[x] = u => at[x] # 0
  <2> SUFFICES ASSUME NEW x \in Client, NEW u \in Thread, holder[x] = u PROVE at[x] # 0
    OBVIOUS
  <2>1. CASE u # Outside /\ at[x] = u
    BY <2>1
  <2>2. CASE pc[u] = "told" /\ vic[u] = x
    <3>1. x \in LooksAt(u) /\ blk[u] \in Block
      BY <2>2, <1>2, NoneAssumption DEF LooksAt, TypeOK
    <3>2. how[u] # "bare"
      BY <2>2, <1>2 DEF Placed, Looking
    <3> QED  BY <3>1, <3>2, <1>2 DEF UsedIsThere
  <2> QED  BY <2>1, <2>2, <1>2 DEF MutexesRight
<1>7. PICK c \in Client \cup {None}, r \in SUBSET Client,
          l \in {"lock", "sweep", "accept"}, k \in {0, 1} :
             /\ cur' = [cur EXCEPT ![b] = c]
             /\ rest' = [rest EXCEPT ![b] = r]
             /\ pc' = [pc EXCEPT ![b] = l]
             /\ rd' = [rd EXCEPT ![b] = [rd[b] EXCEPT ![b] = k]]
             /\ l = "lock" => c \in Client /\ at'[c] = b /\ (\A e \in r : at'[e] = b) /\ k = 1
             /\ l # "lock" => c = None /\ k = 0
  <2>1. CASE UNCHANGED <<cur, rest, rd>> /\ \E l \in {"sweep", "accept"} : Goto(b, l)
    <3>1. /\ cur' = [cur EXCEPT ![b] = None] /\ rest' = [rest EXCEPT ![b] = rest[b]]
          /\ rd' = [rd EXCEPT ![b] = [rd[b] EXCEPT ![b] = 0]]
          /\ rest[b] \in SUBSET Client
      BY <2>1, <1>2, <1>3, <1>4, SMT DEF TypeOK
    <3> QED  BY <2>1, <3>1 DEF Goto
  <2>2. ASSUME NEW todo \in SUBSET Client, \A x \in todo : at'[x] = b, ServeNext(b, todo, 0)
        PROVE  Turns(b, todo)
    BY <2>2, <1>2, <1>4, NextServed
  <2>3. ASSUME NEW todo \in SUBSET Client, \A x \in todo : at'[x] = b, ServeNext(b, todo, 0)
        PROVE  \E c \in Client \cup {None}, r \in SUBSET Client,
                  l \in {"lock", "sweep", "accept"}, k \in {0, 1} :
                 /\ cur' = [cur EXCEPT ![b] = c]
                 /\ rest' = [rest EXCEPT ![b] = r]
                 /\ pc' = [pc EXCEPT ![b] = l]
                 /\ rd' = [rd EXCEPT ![b] = [rd[b] EXCEPT ![b] = k]]
                 /\ l = "lock" => c \in Client /\ at'[c] = b /\ (\A e \in r : at'[e] = b) /\ k = 1
                 /\ l # "lock" => c = None /\ k = 0
    <3>1. PICK c \in Client \cup {None}, r \in SUBSET Client,
               l \in {"lock", "sweep", "accept"}, k \in {0, 1} :
                 /\ cur' = [cur EXCEPT ![b] = c]
                 /\ rest' = [rest EXCEPT ![b] = r]
                 /\ pc' = [pc EXCEPT ![b] = l]
                 /\ rd' = [rd EXCEPT ![b] = [rd[b] EXCEPT ![b] = k]]
                 /\ l = "lock" => c \in todo /\ r \subseteq todo /\ k = 1
                 /\ l # "lock" => c = None /\ k = 0
      BY <2>2, <2>3 DEF Turns
    <3>2. l = "lock" => c \in Client /\ at'[c] = b /\ (\A e \in r : at'[e] = b) /\ k = 1
      BY <2>3, <3>1
    <3> QED  BY <3>1, <3>2
  <2>4. CASE ServeNext(b, In(b), 0)
    <3>1. In(b) \in SUBSET Client /\ \A x \in In(b) : at'[x] = b
      BY <1>5 DEF In
    <3> QED  BY <2>3, <2>4, <3>1
  <2>5. ASSUME NEW x \in Client, at' = [at EXCEPT ![x] = b], ServeNext(b, In(b) \cup {x}, 0)
        PROVE  \E todo \in SUBSET Client : (\A y \in todo : at'[y] = b) /\ ServeNext(b, todo, 0)
    <3>1. In(b) \cup {x} \in SUBSET Client /\ \A y \in In(b) \cup {x} : at'[y] = b
      BY <2>5, <1>2, SMT DEF In, TypeOK
    <3> QED  BY <2>5, <3>1
  <2>6. \/ UNCHANGED <<cur, rest, rd>> /\ \E l \in {"sweep", "accept"} : Goto(b, l)
        \/ ServeNext(b, In(b), 0)
        \/ \E x \in Client : at' = [at EXCEPT ![x] = b] /\ ServeNext(b, In(b) \cup {x}, 0)
    BY <1>1 DEF Round, Accept, round, In
  <2> QED  BY <2>1, <2>3, <2>4, <2>5, <2>6
<1>8. TypeOK'
  <2>1. pc' \in [Thread -> Labels]
    BY <1>1, <1>2, <1>3, <1>4, <1>5, <1>6, <1>7, SMT DEF TypeOK, Labels
  <2>2. flagged' \subseteq Client
    BY <1>1, <1>2, <1>3, <1>4, <1>5, <1>6, <1>7, SMT DEF TypeOK, In
  <2>3. cur' \in [Thread -> Client \cup {None}] /\ rest' \in [Thread -> SUBSET Client]
    BY <1>1, <1>2, <1>3, <1>4, <1>5, <1>6, <1>7, SMT DEF TypeOK
  <2>4. rd' \in [Thread -> [Block -> Nat]]
    BY <1>1, <1>2, <1>3, <1>4, <1>5, <1>6, <1>7, SMT DEF TypeOK
  <2> QED  BY <1>1, <1>2, <1>3, <1>4, <1>5, <1>6, <1>7, <2>1, <2>2, <2>3, <2>4 DEF TypeOK
<1>9. Placed'
  <2>1. pc'[Outside] \in {"idle", "enter", "reach", "told", "walk"} /\ cur'[Outside] = None
    BY <1>1, <1>2, <1>5, <1>7, SMT DEF Placed, TypeOK
  <2>2. \A d \in Block : pc'[d] # "idle"
    BY <1>1, <1>2, <1>5, <1>7, SMT DEF Placed, TypeOK
  <2>3. \A d \in Block : cur'[d] # None <=> pc'[d] \in Busy
    BY <1>1, <1>2, <1>5, <1>7, NoneAssumption, SMTT(20) DEF Placed, TypeOK, Busy
  <2>4. ASSUME NEW d \in Block, pc'[d] \in Busy, NEW e \in rest'[d] PROVE at'[e] = d
    <3>1. CASE d = b
      BY <1>1, <1>2, <1>5, <1>7, <2>4, <3>1, SMT DEF TypeOK, Busy
    <3>2. CASE d # b
      <4>1. pc[d] \in Busy /\ e \in rest[d]
        BY <1>1, <1>2, <1>5, <1>7, <2>4, <3>2 DEF TypeOK
      <4>2. at[e] = d /\ e \in Client
        BY <1>2, <4>1 DEF Placed, TypeOK
      <4> QED  BY <4>2, <1>5
    <3> QED  BY <3>1, <3>2
  <2>5. \A u \in Thread : pc'[u] \in Looking => vic'[u] # None /\ how'[u] # "bare"
    BY <1>1, <1>2, <1>5, <1>7, SMT DEF Placed, TypeOK, Looking
  <2>6. \A u \in Thread : pc'[u] = "walk" => vic'[u] # None /\ how'[u] = "bare"
    BY <1>1, <1>2, <1>5, <1>7, SMT DEF Placed, TypeOK, Looking
  <2> QED  BY <2>1, <2>2, <2>3, <2>4, <2>5, <2>6 DEF Placed
<1>10. ReadersRight'
  <2> SUFFICES ASSUME NEW u \in Thread, NEW d \in Block
               PROVE  rd'[u][d] = Own(u, d)' + Look(u, d)'
    BY DEF ReadersRight
  <2>1. rd[u][d] = Own(u, d) + Look(u, d)
    BY <1>2 DEF ReadersRight
  <2> QED  BY <1>1, <1>2, <1>3, <1>4, <1>5, <1>6, <1>7, <2>1, SMTT(20) DEF TypeOK, Own, Look, Busy, Looking
<1>11. LobbiesRight'
  <2> SUFFICES ASSUME NEW u \in Thread, NEW d \in Block
               PROVE  lobby'[d] = u <=> pc'[u] \in Looking /\ how'[u] = "lobby" /\ blk'[u] = d
    BY DEF LobbiesRight
  <2>1. lobby[d] = u <=> pc[u] \in Looking /\ how[u] = "lobby" /\ blk[u] = d
    <3>1. LobbiesRight
      BY <1>2
    <3> QED  BY <3>1, SMT DEF LobbiesRight
  <2> QED  BY <1>1, <1>2, <1>3, <1>4, <1>5, <1>6, <1>7, <2>1, SMTT(20) DEF TypeOK, Looking
<1>12. BuryAlone'
  BY <1>1, <1>2, <1>3, <1>4, <1>5, <1>6, <1>7, SMTT(20) DEF BuryAlone, TypeOK
<1>13. UsedIsThere'
  <2>1. ASSUME NEW u \in Thread, NEW d \in LooksAt(u)'
        PROVE  at'[d] = blk'[u] \/ (how'[u] = "bare" /\ u # blk'[u])
    <3>1. d \in LooksAt(u)
      BY <1>1, <1>2, <1>7, <2>1, SMT DEF LooksAt, TypeOK
    <3>2. d \in Client /\ blk[u] \in Block
      <4>1. pc[u] \in Looking \cup {"walk"}
        BY <3>1, SMT DEF LooksAt, Looking
      <4>2. vic[u] \in Client /\ left[u] \subseteq Client /\ blk[u] \in Block
        BY <1>2, <4>1, NoneAssumption, SMT DEF TypeOK, Placed
      <4> QED  BY <3>1, <4>2, SMT DEF LooksAt
    <3>3. at[d] = blk[u] \/ (how[u] = "bare" /\ u # blk[u])
      BY <1>2, <3>1 DEF UsedIsThere
    <3> QED  BY <1>1, <1>5, <3>2, <3>3
  <2>2. ASSUME NEW d \in Block, cur'[d] # None PROVE at'[cur'[d]] = d
    <3>1. CASE d = b
      BY <1>2, <1>7, <2>2, <3>1, SMT DEF TypeOK
    <3>2. CASE d # b
      <4>1. cur'[d] = cur[d] /\ cur[d] \in Client /\ at[cur[d]] = d
        BY <1>2, <1>7, <2>2, <3>2, SMT DEF TypeOK, UsedIsThere
      <4> QED  BY <4>1, <1>5
    <3> QED  BY <3>1, <3>2
  <2> QED  BY <2>1, <2>2 DEF UsedIsThere
<1>14. MutexesRight'
  <2>1. \A y \in Client : depth'[y] = 0 <=> holder'[y] = Nobody
    BY <1>1, <1>2, <1>3, <1>4, <1>5, <1>6, <1>7, SMTT(20) DEF MutexesRight, TypeOK
  <2>2. \A y \in Client, u \in Thread : holder'[y] = u =>
          \/ u # Outside /\ at'[y] = u
          \/ pc'[u] = "told" /\ vic'[u] = y /\ depth'[y] = 1
    BY <1>1, <1>2, <1>3, <1>4, <1>5, <1>6, <1>7, SMTT(20) DEF MutexesRight, TypeOK
  <2>3. \A u \in Thread : pc'[u] = "told" => holder'[vic'[u]] = u
    BY <1>1, <1>2, <1>3, <1>4, <1>5, <1>6, <1>7, SMTT(20) DEF MutexesRight, TypeOK
  <2> QED  BY <2>1, <2>2, <2>3 DEF MutexesRight
<1> QED  BY <1>8, <1>9, <1>10, <1>11, <1>12, <1>13, <1>14 DEF IInv

\* After a look at a block comes the next one, or the look is over.
LEMMA NextLook == ASSUME TypeOK, NEW t \in Thread, NextBlock(t) PROVE Leaves(t)
<1> USE Threads, BlocksAssumption
<1>1. blk[t] \in Block /\ how \in [Thread -> Ways] /\ 1 \in Block
  <2>1. 1 \in Block
    BY SMT DEF Block
  <2> QED  BY <2>1 DEF TypeOK
<1>2. CASE EndLook(t)
  <2>1. PICK l \in {"idle", "handle"} : /\ l = IF t = Outside THEN "idle" ELSE "handle"
                                        /\ pc' = [pc EXCEPT ![t] = l]
    BY <1>2 DEF EndLook, Goto
  <2>2. "list" \in Ways
    BY DEF Ways
  <2> QED  BY <1>1, <1>2, <2>1, <2>2 DEF EndLook, Leaves
<1>3. CASE blk[t] < NumBlocks /\ blk' = [blk EXCEPT ![t] = @ + 1] /\ Goto(t, "enter") /\ UNCHANGED how
  <2>1. blk[t] + 1 \in Block
    BY <1>1, <1>3, SMT DEF Block
  <2>2. how' = [how EXCEPT ![t] = how[t]] /\ how[t] \in Ways
    BY <1>1, <1>3
  <2> QED  BY <1>3, <2>1, <2>2 DEF Goto, Leaves
<1> QED  BY <1>2, <1>3 DEF NextBlock

\* What a thread has still to look at, as it is.
LEMMA StayPut ==
    ASSUME IInv, NEW t \in Thread, UNCHANGED <<left, vic>>
    PROVE  /\ left[t] \in SUBSET Client /\ left' = [left EXCEPT ![t] = left[t]]
           /\ vic[t] \in Client \cup {None} /\ vic' = [vic EXCEPT ![t] = vic[t]]
  BY DEF IInv, TypeOK

\* Nobody is wanted in a block, or a walk has come to the end of the list.
LEMMA PassStep == ASSUME IInv, NEW t \in Thread, pc[t] \in {"enter", "walk"}, NextBlock(t),
           flagged' \subseteq Client,
           NEW S \in SUBSET Client, Unlocked(t, S),
           NEW x \in SUBSET Client, left' = [left EXCEPT ![t] = x],
           NEW y \in Client \cup {None}, vic' = [vic EXCEPT ![t] = y],
           UNCHANGED <<at, cur, rest, rd, lobby>> PROVE IInv'
<1> USE Threads, BlocksAssumption
<1>1. /\ pc[t] \in {"enter", "walk"} /\ flagged' \subseteq Client
      /\ left' = [left EXCEPT ![t] = x] /\ vic' = [vic EXCEPT ![t] = y]
      /\ UNCHANGED <<at, cur, rest, rd, lobby>>
  BY DEF IInv
<1>2. TypeOK /\ Placed /\ ReadersRight /\ LobbiesRight /\ BuryAlone /\ UsedIsThere /\ MutexesRight
  BY DEF IInv
<1>3. PICK l \in {"idle", "handle", "enter"}, h \in Ways, e \in Block :
        /\ t = Outside => l # "handle"
        /\ t # Outside => l # "idle"
        /\ pc' = [pc EXCEPT ![t] = l]
        /\ how' = [how EXCEPT ![t] = h]
        /\ blk' = [blk EXCEPT ![t] = e]
  BY <1>2, NextLook DEF Leaves
<1>11. Loosened(t, S)
  BY <1>2, Loosen
<1>4. TypeOK'
  <2>1. pc' \in [Thread -> Labels]
    BY <1>1, <1>2, <1>3, SMT DEF TypeOK, Labels
  <2>2. how' \in [Thread -> Ways] /\ blk' \in [Thread -> Block]
    BY <1>1, <1>2, <1>3, SMT DEF TypeOK
  <2>3. left' \in [Thread -> SUBSET Client] /\ vic' \in [Thread -> Client \cup {None}]
    BY <1>1, <1>2, SMT DEF TypeOK
  <2>4. holder' \in [Client -> Thread \cup {Nobody}] /\ depth' \in [Client -> Nat]
    BY <1>11 DEF Loosened
  <2> QED  BY <1>1, <1>2, <2>1, <2>2, <2>3, <2>4 DEF TypeOK
<1>5. Placed'
  BY <1>1, <1>2, <1>3, SMTT(20) DEF Placed, TypeOK, Busy, Looking
<1>6. ReadersRight'
  <2> SUFFICES ASSUME NEW u \in Thread, NEW d \in Block
               PROVE  rd'[u][d] = Own(u, d)' + Look(u, d)'
    BY DEF ReadersRight
  <2>1. rd[u][d] = Own(u, d) + Look(u, d)
    BY <1>2 DEF ReadersRight
  <2> QED  BY <1>1, <1>2, <1>3, <2>1, SMTT(20) DEF TypeOK, Own, Look, Busy, Looking
<1>7. LobbiesRight'
  <2> SUFFICES ASSUME NEW u \in Thread, NEW d \in Block
               PROVE  lobby'[d] = u <=> pc'[u] \in Looking /\ how'[u] = "lobby" /\ blk'[u] = d
    BY DEF LobbiesRight
  <2>1. lobby[d] = u <=> pc[u] \in Looking /\ how[u] = "lobby" /\ blk[u] = d
    <3>1. LobbiesRight
      BY <1>2
    <3> QED  BY <3>1, SMT DEF LobbiesRight
  <2> QED  BY <1>1, <1>2, <1>3, <2>1, SMTT(20) DEF TypeOK, Looking
<1>8. BuryAlone'
  BY <1>1, <1>2, <1>3, SMTT(20) DEF BuryAlone, TypeOK
<1>9. UsedIsThere'
  BY <1>1, <1>2, <1>3, SMTT(20) DEF UsedIsThere, LooksAt, TypeOK, Placed, Busy, Looking
<1>10. MutexesRight'
  <2>1. \A c \in Client : depth'[c] = 0 <=> holder'[c] = Nobody
    BY <1>1, <1>2, <1>3, <1>11, SMTT(20) DEF MutexesRight, TypeOK, Loosened
  <2>2. \A c \in Client, u \in Thread : holder'[c] = u =>
          \/ u # Outside /\ at'[c] = u
          \/ pc'[u] = "told" /\ vic'[u] = c /\ depth'[c] = 1
    BY <1>1, <1>2, <1>3, <1>11, SMTT(20) DEF MutexesRight, TypeOK, Loosened
  <2>3. \A u \in Thread : pc'[u] = "told" => holder'[vic'[u]] = u
    BY <1>1, <1>2, <1>3, <1>11, SMTT(20) DEF MutexesRight, TypeOK, Placed, Looking, Loosened
  <2> QED  BY <2>1, <2>2, <2>3 DEF MutexesRight
<1> QED  BY <1>4, <1>5, <1>6, <1>7, <1>8, <1>9, <1>10 DEF IInv

\* A client of a block's list is wanted, and the block's lock is taken for reading.
LEMMA WantStep == ASSUME IInv, NEW t \in Thread, NEW todo \in SUBSET In(blk[t]), pc[t] = "enter", how[t] \in Locks,
           t # blk[t] => ~ Writer(blk[t]), WantNext(t, todo, "reach"),
           NEW S \in SUBSET Client, Unlocked(t, S),
           rd' = [rd EXCEPT ![t][blk[t]] = @ + 1],
           UNCHANGED <<at, flagged, cur, rest, lobby>> PROVE IInv'
<1> USE Threads, BlocksAssumption
<1>1. /\ pc[t] = "enter" /\ how[t] \in Locks /\ how[t] # "bare" /\ how[t] # "lobby"
      /\ t # blk[t] => pc[blk[t]] # "bury"
      /\ rd' = [rd EXCEPT ![t][blk[t]] = @ + 1]
      /\ UNCHANGED <<at, flagged, cur, rest, how, blk, lobby>>
  BY DEF WantNext, Writer, Locks
<1>2. TypeOK /\ Placed /\ ReadersRight /\ LobbiesRight /\ BuryAlone /\ UsedIsThere /\ MutexesRight
  BY DEF IInv
<1>3. PICK c \in Client : /\ c \in todo /\ at[c] = blk[t]
                           /\ vic' = [vic EXCEPT ![t] = c]
                           /\ left' = [left EXCEPT ![t] = todo \ {c}]
                           /\ pc' = [pc EXCEPT ![t] = "reach"]
  BY DEF WantNext, Goto, In
<1>4. todo \subseteq Client /\ \A e \in todo : at[e] = blk[t]
  BY DEF In
<1>5. blk[t] \in Block
  BY <1>2 DEF TypeOK
<1>13. Loosened(t, S)
  BY <1>2, Loosen
<1>6. TypeOK'
  <2>1. pc' \in [Thread -> Labels]
    BY <1>1, <1>2, <1>3, <1>4, <1>5, SMT DEF TypeOK, Labels
  <2>2. vic' \in [Thread -> Client \cup {None}] /\ left' \in [Thread -> SUBSET Client]
    BY <1>1, <1>2, <1>3, <1>4, <1>5, SMT DEF TypeOK
  <2>3. rd' \in [Thread -> [Block -> Nat]]
    BY <1>1, <1>2, <1>3, <1>4, <1>5, SMT DEF TypeOK
  <2>4. holder' \in [Client -> Thread \cup {Nobody}] /\ depth' \in [Client -> Nat]
    BY <1>13 DEF Loosened
  <2> QED  BY <1>1, <1>2, <2>1, <2>2, <2>3, <2>4 DEF TypeOK
<1>7. Placed'
  <2>1. pc'[Outside] \in {"idle", "enter", "reach", "told", "walk"} /\ cur'[Outside] = None
    BY <1>1, <1>2, <1>3, <1>4, <1>5, SMT DEF Placed, TypeOK
  <2>2. \A d \in Block : pc'[d] # "idle"
    BY <1>1, <1>2, <1>3, <1>4, <1>5, SMT DEF Placed, TypeOK
  <2>3. \A d \in Block : cur'[d] # None <=> pc'[d] \in Busy
    BY <1>1, <1>2, <1>3, <1>4, <1>5, NoneAssumption, SMTT(20) DEF Placed, TypeOK, Busy
  <2>4. \A d \in Block : pc'[d] \in Busy => \A x \in rest'[d] : at'[x] = d
    BY <1>1, <1>2, <1>3, <1>4, <1>5, SMTT(20) DEF Placed, TypeOK, Busy
  <2>5. \A u \in Thread : pc'[u] \in Looking => vic'[u] # None /\ how'[u] # "bare"
    BY <1>1, <1>2, <1>3, <1>4, <1>5, NoneAssumption, SMT DEF Placed, TypeOK, Looking
  <2>6. \A u \in Thread : pc'[u] = "walk" => vic'[u] # None /\ how'[u] = "bare"
    BY <1>1, <1>2, <1>3, <1>4, <1>5, NoneAssumption, SMT DEF Placed, TypeOK, Looking
  <2> QED  BY <2>1, <2>2, <2>3, <2>4, <2>5, <2>6 DEF Placed
<1>8. ReadersRight'
  <2> SUFFICES ASSUME NEW u \in Thread, NEW d \in Block
               PROVE  rd'[u][d] = Own(u, d)' + Look(u, d)'
    BY DEF ReadersRight
  <2>1. rd[u][d] = Own(u, d) + Look(u, d)
    BY <1>2 DEF ReadersRight
  <2> QED  BY <1>1, <1>2, <1>3, <1>4, <1>5, <2>1, SMTT(20) DEF TypeOK, Own, Look, Busy, Looking
<1>9. LobbiesRight'
  <2> SUFFICES ASSUME NEW u \in Thread, NEW d \in Block
               PROVE  lobby'[d] = u <=> pc'[u] \in Looking /\ how'[u] = "lobby" /\ blk'[u] = d
    BY DEF LobbiesRight
  <2>1. lobby[d] = u <=> pc[u] \in Looking /\ how[u] = "lobby" /\ blk[u] = d
    <3>1. LobbiesRight
      BY <1>2
    <3> QED  BY <3>1, SMT DEF LobbiesRight
  <2> QED  BY <1>1, <1>2, <1>3, <1>4, <1>5, <2>1, SMTT(20) DEF TypeOK, Looking
<1>10. BuryAlone'
  BY <1>1, <1>2, <1>3, <1>4, <1>5, SMTT(20) DEF BuryAlone, TypeOK
<1>11. UsedIsThere'
  BY <1>1, <1>2, <1>3, <1>4, <1>5, SMTT(20) DEF UsedIsThere, LooksAt, TypeOK, Placed, Busy, Looking
<1>12. MutexesRight'
  <2>1. \A y \in Client : depth'[y] = 0 <=> holder'[y] = Nobody
    BY <1>1, <1>2, <1>3, <1>4, <1>5, <1>13, SMTT(20) DEF MutexesRight, TypeOK, Loosened
  <2>2. \A y \in Client, u \in Thread : holder'[y] = u =>
          \/ u # Outside /\ at'[y] = u
          \/ pc'[u] = "told" /\ vic'[u] = y /\ depth'[y] = 1
    BY <1>1, <1>2, <1>3, <1>4, <1>5, <1>13, SMTT(20) DEF MutexesRight, TypeOK, Loosened
  <2>3. \A u \in Thread : pc'[u] = "told" => holder'[vic'[u]] = u
    BY <1>1, <1>2, <1>3, <1>4, <1>5, <1>13, SMTT(20) DEF MutexesRight, TypeOK, Placed, Looking, Loosened
  <2> QED  BY <2>1, <2>2, <2>3 DEF MutexesRight
<1> QED  BY <1>6, <1>7, <1>8, <1>9, <1>10, <1>11, <1>12 DEF IInv

\* A member of a lobby is wanted, and the mutex of the lobby is taken.
LEMMA WantMemberStep == ASSUME IInv, NEW t \in Thread, NEW todo \in SUBSET In(blk[t]), pc[t] = "enter", how[t] = "lobby",
           lobby[blk[t]] = Nobody, WantNext(t, todo, "reach"), lobby' = [lobby EXCEPT ![blk[t]] = t],
           UNCHANGED <<at, flagged, cur, rest, rd, holder, depth>> PROVE IInv'
<1> USE Threads, BlocksAssumption
<1>1. /\ pc[t] = "enter" /\ how[t] = "lobby" /\ lobby[blk[t]] = Nobody
      /\ lobby' = [lobby EXCEPT ![blk[t]] = t]
      /\ UNCHANGED <<at, flagged, cur, rest, how, blk, rd, holder, depth>>
  BY DEF WantNext
<1>2. TypeOK /\ Placed /\ ReadersRight /\ LobbiesRight /\ BuryAlone /\ UsedIsThere /\ MutexesRight
  BY DEF IInv
<1>3. PICK c \in Client : /\ c \in todo /\ at[c] = blk[t]
                           /\ vic' = [vic EXCEPT ![t] = c]
                           /\ left' = [left EXCEPT ![t] = todo \ {c}]
                           /\ pc' = [pc EXCEPT ![t] = "reach"]
  BY DEF WantNext, Goto, In
<1>4. todo \subseteq Client /\ \A e \in todo : at[e] = blk[t]
  BY DEF In
<1>5. blk[t] \in Block
  BY <1>2 DEF TypeOK
<1>6. TypeOK'
  <2>1. pc' \in [Thread -> Labels]
    BY <1>1, <1>2, <1>3, <1>4, <1>5, SMT DEF TypeOK, Labels
  <2>2. vic' \in [Thread -> Client \cup {None}] /\ left' \in [Thread -> SUBSET Client]
    BY <1>1, <1>2, <1>3, <1>4, <1>5, SMT DEF TypeOK
  <2>3. lobby' \in [Block -> Thread \cup {Nobody}]
    BY <1>1, <1>2, <1>3, <1>4, <1>5, SMT DEF TypeOK
  <2> QED  BY <1>1, <1>2, <2>1, <2>2, <2>3 DEF TypeOK
<1>7. Placed'
  <2>1. pc'[Outside] \in {"idle", "enter", "reach", "told", "walk"} /\ cur'[Outside] = None
    BY <1>1, <1>2, <1>3, <1>4, <1>5, SMT DEF Placed, TypeOK
  <2>2. \A d \in Block : pc'[d] # "idle"
    BY <1>1, <1>2, <1>3, <1>4, <1>5, SMT DEF Placed, TypeOK
  <2>3. \A d \in Block : cur'[d] # None <=> pc'[d] \in Busy
    BY <1>1, <1>2, <1>3, <1>4, <1>5, NoneAssumption, SMTT(20) DEF Placed, TypeOK, Busy
  <2>4. \A d \in Block : pc'[d] \in Busy => \A x \in rest'[d] : at'[x] = d
    BY <1>1, <1>2, <1>3, <1>4, <1>5, SMTT(20) DEF Placed, TypeOK, Busy
  <2>5. \A u \in Thread : pc'[u] \in Looking => vic'[u] # None /\ how'[u] # "bare"
    BY <1>1, <1>2, <1>3, <1>4, <1>5, NoneAssumption, SMT DEF Placed, TypeOK, Looking
  <2>6. \A u \in Thread : pc'[u] = "walk" => vic'[u] # None /\ how'[u] = "bare"
    BY <1>1, <1>2, <1>3, <1>4, <1>5, NoneAssumption, SMT DEF Placed, TypeOK, Looking
  <2> QED  BY <2>1, <2>2, <2>3, <2>4, <2>5, <2>6 DEF Placed
<1>8. ReadersRight'
  <2> SUFFICES ASSUME NEW u \in Thread, NEW d \in Block
               PROVE  rd'[u][d] = Own(u, d)' + Look(u, d)'
    BY DEF ReadersRight
  <2>1. rd[u][d] = Own(u, d) + Look(u, d)
    BY <1>2 DEF ReadersRight
  <2> QED  BY <1>1, <1>2, <1>3, <1>4, <1>5, <2>1, SMTT(20) DEF TypeOK, Own, Look, Locks, Busy, Looking
<1>9. LobbiesRight'
  <2> SUFFICES ASSUME NEW u \in Thread, NEW d \in Block
               PROVE  lobby'[d] = u <=> pc'[u] \in Looking /\ how'[u] = "lobby" /\ blk'[u] = d
    BY DEF LobbiesRight
  <2>1. lobby[d] = u <=> pc[u] \in Looking /\ how[u] = "lobby" /\ blk[u] = d
    <3>1. LobbiesRight
      BY <1>2
    <3> QED  BY <3>1, SMT DEF LobbiesRight
  <2> QED  BY <1>1, <1>2, <1>3, <1>4, <1>5, <2>1, SMTT(20) DEF TypeOK, Looking
<1>10. BuryAlone'
  BY <1>1, <1>2, <1>3, <1>4, <1>5, SMTT(20) DEF BuryAlone, TypeOK
<1>11. UsedIsThere'
  BY <1>1, <1>2, <1>3, <1>4, <1>5, SMTT(20) DEF UsedIsThere, LooksAt, TypeOK, Placed, Busy, Looking
<1>12. MutexesRight'
  <2>1. \A y \in Client : depth'[y] = 0 <=> holder'[y] = Nobody
    BY <1>1, <1>2, <1>3, <1>4, <1>5, SMTT(20) DEF MutexesRight, TypeOK
  <2>2. \A y \in Client, u \in Thread : holder'[y] = u =>
          \/ u # Outside /\ at'[y] = u
          \/ pc'[u] = "told" /\ vic'[u] = y /\ depth'[y] = 1
    BY <1>1, <1>2, <1>3, <1>4, <1>5, SMTT(20) DEF MutexesRight, TypeOK
  <2>3. \A u \in Thread : pc'[u] = "told" => holder'[vic'[u]] = u
    BY <1>1, <1>2, <1>3, <1>4, <1>5, SMTT(20) DEF MutexesRight, TypeOK
  <2> QED  BY <2>1, <2>2, <2>3 DEF MutexesRight
<1> QED  BY <1>6, <1>7, <1>8, <1>9, <1>10, <1>11, <1>12 DEF IInv

\* A thread is done with a client and wants the next one.
LEMMA ToldNextStep == ASSUME IInv, NEW t \in Thread, NEW todo \in SUBSET In(blk[t]), pc[t] = "told",
           flagged' \subseteq Client, Unlocked(t, {vic[t]}), WantNext(t, todo, "reach"),
           UNCHANGED <<at, cur, rest, rd, lobby>> PROVE IInv'
<1> USE Threads, BlocksAssumption
<1>1. /\ pc[t] = "told" /\ flagged' \subseteq Client /\ Unlocked(t, {vic[t]})
      /\ UNCHANGED <<at, cur, rest, how, blk, rd, lobby>>
  BY DEF WantNext
<1>2. TypeOK /\ Placed /\ ReadersRight /\ LobbiesRight /\ BuryAlone /\ UsedIsThere /\ MutexesRight
  BY DEF IInv
<1>3. /\ vic[t] \in Client /\ at[vic[t]] = blk[t] /\ holder[vic[t]] = t
      /\ depth[vic[t]] \in Nat /\ depth[vic[t]] >= 1
  <2>1. vic[t] \in Client /\ holder[vic[t]] = t
    BY <1>1, <1>2, NoneAssumption, SMT DEF TypeOK, Placed, Looking, MutexesRight
  <2>2. at[vic[t]] = blk[t]
    <3>1. how[t] # "bare" /\ vic[t] \in LooksAt(t)
      BY <1>1, <1>2 DEF Placed, Looking, LooksAt
    <3> QED  BY <1>2, <3>1 DEF UsedIsThere
  <2>3. depth[vic[t]] \in Nat /\ depth[vic[t]] # 0
    BY <1>2, <2>1 DEF TypeOK, MutexesRight
  <2> QED  BY <2>1, <2>2, <2>3, SMT
<1>4. PICK h \in {t, Nobody}, n \in Nat :
             /\ holder' = [holder EXCEPT ![vic[t]] = h]
             /\ depth' = [depth EXCEPT ![vic[t]] = n]
             /\ h = Nobody <=> n = 0
             /\ n = depth[vic[t]] - 1
  <2>1. depth[vic[t]] - 1 \in Nat /\ (depth[vic[t]] = 1 <=> depth[vic[t]] - 1 = 0) /\ t # Nobody
    BY <1>3, SMT
  <2>2. holder \in [Client -> Thread \cup {Nobody}] /\ depth \in [Client -> Nat]
    BY <1>2 DEF TypeOK
  <2>3. holder' = [holder EXCEPT ![vic[t]] = IF depth[vic[t]] = 1 THEN Nobody ELSE t]
    <3>1. holder' = [y \in Client |-> IF (y \in {vic[t]} /\ holder[y] = t) /\ depth[y] = 1
                                      THEN Nobody ELSE holder[y]]
      BY <1>1 DEF Unlocked
    <3>2. \A y \in Client :
            holder'[y] = [holder EXCEPT ![vic[t]] = IF depth[vic[t]] = 1 THEN Nobody ELSE t][y]
      BY <1>3, <2>2, <3>1, SMT
    <3>3. holder' = [y \in Client |-> holder'[y]]
      BY <3>1
    <3> QED  BY <2>2, <3>2, <3>3, Zenon
  <2>4. depth' = [depth EXCEPT ![vic[t]] = depth[vic[t]] - 1]
    <3>1. depth' = [y \in Client |-> IF y \in {vic[t]} /\ holder[y] = t
                                     THEN depth[y] - 1 ELSE depth[y]]
      BY <1>1 DEF Unlocked
    <3>2. \A y \in Client : depth'[y] = [depth EXCEPT ![vic[t]] = depth[vic[t]] - 1][y]
      BY <1>3, <2>2, <3>1, SMT
    <3>3. depth' = [y \in Client |-> depth'[y]]
      BY <3>1
    <3> QED  BY <2>2, <3>2, <3>3, Zenon
  <2> QED  BY <2>1, <2>3, <2>4
<1>5. PICK c \in Client : /\ c \in todo /\ at[c] = blk[t]
                           /\ vic' = [vic EXCEPT ![t] = c]
                           /\ left' = [left EXCEPT ![t] = todo \ {c}]
                           /\ pc' = [pc EXCEPT ![t] = "reach"]
  BY DEF WantNext, Goto, In
<1>6. todo \subseteq Client /\ \A e \in todo : at[e] = blk[t]
  BY DEF In
<1>7. TypeOK'
  <2>1. pc' \in [Thread -> Labels]
    BY <1>1, <1>2, <1>3, <1>4, <1>5, <1>6, SMT DEF TypeOK, Labels
  <2>2. vic' \in [Thread -> Client \cup {None}] /\ left' \in [Thread -> SUBSET Client]
    BY <1>1, <1>2, <1>3, <1>4, <1>5, <1>6, SMT DEF TypeOK
  <2>3. holder' \in [Client -> Thread \cup {Nobody}] /\ depth' \in [Client -> Nat]
    BY <1>1, <1>2, <1>3, <1>4, <1>5, <1>6, SMT DEF TypeOK
  <2> QED  BY <1>1, <1>2, <2>1, <2>2, <2>3 DEF TypeOK
<1>8. Placed'
  <2>1. pc'[Outside] \in {"idle", "enter", "reach", "told", "walk"} /\ cur'[Outside] = None
    BY <1>1, <1>2, <1>3, <1>4, <1>5, <1>6, SMT DEF Placed, TypeOK
  <2>2. \A d \in Block : pc'[d] # "idle"
    BY <1>1, <1>2, <1>3, <1>4, <1>5, <1>6, SMT DEF Placed, TypeOK
  <2>3. \A d \in Block : cur'[d] # None <=> pc'[d] \in Busy
    BY <1>1, <1>2, <1>3, <1>4, <1>5, <1>6, NoneAssumption, SMTT(20) DEF Placed, TypeOK, Busy
  <2>4. \A d \in Block : pc'[d] \in Busy => \A x \in rest'[d] : at'[x] = d
    BY <1>1, <1>2, <1>3, <1>4, <1>5, <1>6, SMTT(20) DEF Placed, TypeOK, Busy
  <2>5. \A u \in Thread : pc'[u] \in Looking => vic'[u] # None /\ how'[u] # "bare"
    BY <1>1, <1>2, <1>3, <1>4, <1>5, <1>6, NoneAssumption, SMT DEF Placed, TypeOK, Looking
  <2>6. \A u \in Thread : pc'[u] = "walk" => vic'[u] # None /\ how'[u] = "bare"
    BY <1>1, <1>2, <1>3, <1>4, <1>5, <1>6, NoneAssumption, SMT DEF Placed, TypeOK, Looking
  <2> QED  BY <2>1, <2>2, <2>3, <2>4, <2>5, <2>6 DEF Placed
<1>9. ReadersRight'
  <2> SUFFICES ASSUME NEW u \in Thread, NEW d \in Block
               PROVE  rd'[u][d] = Own(u, d)' + Look(u, d)'
    BY DEF ReadersRight
  <2>1. rd[u][d] = Own(u, d) + Look(u, d)
    BY <1>2 DEF ReadersRight
  <2> QED  BY <1>1, <1>2, <1>3, <1>4, <1>5, <1>6, <2>1, SMTT(20) DEF TypeOK, Own, Look, Busy, Looking
<1>10. LobbiesRight'
  <2> SUFFICES ASSUME NEW u \in Thread, NEW d \in Block
               PROVE  lobby'[d] = u <=> pc'[u] \in Looking /\ how'[u] = "lobby" /\ blk'[u] = d
    BY DEF LobbiesRight
  <2>1. lobby[d] = u <=> pc[u] \in Looking /\ how[u] = "lobby" /\ blk[u] = d
    <3>1. LobbiesRight
      BY <1>2
    <3> QED  BY <3>1, SMT DEF LobbiesRight
  <2> QED  BY <1>1, <1>2, <1>3, <1>4, <1>5, <1>6, <2>1, SMTT(20) DEF TypeOK, Looking
<1>11. BuryAlone'
  BY <1>1, <1>2, <1>3, <1>4, <1>5, <1>6, SMTT(20) DEF BuryAlone, TypeOK
<1>12. UsedIsThere'
  BY <1>1, <1>2, <1>3, <1>4, <1>5, <1>6, SMTT(20) DEF UsedIsThere, LooksAt, TypeOK, Placed, Busy, Looking
<1>13. MutexesRight'
  <2>1. \A y \in Client : depth'[y] = 0 <=> holder'[y] = Nobody
    BY <1>1, <1>2, <1>3, <1>4, <1>5, <1>6, SMTT(20) DEF MutexesRight, TypeOK
  <2>2. \A y \in Client, u \in Thread : holder'[y] = u =>
          \/ u # Outside /\ at'[y] = u
          \/ pc'[u] = "told" /\ vic'[u] = y /\ depth'[y] = 1
    BY <1>1, <1>2, <1>3, <1>4, <1>5, <1>6, SMTT(20) DEF MutexesRight, TypeOK
  <2>3. \A u \in Thread : pc'[u] = "told" => holder'[vic'[u]] = u
    BY <1>1, <1>2, <1>3, <1>4, <1>5, <1>6, SMTT(20) DEF MutexesRight, TypeOK
  <2> QED  BY <2>1, <2>2, <2>3 DEF MutexesRight
<1> QED  BY <1>7, <1>8, <1>9, <1>10, <1>11, <1>12, <1>13 DEF IInv

\* A thread is done with a client and leaves the block.
LEMMA ToldLastStep == ASSUME IInv, NEW t \in Thread, pc[t] = "told",
           flagged' \subseteq Client, Unlocked(t, {vic[t]}), NextBlock(t),
           vic' = [vic EXCEPT ![t] = None], left' = [left EXCEPT ![t] = {}],
           IF how[t] \in Locks
           THEN rd' = [rd EXCEPT ![t][blk[t]] = @ - 1] /\ UNCHANGED lobby
           ELSE lobby' = [lobby EXCEPT ![blk[t]] = Nobody] /\ UNCHANGED rd,
           UNCHANGED <<at, cur, rest>> PROVE IInv'
<1> USE Threads, BlocksAssumption
<1>1. /\ pc[t] = "told" /\ flagged' \subseteq Client /\ Unlocked(t, {vic[t]})
      /\ vic' = [vic EXCEPT ![t] = None] /\ left' = [left EXCEPT ![t] = {}]
      /\ how[t] \in Locks => rd' = [rd EXCEPT ![t][blk[t]] = @ - 1] /\ UNCHANGED lobby
      /\ how[t] \notin Locks => lobby' = [lobby EXCEPT ![blk[t]] = Nobody] /\ UNCHANGED rd
      /\ UNCHANGED <<at, cur, rest>>
  BY DEF IInv
<1>2. TypeOK /\ Placed /\ ReadersRight /\ LobbiesRight /\ BuryAlone /\ UsedIsThere /\ MutexesRight
  BY DEF IInv
<1>3. /\ vic[t] \in Client /\ at[vic[t]] = blk[t] /\ holder[vic[t]] = t
      /\ depth[vic[t]] \in Nat /\ depth[vic[t]] >= 1
  <2>1. vic[t] \in Client /\ holder[vic[t]] = t
    BY <1>1, <1>2, NoneAssumption, SMT DEF TypeOK, Placed, Looking, MutexesRight
  <2>2. at[vic[t]] = blk[t]
    <3>1. how[t] # "bare" /\ vic[t] \in LooksAt(t)
      BY <1>1, <1>2 DEF Placed, Looking, LooksAt
    <3> QED  BY <1>2, <3>1 DEF UsedIsThere
  <2>3. depth[vic[t]] \in Nat /\ depth[vic[t]] # 0
    BY <1>2, <2>1 DEF TypeOK, MutexesRight
  <2> QED  BY <2>1, <2>2, <2>3, SMT
<1>4. PICK h \in {t, Nobody}, n \in Nat :
             /\ holder' = [holder EXCEPT ![vic[t]] = h]
             /\ depth' = [depth EXCEPT ![vic[t]] = n]
             /\ h = Nobody <=> n = 0
             /\ n = depth[vic[t]] - 1
  <2>1. depth[vic[t]] - 1 \in Nat /\ (depth[vic[t]] = 1 <=> depth[vic[t]] - 1 = 0) /\ t # Nobody
    BY <1>3, SMT
  <2>2. holder \in [Client -> Thread \cup {Nobody}] /\ depth \in [Client -> Nat]
    BY <1>2 DEF TypeOK
  <2>3. holder' = [holder EXCEPT ![vic[t]] = IF depth[vic[t]] = 1 THEN Nobody ELSE t]
    <3>1. holder' = [y \in Client |-> IF (y \in {vic[t]} /\ holder[y] = t) /\ depth[y] = 1
                                      THEN Nobody ELSE holder[y]]
      BY <1>1 DEF Unlocked
    <3>2. \A y \in Client :
            holder'[y] = [holder EXCEPT ![vic[t]] = IF depth[vic[t]] = 1 THEN Nobody ELSE t][y]
      BY <1>3, <2>2, <3>1, SMT
    <3>3. holder' = [y \in Client |-> holder'[y]]
      BY <3>1
    <3> QED  BY <2>2, <3>2, <3>3, Zenon
  <2>4. depth' = [depth EXCEPT ![vic[t]] = depth[vic[t]] - 1]
    <3>1. depth' = [y \in Client |-> IF y \in {vic[t]} /\ holder[y] = t
                                     THEN depth[y] - 1 ELSE depth[y]]
      BY <1>1 DEF Unlocked
    <3>2. \A y \in Client : depth'[y] = [depth EXCEPT ![vic[t]] = depth[vic[t]] - 1][y]
      BY <1>3, <2>2, <3>1, SMT
    <3>3. depth' = [y \in Client |-> depth'[y]]
      BY <3>1
    <3> QED  BY <2>2, <3>2, <3>3, Zenon
  <2> QED  BY <2>1, <2>3, <2>4
<1>5. PICK l \in {"idle", "handle", "enter"}, w \in Ways, e \in Block :
        /\ t = Outside => l # "handle"
        /\ t # Outside => l # "idle"
        /\ pc' = [pc EXCEPT ![t] = l]
        /\ how' = [how EXCEPT ![t] = w]
        /\ blk' = [blk EXCEPT ![t] = e]
  BY <1>1, <1>2, NextLook DEF Leaves
<1>6. blk[t] \in Block /\ (how[t] \in Locks => rd[t][blk[t]] - 1 \in Nat)
  <2>1. blk[t] \in Block
    BY <1>2 DEF TypeOK
  <2>2. how[t] \in Locks => rd[t][blk[t]] = Own(t, blk[t]) + 1
    BY <1>1, <1>2, <2>1, SMT DEF ReadersRight, Look, Looking
  <2> QED  BY <2>1, <2>2, SMT DEF Own
<1>7. TypeOK'
  <2>1. pc' \in [Thread -> Labels]
    BY <1>1, <1>2, <1>3, <1>4, <1>5, <1>6, SMT DEF TypeOK, Labels
  <2>2. vic' \in [Thread -> Client \cup {None}] /\ left' \in [Thread -> SUBSET Client]
    BY <1>1, <1>2, <1>3, <1>4, <1>5, <1>6, SMT DEF TypeOK
  <2>3. how' \in [Thread -> Ways] /\ blk' \in [Thread -> Block]
    BY <1>1, <1>2, <1>3, <1>4, <1>5, <1>6, SMT DEF TypeOK
  <2>4. holder' \in [Client -> Thread \cup {Nobody}] /\ depth' \in [Client -> Nat]
    BY <1>1, <1>2, <1>3, <1>4, <1>5, <1>6, SMT DEF TypeOK
  <2>5. rd' \in [Thread -> [Block -> Nat]]
    BY <1>1, <1>2, <1>3, <1>4, <1>5, <1>6, SMT DEF TypeOK
  <2>6. lobby' \in [Block -> Thread \cup {Nobody}]
    BY <1>1, <1>2, <1>3, <1>4, <1>5, <1>6, SMT DEF TypeOK
  <2> QED  BY <1>1, <1>2, <2>1, <2>2, <2>3, <2>4, <2>5, <2>6 DEF TypeOK
<1>8. Placed'
  <2>1. pc'[Outside] \in {"idle", "enter", "reach", "told", "walk"} /\ cur'[Outside] = None
    BY <1>1, <1>2, <1>3, <1>4, <1>5, <1>6, SMT DEF Placed, TypeOK
  <2>2. \A d \in Block : pc'[d] # "idle"
    BY <1>1, <1>2, <1>3, <1>4, <1>5, <1>6, SMT DEF Placed, TypeOK
  <2>3. \A d \in Block : cur'[d] # None <=> pc'[d] \in Busy
    BY <1>1, <1>2, <1>3, <1>4, <1>5, <1>6, NoneAssumption, SMTT(20) DEF Placed, TypeOK, Busy
  <2>4. \A d \in Block : pc'[d] \in Busy => \A x \in rest'[d] : at'[x] = d
    BY <1>1, <1>2, <1>3, <1>4, <1>5, <1>6, SMTT(20) DEF Placed, TypeOK, Busy
  <2>5. \A u \in Thread : pc'[u] \in Looking => vic'[u] # None /\ how'[u] # "bare"
    BY <1>1, <1>2, <1>3, <1>4, <1>5, <1>6, NoneAssumption, SMT DEF Placed, TypeOK, Looking
  <2>6. \A u \in Thread : pc'[u] = "walk" => vic'[u] # None /\ how'[u] = "bare"
    BY <1>1, <1>2, <1>3, <1>4, <1>5, <1>6, NoneAssumption, SMT DEF Placed, TypeOK, Looking
  <2> QED  BY <2>1, <2>2, <2>3, <2>4, <2>5, <2>6 DEF Placed
<1>9. ReadersRight'
  <2> SUFFICES ASSUME NEW u \in Thread, NEW d \in Block
               PROVE  rd'[u][d] = Own(u, d)' + Look(u, d)'
    BY DEF ReadersRight
  <2>1. rd[u][d] = Own(u, d) + Look(u, d)
    BY <1>2 DEF ReadersRight
  <2>2. Own(u, d)' = Own(u, d)
    BY <1>1, <1>2, <1>3, <1>4, <1>5, <1>6, SMT DEF TypeOK, Own, Busy, Placed
  <2>3. CASE u = t
    <3>1. Look(t, d)' = 0
      BY <1>1, <1>2, <1>3, <1>4, <1>5, <1>6, SMT DEF TypeOK, Look, Looking
    <3>2. CASE how[t] \in Locks /\ d = blk[t]
      <4>1. Look(t, d) = 1 /\ rd'[t][d] = rd[t][d] - 1
        BY <1>1, <1>2, <1>3, <1>4, <1>5, <1>6, <3>2, SMT DEF TypeOK, Look, Looking
      <4> QED  BY <2>1, <2>2, <2>3, <3>1, <4>1, SMT DEF Own
    <3>3. CASE ~ (how[t] \in Locks /\ d = blk[t])
      <4>1. Look(t, d) = 0 /\ rd'[t][d] = rd[t][d]
        BY <1>1, <1>2, <1>3, <1>4, <1>5, <1>6, <3>3, SMT DEF TypeOK, Look, Looking
      <4> QED  BY <2>1, <2>2, <2>3, <3>1, <4>1
    <3> QED  BY <3>2, <3>3
  <2>4. CASE u # t
    <3>1. Look(u, d)' = Look(u, d) /\ rd'[u][d] = rd[u][d]
      BY <1>1, <1>2, <1>3, <1>4, <1>5, <1>6, <2>4, SMT DEF TypeOK, Look, Looking
    <3> QED  BY <2>1, <2>2, <3>1
  <2> QED  BY <2>3, <2>4
<1>10. LobbiesRight'
  <2> SUFFICES ASSUME NEW u \in Thread, NEW d \in Block
               PROVE  lobby'[d] = u <=> pc'[u] \in Looking /\ how'[u] = "lobby" /\ blk'[u] = d
    BY DEF LobbiesRight
  <2>1. lobby[d] = u <=> pc[u] \in Looking /\ how[u] = "lobby" /\ blk[u] = d
    <3>1. LobbiesRight
      BY <1>2
    <3> QED  BY <3>1, SMT DEF LobbiesRight
  <2>2. lobby[blk[t]] = t <=> how[t] = "lobby"
    <3>1. LobbiesRight
      BY <1>2
    <3> QED  BY <1>1, <1>6, <3>1, SMT DEF LobbiesRight, Looking
  <2>3. how[t] \in Locks \cup {"lobby"} /\ "lobby" \notin Locks
    BY <1>1, <1>2, SMT DEF TypeOK, Placed, Looking, Ways, Locks
  <2>4. CASE u = t
    <3>1. pc'[t] \notin Looking
      BY <1>1, <1>2, <1>3, <1>4, <1>5, <1>6, SMT DEF TypeOK, Looking
    <3>2. lobby'[d] # t
      BY <1>1, <1>2, <1>6, <2>1, <2>2, <2>3, <2>4, SMT DEF TypeOK
    <3> QED  BY <2>4, <3>1, <3>2
  <2>5. CASE u # t
    <3>1. pc'[u] = pc[u] /\ how'[u] = how[u] /\ blk'[u] = blk[u]
      BY <1>2, <1>5, <2>5 DEF TypeOK
    <3>2. lobby'[d] = u <=> lobby[d] = u
      BY <1>1, <1>2, <1>6, <2>2, <2>3, <2>5, SMT DEF TypeOK
    <3> QED  BY <2>1, <3>1, <3>2, SMT
  <2> QED  BY <2>4, <2>5
<1>11. BuryAlone'
  BY <1>1, <1>2, <1>3, <1>4, <1>5, <1>6, SMTT(20) DEF BuryAlone, TypeOK
<1>12. UsedIsThere'
  BY <1>1, <1>2, <1>3, <1>4, <1>5, <1>6, SMTT(20) DEF UsedIsThere, LooksAt, TypeOK, Placed, Busy, Looking
<1>13. MutexesRight'
  <2>1. \A c \in Client : depth'[c] = 0 <=> holder'[c] = Nobody
    BY <1>1, <1>2, <1>3, <1>4, <1>5, <1>6, SMTT(20) DEF MutexesRight, TypeOK
  <2>2. \A c \in Client, u \in Thread : holder'[c] = u =>
          \/ u # Outside /\ at'[c] = u
          \/ pc'[u] = "told" /\ vic'[u] = c /\ depth'[c] = 1
    BY <1>1, <1>2, <1>3, <1>4, <1>5, <1>6, SMTT(20) DEF MutexesRight, TypeOK
  <2>3. \A u \in Thread : pc'[u] = "told" => holder'[vic'[u]] = u
    <3> SUFFICES ASSUME NEW u \in Thread, pc'[u] = "told" PROVE holder'[vic'[u]] = u
      OBVIOUS
    <3>1. u # t /\ pc[u] = "told" /\ vic'[u] = vic[u]
      BY <1>1, <1>2, <1>3, <1>4, <1>5, <1>6, SMT DEF TypeOK
    <3>2. holder[vic[u]] = u /\ vic[u] \in Client
      <4>1. vic[u] \in Client
        BY <1>2, <3>1, NoneAssumption, SMT DEF TypeOK, Placed, Looking
      <4>2. MutexesRight
        BY <1>2
      <4> QED  BY <3>1, <4>1, <4>2 DEF MutexesRight
    <3> QED  BY <1>2, <1>3, <1>4, <3>1, <3>2 DEF TypeOK
  <2> QED  BY <2>1, <2>2, <2>3 DEF MutexesRight
<1> QED  BY <1>7, <1>8, <1>9, <1>10, <1>11, <1>12, <1>13 DEF IInv

\* A walk without a lock comes to a client.
LEMMA WalkOnStep == ASSUME IInv, NEW t \in Thread, NEW todo \in SUBSET In(blk[t]), pc[t] \in {"enter", "walk"},
           how[t] = "bare", WantNext(t, todo, "walk"), flagged' \subseteq Client,
           UNCHANGED <<at, cur, rest, rd, holder, depth, lobby>> PROVE IInv'
<1> USE Threads, BlocksAssumption
<1>1. /\ pc[t] \in {"enter", "walk"} /\ how[t] = "bare" /\ flagged' \subseteq Client
      /\ UNCHANGED <<at, cur, rest, how, blk, rd, holder, depth, lobby>>
  BY DEF WantNext
<1>2. TypeOK /\ Placed /\ ReadersRight /\ LobbiesRight /\ BuryAlone /\ UsedIsThere /\ MutexesRight
  BY DEF IInv
<1>3. PICK c \in Client : /\ c \in todo /\ at[c] = blk[t]
                           /\ vic' = [vic EXCEPT ![t] = c]
                           /\ left' = [left EXCEPT ![t] = todo \ {c}]
                           /\ pc' = [pc EXCEPT ![t] = "walk"]
  BY DEF WantNext, Goto, In
<1>4. todo \subseteq Client
  BY DEF In
<1>5. TypeOK'
  <2>1. pc' \in [Thread -> Labels]
    BY <1>1, <1>2, <1>3, SMT DEF TypeOK, Labels
  <2>2. vic' \in [Thread -> Client \cup {None}] /\ left' \in [Thread -> SUBSET Client]
    BY <1>1, <1>2, <1>3, <1>4, SMT DEF TypeOK
  <2> QED  BY <1>1, <1>2, <2>1, <2>2 DEF TypeOK
<1>6. Placed'
  <2>1. pc'[Outside] \in {"idle", "enter", "reach", "told", "walk"} /\ cur'[Outside] = None
    BY <1>1, <1>2, <1>3, SMT DEF Placed, TypeOK
  <2>2. \A d \in Block : pc'[d] # "idle"
    BY <1>1, <1>2, <1>3, SMT DEF Placed, TypeOK
  <2>3. \A d \in Block : cur'[d] # None <=> pc'[d] \in Busy
    BY <1>1, <1>2, <1>3, SMTT(20) DEF Placed, TypeOK, Busy
  <2>4. \A d \in Block : pc'[d] \in Busy => \A x \in rest'[d] : at'[x] = d
    BY <1>1, <1>2, <1>3, SMTT(20) DEF Placed, TypeOK, Busy
  <2>5. \A u \in Thread : pc'[u] \in Looking => vic'[u] # None /\ how'[u] # "bare"
    BY <1>1, <1>2, <1>3, SMT DEF Placed, TypeOK, Looking
  <2>6. \A u \in Thread : pc'[u] = "walk" => vic'[u] # None /\ how'[u] = "bare"
    BY <1>1, <1>2, <1>3, NoneAssumption, SMT DEF Placed, TypeOK
  <2> QED  BY <2>1, <2>2, <2>3, <2>4, <2>5, <2>6 DEF Placed
<1>7. ReadersRight'
  <2> SUFFICES ASSUME NEW u \in Thread, NEW d \in Block
               PROVE  rd'[u][d] = Own(u, d)' + Look(u, d)'
    BY DEF ReadersRight
  <2>1. rd[u][d] = Own(u, d) + Look(u, d)
    BY <1>2 DEF ReadersRight
  <2> QED  BY <1>1, <1>2, <1>3, <2>1, SMTT(20) DEF TypeOK, Own, Look, Busy, Looking
<1>8. LobbiesRight'
  <2> SUFFICES ASSUME NEW u \in Thread, NEW d \in Block
               PROVE  lobby'[d] = u <=> pc'[u] \in Looking /\ how'[u] = "lobby" /\ blk'[u] = d
    BY DEF LobbiesRight
  <2>1. lobby[d] = u <=> pc[u] \in Looking /\ how[u] = "lobby" /\ blk[u] = d
    <3>1. LobbiesRight
      BY <1>2
    <3> QED  BY <3>1, SMT DEF LobbiesRight
  <2> QED  BY <1>1, <1>2, <1>3, <2>1, SMTT(20) DEF TypeOK, Looking
<1>9. BuryAlone'
  BY <1>1, <1>2, <1>3, SMTT(20) DEF BuryAlone, TypeOK
<1>10. UsedIsThere'
  <2>1. ASSUME NEW u \in Thread, NEW d \in LooksAt(u)'
        PROVE  at'[d] = blk'[u] \/ (how'[u] = "bare" /\ u # blk'[u])
    <3>1. CASE u = t
      BY <1>1, <1>2, <1>3, <2>1, <3>1, SMT DEF LooksAt, TypeOK
    <3>2. CASE u # t
      <4>1. d \in LooksAt(u) /\ blk'[u] = blk[u] /\ how'[u] = how[u] /\ at'[d] = at[d]
        BY <1>1, <1>2, <1>3, <2>1, <3>2, SMT DEF LooksAt, TypeOK
      <4> QED  BY <1>2, <4>1 DEF UsedIsThere
    <3> QED  BY <3>1, <3>2
  <2> QED  BY <1>1, <1>2, <2>1 DEF UsedIsThere
<1>11. MutexesRight'
  <2>1. \A y \in Client : depth'[y] = 0 <=> holder'[y] = Nobody
    BY <1>1, <1>2 DEF MutexesRight
  <2>2. \A y \in Client, u \in Thread : holder'[y] = u =>
          \/ u # Outside /\ at'[y] = u
          \/ pc'[u] = "told" /\ vic'[u] = y /\ depth'[y] = 1
    BY <1>1, <1>2, <1>3, SMTT(20) DEF MutexesRight, TypeOK
  <2>3. \A u \in Thread : pc'[u] = "told" => holder'[vic'[u]] = u
    BY <1>1, <1>2, <1>3, SMTT(20) DEF MutexesRight, TypeOK
  <2> QED  BY <2>1, <2>2, <2>3 DEF MutexesRight
<1> QED  BY <1>5, <1>6, <1>7, <1>8, <1>9, <1>10, <1>11 DEF IInv

\* A thread comes to a block of which it looks through the list.
LEMMA EnterStep == ASSUME IInv, NEW t \in Thread, Enter(t) PROVE IInv'
<1>1. /\ pc[t] = "enter" /\ how[t] \in Locks
      /\ t # blk[t] => ~ Writer(blk[t])
      /\ UNCHANGED <<at, cur, rest, holder, depth, lobby>>
      /\ \/ /\ WantNext(t, In(blk[t]), "reach") /\ UNCHANGED flagged
            /\ rd' = [rd EXCEPT ![t][blk[t]] = @ + 1]
         \/ /\ NextBlock(t)
            /\ UNCHANGED flagged \/ \E c \in In(blk[t]) : Kick(t, c)
            /\ UNCHANGED <<left, vic, rd>>
  BY DEF Enter, round, mutexes, Locks
<1>2. flagged \subseteq Client /\ Unlocked(t, {})
  BY <1>1, LooseNone DEF IInv, TypeOK
<1>3. CASE WantNext(t, In(blk[t]), "reach") /\ UNCHANGED flagged /\ rd' = [rd EXCEPT ![t][blk[t]] = @ + 1]
  BY <1>1, <1>2, <1>3, WantStep
<1>4. CASE /\ NextBlock(t)
           /\ UNCHANGED flagged \/ \E c \in In(blk[t]) : Kick(t, c)
           /\ UNCHANGED <<left, vic, rd>>
  <2>1. flagged' \subseteq Client
    BY <1>2, <1>4, SMT DEF Kick, In
  <2> QED  BY <1>1, <1>2, <1>4, <2>1, StayPut, PassStep
<1> QED  BY <1>1, <1>3, <1>4

\* A ban comes to a block: it unlocks what it passes.
LEMMA EnterBanStep == ASSUME IInv, NEW t \in Thread, EnterBan(t) PROVE IInv'
<1>1. /\ pc[t] = "enter" /\ how[t] \in Locks
      /\ t # blk[t] => ~ Writer(blk[t])
      /\ UNCHANGED <<at, flagged, cur, rest, lobby>>
      /\ \/ \E c \in In(blk[t]) : \E passed \in SUBSET (In(blk[t]) \ {c}) :
             /\ Unlocked(t, passed)
             /\ WantNext(t, {c}, "reach")
             /\ rd' = [rd EXCEPT ![t][blk[t]] = @ + 1]
         \/ /\ Unlocked(t, In(blk[t]))
            /\ NextBlock(t)
            /\ UNCHANGED <<left, vic, rd>>
  BY DEF EnterBan, clients, round, Locks
<1>2. flagged \subseteq Client /\ In(blk[t]) \in SUBSET Client
  BY DEF IInv, TypeOK, In
<1>3. ASSUME NEW c \in In(blk[t]), NEW passed \in SUBSET (In(blk[t]) \ {c}),
             Unlocked(t, passed), WantNext(t, {c}, "reach"),
             rd' = [rd EXCEPT ![t][blk[t]] = @ + 1]
      PROVE  IInv'
  <2>1. passed \in SUBSET Client /\ {c} \in SUBSET In(blk[t])
    BY <1>2
  <2> QED  BY <1>1, <1>3, <2>1, WantStep
<1>4. CASE Unlocked(t, In(blk[t])) /\ NextBlock(t) /\ UNCHANGED <<left, vic, rd>>
  BY <1>1, <1>2, <1>4, StayPut, PassStep
<1> QED  BY <1>1, <1>3, <1>4

\* A walk without a lock comes to a block.
LEMMA EnterBareStep == ASSUME IInv, NEW t \in Thread, EnterBare(t) PROVE IInv'
<1>1. /\ pc[t] = "enter" /\ how[t] = "bare"
      /\ UNCHANGED <<at, flagged, cur, rest, rd, holder, depth, lobby>>
      /\ \/ WantNext(t, In(blk[t]), "walk")
         \/ NextBlock(t) /\ UNCHANGED <<left, vic>>
  BY DEF EnterBare, clients, round, mutexes
<1>2. flagged \subseteq Client /\ Unlocked(t, {})
  BY <1>1, LooseNone DEF IInv, TypeOK
<1>3. CASE WantNext(t, In(blk[t]), "walk")
  BY <1>1, <1>2, <1>3, WalkOnStep
<1>4. CASE NextBlock(t) /\ UNCHANGED <<left, vic>>
  BY <1>1, <1>2, <1>4, StayPut, PassStep
<1> QED  BY <1>1, <1>3, <1>4

\* A walk without a lock goes on from a client, which may have been freed.
LEMMA WalkStep == ASSUME IInv, NEW t \in Thread, Walk(t) PROVE IInv'
<1>1. /\ pc[t] = "walk" /\ how[t] = "bare"
      /\ flagged' \in {flagged, flagged \cup ({vic[t]} \ In(0))}
      /\ UNCHANGED <<at, cur, rest, rd, holder, depth, lobby>>
      /\ \/ WantNext(t, left[t] \cap In(blk[t]), "walk")
         \/ /\ NextBlock(t)
            /\ left' = [left EXCEPT ![t] = {}]
            /\ vic' = [vic EXCEPT ![t] = None]
  BY DEF Walk, round, mutexes, IInv, Placed
<1>2. flagged' \subseteq Client /\ Unlocked(t, {})
  <2>1. vic[t] \in Client
    BY <1>1, NoneAssumption, SMT DEF IInv, TypeOK, Placed
  <2> QED  BY <1>1, <2>1, LooseNone DEF IInv, TypeOK
<1>3. CASE WantNext(t, left[t] \cap In(blk[t]), "walk")
  BY <1>1, <1>2, <1>3, WalkOnStep
<1>4. CASE NextBlock(t) /\ left' = [left EXCEPT ![t] = {}] /\ vic' = [vic EXCEPT ![t] = None]
  <2>1. {} \in SUBSET Client /\ None \in Client \cup {None}
    OBVIOUS
  <2> QED  BY <1>1, <1>2, <1>4, <2>1, PassStep
<1> QED  BY <1>1, <1>3, <1>4

\* A thread comes to a block of which it looks through the lobby.
LEMMA EnterLobbyStep == ASSUME IInv, NEW t \in Thread, EnterLobby(t) PROVE IInv'
<1>1. /\ pc[t] = "enter" /\ how[t] = "lobby" /\ lobby[blk[t]] = Nobody
      /\ UNCHANGED <<at, flagged, cur, rest, rd, holder, depth>>
      /\ \/ /\ \E members \in SUBSET In(blk[t]) : WantNext(t, members, "reach")
            /\ lobby' = [lobby EXCEPT ![blk[t]] = t]
         \/ NextBlock(t) /\ UNCHANGED <<left, vic, lobby>>
  BY DEF EnterLobby, clients, round, mutexes
<1>2. flagged \subseteq Client /\ Unlocked(t, {})
  BY <1>1, LooseNone DEF IInv, TypeOK
<1>3. ASSUME NEW members \in SUBSET In(blk[t]), WantNext(t, members, "reach"),
             lobby' = [lobby EXCEPT ![blk[t]] = t]
      PROVE  IInv'
  BY <1>1, <1>3, WantMemberStep
<1>4. CASE NextBlock(t) /\ UNCHANGED <<left, vic, lobby>>
  BY <1>1, <1>2, <1>4, StayPut, PassStep
<1> QED  BY <1>1, <1>3, <1>4

\* A thread is done with a client it looked for.
LEMMA ToldStep == ASSUME IInv, NEW t \in Thread, Told(t) PROVE IInv'
<1>1. /\ pc[t] = "told" /\ Unlocked(t, {vic[t]})
      /\ flagged' = flagged \/ flagged' = flagged \cup {vic[t]}
      /\ UNCHANGED <<at, cur, rest>>
      /\ \/ WantNext(t, left[t], "reach") /\ UNCHANGED <<rd, lobby>>
         \/ /\ NextBlock(t)
            /\ left' = [left EXCEPT ![t] = {}]
            /\ vic' = [vic EXCEPT ![t] = None]
            /\ IF how[t] \in Locks
               THEN rd' = [rd EXCEPT ![t][blk[t]] = @ - 1] /\ UNCHANGED lobby
               ELSE lobby' = [lobby EXCEPT ![blk[t]] = Nobody] /\ UNCHANGED rd
  BY DEF Told, round, NextBlock
<1>2. flagged' \subseteq Client
  <2>1. TypeOK /\ Placed
    BY DEF IInv
  <2>2. vic[t] \in Client
    BY <1>1, <2>1, NoneAssumption, SMT DEF TypeOK, Placed, Looking
  <2> QED  BY <1>1, <2>1, <2>2 DEF TypeOK
<1>3. left[t] \subseteq In(blk[t])
  <2>1. TypeOK /\ UsedIsThere
    BY DEF IInv
  <2>2. left[t] \subseteq LooksAt(t) /\ left[t] \subseteq Client
    BY <1>1, <2>1 DEF LooksAt, TypeOK
  <2>3. how[t] # "bare"
    BY <1>1 DEF IInv, Placed, Looking
  <2> QED  BY <2>1, <2>2, <2>3 DEF UsedIsThere, In
<1>4. CASE WantNext(t, left[t], "reach") /\ UNCHANGED <<rd, lobby>>
  BY <1>1, <1>2, <1>3, <1>4, ToldNextStep
<1>5. CASE /\ NextBlock(t)
           /\ left' = [left EXCEPT ![t] = {}]
           /\ vic' = [vic EXCEPT ![t] = None]
           /\ IF how[t] \in Locks
              THEN rd' = [rd EXCEPT ![t][blk[t]] = @ - 1] /\ UNCHANGED lobby
              ELSE lobby' = [lobby EXCEPT ![blk[t]] = Nobody] /\ UNCHANGED rd
  BY <1>1, <1>2, <1>5, ToldLastStep
<1> QED  BY <1>1, <1>4, <1>5

-----------------------------------------------------------------------------
\* Every step preserves the invariant.
LEMMA Step == IInv /\ [Next]_vars => IInv'
<1> SUFFICES ASSUME IInv, [Next]_vars PROVE IInv'  OBVIOUS
<1>1. ASSUME NEW t \in Thread, Looks(t) \/ Steps(t) PROVE IInv'
  BY <1>1, LooksStep, EnterStep, EnterBanStep, EnterBareStep, WalkStep, EnterLobbyStep, ReachStep, ToldStep DEF Steps
<1>2. ASSUME NEW b \in Block, Serves(b) PROVE IInv'
  BY <1>2, RoundStep, LockStep, ServedStep, SweepStep, BuryStep, EndRoundStep DEF Serves
<1>3. CASE UNCHANGED vars
  BY <1>3 DEF vars, IInv, TypeOK, Placed, ReadersRight, Own, Look, LobbiesRight, BuryAlone,
              UsedIsThere, LooksAt, MutexesRight, Serving, InHand
<1> QED  BY <1>1, <1>2, <1>3 DEF Next

\* The invariant holds in every behaviour.
LEMMA Always == Spec => []IInv
  BY Initial, Step, PTL DEF Spec

\* Every variable keeps its type; above all, the count of a mutex never goes below
\* zero, although global_ban (admin.c:602) unlocks mutexes it has not locked and so
\* may leave the thread of a block to unlock one it no longer has: only an unlock by
\* the owner counts.  Nor is a block's lock unlocked more often than it was locked.
THEOREM TypeCorrect == Spec => []TypeOK
<1>1. IInv => TypeOK
  BY DEF IInv
<1> QED  BY <1>1, Always, PTL

\* No client is freed while a thread still looks at it or waits for its mutex, if that
\* thread found it under a lock or in the list of its own block: the sweep (block.c:489)
\* and lobby_remove_player take the lock under which the other thread found it, whatever
\* a ban has done to the mutexes.  A walk of admin.c (66-93, 325, 352, 383, 421, 471)
\* through the list of another block has no such protection.
THEOREM UsedThere == Spec => []UsedIsThere
<1>1. IInv => UsedIsThere
  BY DEF IInv
<1> QED  BY <1>1, Always, PTL

-----------------------------------------------------------------------------
\* What each thread waits for.
LEMMA Waits ==
    ASSUME NEW t \in Thread
    PROVE  /\ pc[t] = "lock" => WaitsFor(t) = {holder[cur[t]]} \ {t, Nobody}
           /\ pc[t] = "reach" => WaitsFor(t) = {holder[vic[t]]} \ {t, Nobody}
           /\ pc[t] = "enter" /\ how[t] \in Locks =>
                WaitsFor(t) = {b \in Block : b = blk[t] /\ b # t /\ Writer(b)}
           /\ pc[t] = "enter" /\ how[t] = "lobby" => WaitsFor(t) = {lobby[blk[t]]} \ {Nobody}
           /\ pc[t] \in {"accept", "sweep"} => WaitsFor(t) = {u \in Thread : rd[u][t] > 0}
           /\ pc[t] = "bury" => WaitsFor(t) = {lobby[t]} \ {Nobody}
           /\ pc[t] = "enter" /\ how[t] = "bare" => WaitsFor(t) = {}
           /\ pc[t] \in {"round", "handle", "idle", "told", "walk"} => WaitsFor(t) = {}
  BY SMTT(30) DEF WaitsFor, Locks

\* A deadlock needs a thread that waits for the client another thread of the deadlock
\* serves, or for a mutex that was never unlocked: whoever holds a lobby's mutex or
\* a block's lock otherwise has no more to wait for than a mutex, and who holds a
\* mutex without serving its client waits for nothing.
LEMMA Crossings == IInv => OnlyCrossings
<1> SUFFICES ASSUME IInv, NEW S \in Deadlocks,
                    ~ \E b, t \in S : /\ b # t /\ Serving(b)
                                      /\ pc[t] = "reach" /\ vic[t] = cur[b],
                    ~ \E t \in S : pc[t] = "reach" /\ Leaked(vic[t])
             PROVE  FALSE
  BY DEF OnlyCrossings
<1> USE Threads
<1>1. TypeOK /\ Placed /\ ReadersRight /\ LobbiesRight /\ MutexesRight /\ UsedIsThere
  BY DEF IInv
<1>2. S \subseteq Thread /\ S # {} /\ \A t \in S : \E u \in S : u \in WaitsFor(t)
  BY DEF Deadlocks
<1>3. \A t \in S : pc[t] \notin {"round", "handle", "idle", "told", "walk"}
  BY <1>2, Waits
<1>4. ASSUME NEW t \in S, pc[t] = "reach" PROVE FALSE
  <2>1. PICK u \in S : u \in WaitsFor(t)
    BY <1>2
  <2>2. u = holder[vic[t]] /\ u # t /\ u \in Thread /\ t \in Thread
    BY <1>2, <1>4, <2>1, Waits
  <2>3. vic[t] \in Client
    BY <1>1, <1>4, <2>2, NoneAssumption, SMT DEF TypeOK, Placed, Looking
  <2>4. pc[u] # "told"
    BY <1>3
  <2>5. ~ (Serving(u) /\ cur[u] = vic[t])
    BY <1>4, <2>2
  <2>6. InHand(vic[t], u) = 0
    BY <2>4, <2>5, SMT DEF InHand
  <2>7. depth[vic[t]] \in Nat /\ depth[vic[t]] # 0 /\ holder[vic[t]] # Nobody
    BY <1>1, <2>2, <2>3 DEF TypeOK, MutexesRight
  <2>8. Leaked(vic[t])
    BY <2>2, <2>6, <2>7, SMT DEF Leaked
  <2> QED  BY <1>4, <2>8
<1>5. ASSUME NEW t \in S, pc[t] = "lock" PROVE FALSE
  <2>1. PICK u \in S : u \in WaitsFor(t)
    BY <1>2
  <2>2. u = holder[cur[t]] /\ u # t /\ u \in Thread /\ t \in Thread
    BY <1>2, <1>5, <2>1, Waits
  <2>3. t \in Block
    BY <1>1, <1>5, <2>2 DEF Placed
  <2>4. cur[t] \in Client /\ at[cur[t]] = t
    BY <1>1, <1>5, <2>2, <2>3, NoneAssumption, SMT DEF TypeOK, Placed, Busy, UsedIsThere
  <2>5. pc[u] = "told"
    BY <1>1, <2>2, <2>4 DEF MutexesRight
  <2> QED  BY <1>3, <2>5
<1>6. ASSUME NEW u \in S, pc[u] \in Looking PROVE FALSE
  BY <1>3, <1>4, <1>6 DEF Looking
<1>7. ASSUME NEW t \in S, NEW b \in Block, WaitsFor(t) = {lobby[b]} \ {Nobody} PROVE FALSE
  <2>1. PICK u \in S : u \in WaitsFor(t)
    BY <1>2
  <2>2. u = lobby[b] /\ u \in Thread
    BY <1>2, <1>7, <2>1
  <2>3. pc[u] \in Looking
    <3>1. LobbiesRight
      BY <1>1
    <3> QED  BY <2>2, <3>1, SMT DEF LobbiesRight
  <2> QED  BY <1>6, <2>3
<1>8. ASSUME NEW t \in S, pc[t] = "bury" PROVE FALSE
  <2>1. t \in Block
    BY <1>1, <1>2, <1>8 DEF Placed
  <2> QED  BY <1>2, <1>7, <1>8, <2>1, Waits
<1>9. ASSUME NEW t \in S, pc[t] \in {"accept", "sweep"} PROVE FALSE
  <2>1. PICK u \in S : u \in WaitsFor(t)
    BY <1>2
  <2>2. u \in Thread /\ t \in Thread /\ rd[u][t] > 0
    BY <1>2, <1>9, <2>1, Waits
  <2>3. t \in Block
    BY <1>1, <1>9, <2>2 DEF Placed
  <2>4. rd[u][t] = Own(u, t) + Look(u, t)
    BY <1>1, <2>2, <2>3 DEF ReadersRight
  <2>5. Own(u, t) = 0
    BY <1>9, SMT DEF Own, Busy
  <2>6. Look(u, t) = 0
    BY <1>6, SMT DEF Look
  <2> QED  BY <2>2, <2>4, <2>5, <2>6, SMT
<1>10. ASSUME NEW t \in S, pc[t] = "enter" PROVE FALSE
  <2>1. t \in Thread /\ blk[t] \in Block /\ how[t] \in Locks \cup {"lobby", "bare"}
    BY <1>1, <1>2, SMT DEF TypeOK, Ways, Locks
  <2>2. how[t] \in Locks
    <3>4. how[t] # "bare"
      BY <1>2, <1>10, <2>1, Waits
    <3>1. SUFFICES ASSUME how[t] = "lobby" PROVE FALSE
      BY <2>1, <3>4
    <3>2. WaitsFor(t) = {lobby[blk[t]]} \ {Nobody}
      BY <1>10, <2>1, <3>1, Waits
    <3> QED  BY <1>7, <2>1, <3>2
  <2>3. PICK u \in S : u \in WaitsFor(t)
    BY <1>2
  <2>4. Writer(u)
    BY <1>10, <2>1, <2>2, <2>3, Waits
  <2> QED  BY <1>8, <1>9, <2>4, SMT DEF Writer
<1>11. PICK t \in S : pc[t] \in Labels
  BY <1>1, <1>2 DEF TypeOK
<1> QED  BY <1>3, <1>4, <1>5, <1>8, <1>9, <1>10, <1>11, SMT DEF Labels

\* Threads wait for each other in a circle only where one of them waits for the client
\* that another one serves (block.c:425), or for a mutex that was never unlocked
\* (block.c:1614, lobby.c:1951): for any number of blocks and clients, and with any
\* depth of leaks.
THEOREM DeadlocksCross == Spec => []OnlyCrossings
  BY Always, Crossings, PTL
=============================================================================
