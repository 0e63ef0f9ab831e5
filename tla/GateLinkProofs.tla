--------------------------- MODULE GateLinkProofs ---------------------------
(***************************************************************************)
(* GateLink for any ships, clients, accounts and blocks: type correctness; *)
(* that nothing stays in the database of a ship that is not connected, and *)
(* nobody who has left; that a ship is in a menu as long as it can be      *)
(* reached; and that the ships know of each other, in the order in which   *)
(* they came, as long as the gate hears of every link that ends.           *)
(***************************************************************************)
EXTENDS GateLink, FiniteSetTheorems, SequenceTheorems, TLAPS

-----------------------------------------------------------------------------
(* What goes over a link.                                                  *)

LEMMA ShipPackets ==
    ASSUME NEW m \in ToShip
    PROVE  /\ m.type = "status" => m.ship \in Ships /\ m.up \in BOOLEAN
           /\ m.type = "bloginerr" => m.card \in Cards /\ m.block \in Blocks
BY DEF ToShip, Welcome, Accepted, Refused, Count, Status, BLoginErr

LEMMA GatePackets ==
    ASSUME NEW m \in ToGate
    PROVE  /\ m.type = "blklogin" => m.card \in Cards /\ m.block \in Blocks
           /\ m.type = "blklogout" => m.card \in Cards
           /\ m.type = "bclients" => m.block \in Blocks /\ m.cards \subseteq Cards
BY DEF ToGate, Login, Count, BlkLogin, BlkLogout, BClients

LEMMA PacketTypes ==
    /\ \A b \in Blocks : \A gs \in SUBSET Cards : BClients(b, gs) \in ToGate
    /\ \A s \in Ships : Count(s) \in ToShip
    /\ \A s \in Ships : \A u \in BOOLEAN : Status(s, u) \in ToShip
    /\ \A g \in Cards : \A b \in Blocks : BLoginErr(g, b) \in ToShip
    /\ Accepted \in ToShip /\ Refused \in ToShip
BY DEF ToGate, ToShip

LEMMA IsList ==
    ASSUME NEW T, NEW n \in Nat, NEW f \in [1 .. n -> T]
    PROVE  f \in Seq(T)
BY SeqDef

LEMMA OneList == \A T : \A x \in T : <<x>> \in Seq(T)
OBVIOUS

\* A list of the members of a finite set.
LEMMA ListOf ==
    ASSUME NEW S, IsFiniteSet(S)
    PROVE  SetToSeq(S) \in Seq(S)
<1>1. ExistsBijection(1 .. Cardinality(S), S) /\ Cardinality(S) \in Nat
    BY FS_CardinalityType
<1>2. \E f \in [1 .. Cardinality(S) -> S] : IsInjective(f)
    BY <1>1 DEF ExistsBijection, Bijection, Injection
<1>3. SetToSeq(S) \in [1 .. Cardinality(S) -> S]
    BY <1>2 DEF SetToSeq
<1>. QED BY <1>1, <1>3

-----------------------------------------------------------------------------
(* What the operators on connections return.                               *)

\* The connections a are of the right type and belong to the same ships as b.
Alike(a, b) == /\ a \in [Conns -> Conn]
               /\ \A j \in Conns : a[j].ship = b[j].ship

Same(cn) == Alike(cn, conn)

LEMMA Field ==
    ASSUME NEW cn \in [Conns -> Conn], NEW k \in Conns
    PROVE  /\ cn[k].ship \in Ships /\ cn[k].known \in BOOLEAN
           /\ cn[k].wire \in {"up", "closed", "dead"}
           /\ cn[k].up \in Seq(ToGate) /\ cn[k].down \in Seq(ToShip)
BY DEF Conn

SetUp(cn, k, q)    == [cn EXCEPT ![k].up = q]
SetDown(cn, k, q)  == [cn EXCEPT ![k].down = q]
SetKnown(cn, k, b) == [cn EXCEPT ![k].known = b]

LEMMA UpType ==
    ASSUME NEW cn \in [Conns -> Conn], NEW k \in Conns, NEW q \in Seq(ToGate)
    PROVE  Alike(SetUp(cn, k, q), cn)
BY DEF Conn, Alike, SetUp

LEMMA DownType ==
    ASSUME NEW cn \in [Conns -> Conn], NEW k \in Conns, NEW q \in Seq(ToShip)
    PROVE  Alike(SetDown(cn, k, q), cn)
BY DEF Conn, Alike, SetDown

LEMMA KnownType ==
    ASSUME NEW cn \in [Conns -> Conn], NEW k \in Conns, NEW b \in BOOLEAN
    PROVE  Alike(SetKnown(cn, k, b), cn)
BY DEF Conn, Alike, SetKnown

LEMMA ToldType ==
    ASSUME NEW cn \in [Conns -> Conn], NEW to, NEW msgs \in [Conns -> Seq(ToShip)]
    PROVE  Alike(Told(cn, to, msgs), cn)
<1>1. ASSUME NEW k \in Conns
      PROVE  /\ Told(cn, to, msgs)[k] \in Conn
             /\ Told(cn, to, msgs)[k].ship = cn[k].ship
    <2>1. cn[k].down \o msgs[k] \in Seq(ToShip)
        BY Field
    <2>2. [cn[k] EXCEPT !.down = @ \o msgs[k]] \in Conn
        BY <2>1, Field DEF Conn
    <2>3. Told(cn, to, msgs)[k] = IF cn[k].wire = "up" /\ k \in to
                                    THEN [cn[k] EXCEPT !.down = @ \o msgs[k]]
                                    ELSE cn[k]
        BY DEF Told
    <2>4. [cn[k] EXCEPT !.down = @ \o msgs[k]].ship = cn[k].ship
        BY DEF Conn
    <2>. QED BY <2>2, <2>3, <2>4
<1>. QED BY <1>1 DEF Told, Alike

LEMMA ToAllType == \A m \in ToShip : ToAll(m) \in [Conns -> Seq(ToShip)]
BY DEF ToAll

LEMMA SentSame ==
    ASSUME TypeOK, NEW s \in Ships, NEW msgs \in Seq(ToGate)
    PROVE  Same(Sent(conn, s, msgs))
<1>1. conn \in [Conns -> Conn] /\ ships \subseteq Conns
    BY DEF TypeOK
<1>2. CASE Linked(s) /\ hasKey[s] /\ conn[sock[s]].wire = "up"
    <2>1. sock[s] \in Conns
        BY <1>1, <1>2 DEF Linked
    <2>2. conn[sock[s]].up \o msgs \in Seq(ToGate)
        BY <1>1, <2>1, Field
    <2>3. Sent(conn, s, msgs) = SetUp(conn, sock[s], conn[sock[s]].up \o msgs)
        BY <1>1, <1>2, <2>1 DEF Sent, SetUp
    <2>. QED BY <1>1, <2>1, <2>2, <2>3, UpType DEF Same
<1>3. CASE ~(Linked(s) /\ hasKey[s] /\ conn[sock[s]].wire = "up")
    BY <1>1, <1>3 DEF Sent, Same, Alike
<1>. QED BY <1>2, <1>3

LEMMA CutSame ==
    ASSUME TypeOK, NEW k \in Conns, NEW w \in {"closed", "dead"},
           NEW n \in 0 .. Len(conn[k].up)
    PROVE  Same(Cut(k, w, n))
<1>1. conn \in [Conns -> Conn]
    BY DEF TypeOK
<1>2. conn[k].up \in Seq(ToGate) /\ <<>> \in Seq(ToShip)
    BY <1>1, Field
<1>3. SubSeq(conn[k].up, 1, n) \in Seq(ToGate)
    BY <1>2
<1>4. Cut(k, w, n) = [conn EXCEPT ![k] = [conn[k] EXCEPT
                        !.wire = w, !.down = <<>>, !.up = SubSeq(conn[k].up, 1, n)]]
    BY <1>1 DEF Cut, Conn
<1>5. [conn[k] EXCEPT !.wire = w, !.down = <<>>,
                      !.up = SubSeq(conn[k].up, 1, n)] \in Conn
    BY <1>1, <1>2, <1>3 DEF Conn
<1>6. [conn[k] EXCEPT !.wire = w, !.down = <<>>,
                      !.up = SubSeq(conn[k].up, 1, n)].ship = conn[k].ship
    BY <1>1 DEF Conn
<1>. QED BY <1>1, <1>4, <1>5, <1>6 DEF Same, Alike

LEMMA ClosedSame ==
    ASSUME TypeOK, NEW k \in Conns
    PROVE  Same(Closed(k))
<1>1. Len(conn[k].up) \in 0 .. Len(conn[k].up)
    BY Field DEF TypeOK
<1>. QED BY <1>1, CutSame DEF Closed

LEMMA ReadSame ==
    ASSUME TypeOK, NEW s \in Ships, sock[s] \in Conns, conn[sock[s]].down # <<>>
    PROVE  /\ Same(Read(s))
           /\ Same([Read(s) EXCEPT ![sock[s]].up = Append(@, Login)])
           /\ Head(conn[sock[s]].down) \in ToShip
<1>1. conn \in [Conns -> Conn] /\ conn[sock[s]].down \in Seq(ToShip)
    BY Field DEF TypeOK
<1>2. Tail(conn[sock[s]].down) \in Seq(ToShip) /\ Head(conn[sock[s]].down) \in ToShip
    BY <1>1
<1>3. Read(s) = SetDown(conn, sock[s], Tail(conn[sock[s]].down))
    BY <1>1 DEF Read, SetDown
<1>4. Same(Read(s))
    BY <1>1, <1>2, <1>3, DownType DEF Same
<1>5. Read(s) \in [Conns -> Conn] /\ Read(s)[sock[s]].up \in Seq(ToGate)
    BY <1>4, Field DEF Same, Alike
<1>6. Append(Read(s)[sock[s]].up, Login) \in Seq(ToGate)
    BY <1>5 DEF ToGate
<1>7. [Read(s) EXCEPT ![sock[s]].up = Append(@, Login)]
      = SetUp(Read(s), sock[s], Append(Read(s)[sock[s]].up, Login))
    BY <1>5 DEF SetUp
<1>8. Alike(SetUp(Read(s), sock[s], Append(Read(s)[sock[s]].up, Login)), Read(s))
    BY <1>5, <1>6, UpType
<1>. QED BY <1>2, <1>4, <1>7, <1>8 DEF Same, Alike

-----------------------------------------------------------------------------
(* The inductive invariant.  That connections are numbered in order is      *)
(* what keeps Connect from giving another ship's connection away.           *)

Numbered == ships \subseteq 1 .. made

IInv == TypeOK /\ Numbered /\ RowsBacked

\* A step that leaves the gate alone leaves its rows backed.
LEMMA GateAlone ==
    ASSUME IInv, Same(conn'), UNCHANGED gateVars, UNCHANGED made
    PROVE  Numbered' /\ RowsBacked'
<1>1. \A k \in ships : Owner(k)' = Owner(k)
    BY DEF IInv, TypeOK, Same, Alike, Owner
<1>. QED BY <1>1 DEF IInv, Numbered, RowsBacked, gateVars

LEMMA InitCorrect == Init => IInv
<1>. SUFFICES ASSUME Init PROVE IInv
    OBVIOUS
<1>1. Unused \in Conn
    BY LinkAssumption DEF Unused, Conn
<1>2. conn \in [Conns -> Conn]
    BY <1>1 DEF Init
<1>3. made \in 0 .. MaxConns /\ burst \in [Ships -> 0 .. NumBlocks]
    BY LinkAssumption DEF Init
<1>4. TypeOK
    BY <1>2, <1>3 DEF Init, TypeOK
<1>5. Numbered /\ RowsBacked
    BY DEF Init, Numbered, RowsBacked
<1>. QED BY <1>4, <1>5 DEF IInv

-----------------------------------------------------------------------------
(* The steps of the ships and of their clients.                            *)

\* A step that leaves the gate alone keeps IInv if it keeps the types.
LEMMA ShipSide ==
    ASSUME IInv, Same(conn'), UNCHANGED gateVars, UNCHANGED made,
           sock' \in [Ships -> Conns \cup {None}], hasKey' \in [Ships -> BOOLEAN],
           burst' \in [Ships -> 0 .. NumBlocks],
           entries' \in [Ships -> SUBSET Cards], overtaken' \in [Ships -> SUBSET Cards],
           fleet' \in [Ships -> SUBSET Ships], codes' \in [Ships -> SUBSET Codes],
           at' \in [Clients -> Places \cup {None}],
           named' \in [Clients -> BOOLEAN], flagged' \in [Clients -> BOOLEAN],
           lost' \in BOOLEAN
    PROVE  IInv'
<1>1. conn' \in [Conns -> Conn]
    BY DEF Same, Alike
<1>2. TypeOK'
    BY <1>1 DEF IInv, TypeOK, gateVars
<1>. QED BY <1>2, GateAlone DEF IInv

LEMMA HangupKeeps ==
    ASSUME IInv, NEW s \in Ships, NEW cn, Same(cn), Hangup(s, cn),
           UNCHANGED gateVars, codes' \in [Ships -> SUBSET Codes],
           at' \in [Clients -> Places \cup {None}],
           named' \in [Clients -> BOOLEAN], flagged' \in [Clients -> BOOLEAN],
           lost' \in BOOLEAN
    PROVE  IInv'
<1>1. conn' = cn /\ made' = made
    BY DEF Hangup
<1>2. /\ sock' \in [Ships -> Conns \cup {None}] /\ hasKey' \in [Ships -> BOOLEAN]
      /\ fleet' \in [Ships -> SUBSET Ships]
      /\ entries' \in [Ships -> SUBSET Cards] /\ overtaken' \in [Ships -> SUBSET Cards]
    BY DEF Hangup, IInv, TypeOK
<1>3. burst' \in [Ships -> 0 .. NumBlocks]
    BY LinkAssumption DEF Hangup, IInv, TypeOK
<1>. QED BY <1>1, <1>2, <1>3, ShipSide DEF Same

LEMMA ConnectKeeps ==
    ASSUME IInv, NEW s \in Ships, Connect(s)
    PROVE  IInv'
<1>. DEFINE new == [ship |-> s, known |-> FALSE, wire |-> "up",
                    up |-> <<>>, down |-> <<Welcome>>]
<1>1. made' \in Conns /\ made' = made + 1 /\ made \in Nat /\ made' \in 0 .. MaxConns
    BY LinkAssumption DEF Connect, IInv, TypeOK, Conns
<1>2. new \in Conn
    BY DEF Conn, ToShip
<1>3. conn' \in [Conns -> Conn]
    BY <1>1, <1>2 DEF Connect, IInv, TypeOK
<1>4. TypeOK'
    BY <1>1, <1>3 DEF Connect, IInv, TypeOK, clientVars, burstVars
<1>5. Numbered'
    BY <1>1 DEF Connect, IInv, Numbered
<1>6. \A k \in ships : k # made' /\ Owner(k)' = Owner(k) /\ k \in ships'
    BY <1>1 DEF Connect, IInv, TypeOK, Numbered, Owner
<1>7. RowsBacked'
    BY <1>6 DEF Connect, IInv, RowsBacked
<1>. QED BY <1>4, <1>5, <1>7 DEF IInv

LEMMA ShipReadsKeeps ==
    ASSUME IInv, NEW s \in Ships, ShipReads(s)
    PROVE  IInv'
<1>. DEFINE m == Head(conn[sock[s]].down)
<1>. USE DEF IInv
<1>1. sock[s] \in Conns
    BY DEF ShipReads, TypeOK
<1>2. /\ Same(Read(s)) /\ m \in ToShip
      /\ Same([Read(s) EXCEPT ![sock[s]].up = Append(@, Login)])
    BY <1>1, ReadSame DEF ShipReads
<1>3. UNCHANGED gateVars /\ lost' \in BOOLEAN
    BY DEF ShipReads, TypeOK
<1>4. CASE /\ conn' = IF Linked(s)
                         THEN [Read(s) EXCEPT ![sock[s]].up = Append(@, Login)]
                         ELSE Read(s)
           /\ UNCHANGED <<shipVars, clientVars, made>>
    <2>1. Same(conn')
        BY <1>2, <1>4
    <2>. QED BY <1>3, <1>4, <2>1, ShipSide DEF TypeOK, shipVars, burstVars, clientVars
<1>5. CASE /\ hasKey' = [hasKey EXCEPT ![s] = TRUE]
           /\ burst'  = [burst EXCEPT ![s] = 1]
           /\ conn'   = Read(s)
           /\ UNCHANGED <<sock, burstVars, fleet, codes, clientVars, made>>
    <2>1. burst' \in [Ships -> 0 .. NumBlocks]
        BY <1>5, LinkAssumption DEF TypeOK
    <2>2. hasKey' \in [Ships -> BOOLEAN] /\ Same(conn')
        BY <1>2, <1>5 DEF TypeOK
    <2>. QED BY <1>3, <1>5, <2>1, <2>2, ShipSide DEF TypeOK, clientVars, burstVars
<1>6. CASE Hangup(s, Closed(sock[s])) /\ UNCHANGED <<codes, clientVars>>
    <2>1. Same(Closed(sock[s]))
        BY <1>1, ClosedSame
    <2>. QED BY <1>3, <1>6, <2>1, HangupKeeps DEF TypeOK, clientVars
<1>7. CASE /\ m.type = "status"
           /\ fleet' = [fleet EXCEPT ![s] = FleetAfter(@, m)]
           /\ codes' = [codes EXCEPT ![s] = CodesAfter(@, fleet[s], m)]
           /\ conn'  = Read(s)
           /\ UNCHANGED <<sock, hasKey, burst, burstVars, clientVars, made>>
    <2>1. m.ship \in Ships /\ Menu[m.ship] \in Codes
        BY <1>2, <1>7, ShipPackets DEF Codes
    <2>2. FleetAfter(fleet[s], m) \subseteq Ships
        BY <2>1 DEF FleetAfter, TypeOK
    <2>3. CodesAfter(codes[s], fleet[s], m) \subseteq Codes
        BY <2>1 DEF CodesAfter, TypeOK
    <2>4. fleet' \in [Ships -> SUBSET Ships] /\ codes' \in [Ships -> SUBSET Codes]
        BY <1>7, <2>2, <2>3 DEF TypeOK
    <2>5. Same(conn')
        BY <1>2, <1>7
    <2>. QED BY <1>3, <1>7, <2>4, <2>5, ShipSide DEF TypeOK, clientVars, burstVars
<1>8. CASE /\ flagged' = Flagged(s, m) /\ conn' = Read(s)
           /\ UNCHANGED <<shipVars, at, named, made>>
    <2>1. flagged' \in [Clients -> BOOLEAN]
        BY <1>8 DEF Flagged, TypeOK
    <2>2. Same(conn')
        BY <1>2, <1>8
    <2>. QED BY <1>3, <1>8, <2>1, <2>2, ShipSide DEF TypeOK, shipVars, burstVars
<1>9. CASE conn' = Read(s) /\ UNCHANGED <<shipVars, clientVars, made>>
    <2>1. Same(conn')
        BY <1>2, <1>9
    <2>. QED BY <1>3, <1>9, <2>1, ShipSide DEF TypeOK, shipVars, burstVars, clientVars
<1>. QED BY <1>4, <1>5, <1>6, <1>7, <1>8, <1>9 DEF ShipReads

\* The block after the one that is sent.
LEMMA BlockAfter ==
    ASSUME TypeOK, NEW s \in Ships, burst[s] # 0
    PROVE  burst[s] \in Blocks /\ NextBlock(s) \in 0 .. NumBlocks
BY LinkAssumption DEF TypeOK, Blocks, NextBlock

LEMMA ShipListsKeeps ==
    ASSUME IInv, NEW s \in Ships, ShipLists(s)
    PROVE  IInv'
<1>. USE DEF IInv
<1>1. entries' \in [Ships -> SUBSET Cards]
    BY DEF ShipLists, TypeOK, On, Cards
<1>2. burst' \in [Ships -> 0 .. NumBlocks]
    BY BlockAfter DEF ShipLists, TypeOK
<1>3. Same(conn')
    BY DEF ShipLists, netVars, Same, Alike, TypeOK
<1>. QED BY <1>1, <1>2, <1>3, ShipSide DEF ShipLists, TypeOK, clientVars, netVars

LEMMA ShipBurstsKeeps ==
    ASSUME IInv, NEW s \in Ships, ShipBursts(s)
    PROVE  IInv'
<1>. USE DEF IInv
<1>1. burst' \in [Ships -> 0 .. NumBlocks] /\ burst[s] \in Blocks
    BY BlockAfter DEF ShipBursts, TypeOK
<1>2. entries[s] \subseteq Cards /\ entries' \in [Ships -> SUBSET Cards]
    BY DEF ShipBursts, TypeOK
<1>3. overtaken' \in [Ships -> SUBSET Cards]
    BY <1>2 DEF ShipBursts, Left, TypeOK
<1>4. <<BClients(burst[s], entries[s])>> \in Seq(ToGate)
    BY <1>1, <1>2, PacketTypes, OneList
<1>5. Same(conn)
    BY DEF Same, Alike, TypeOK
<1>6. Same(conn')
    BY <1>4, <1>5, SentSame DEF ShipBursts
<1>. QED BY <1>1, <1>2, <1>3, <1>6, ShipSide DEF ShipBursts, TypeOK, clientVars

LEMMA ShipReadsEndKeeps ==
    ASSUME IInv, NEW s \in Ships, ShipReadsEnd(s)
    PROVE  IInv'
<1>. USE DEF IInv
<1>1. sock[s] \in Conns
    BY DEF ShipReadsEnd, TypeOK
<1>2. Same(Closed(sock[s]))
    BY <1>1, ClosedSame
<1>. QED BY <1>2, HangupKeeps DEF ShipReadsEnd, TypeOK, clientVars

LEMMA LinkBreaksKeeps ==
    ASSUME IInv, NEW s \in Ships, LinkBreaks(s)
    PROVE  IInv'
<1>. USE DEF IInv
<1>1. sock[s] \in Conns
    BY DEF LinkBreaks, TypeOK
<1>2. PICK w \in {"closed", "dead"}, n \in 0 .. Len(conn[sock[s]].up) :
          /\ Hangup(s, Cut(sock[s], w, n))
          /\ lost' = (lost \/ w = "dead")
    BY DEF LinkBreaks, Break
<1>3. Same(Cut(sock[s], w, n)) /\ lost' \in BOOLEAN
    BY <1>1, <1>2, CutSame
<1>. QED BY <1>2, <1>3, HangupKeeps DEF LinkBreaks, TypeOK, clientVars

LEMMA ShipCrashesKeeps ==
    ASSUME IInv, NEW s \in Ships, ShipCrashes(s)
    PROVE  IInv'
<1>. USE DEF IInv
<1>1. sock[s] \in Conns
    BY DEF ShipCrashes, TypeOK
<1>2. PICK w \in {"closed", "dead"}, n \in 0 .. Len(conn[sock[s]].up) :
          /\ Hangup(s, Cut(sock[s], w, n))
          /\ lost' = (lost \/ w = "dead")
    BY DEF ShipCrashes, Break
<1>3. Same(Cut(sock[s], w, n)) /\ lost' \in BOOLEAN
    BY <1>1, <1>2, CutSame
<1>4. codes' \in [Ships -> SUBSET Codes]
    BY DEF ShipCrashes, TypeOK
<1>5. at' \in [Clients -> Places \cup {None}]
    BY DEF ShipCrashes, TypeOK
<1>6. named' \in [Clients -> BOOLEAN] /\ flagged' \in [Clients -> BOOLEAN]
    BY DEF ShipCrashes, TypeOK
<1>. QED BY <1>2, <1>3, <1>4, <1>5, <1>6, HangupKeeps DEF ShipCrashes

\* What a client makes its ship say.
LEMMA Sayings ==
    ASSUME TypeOK, NEW c \in Clients
    PROVE  /\ \A s \in Ships : <<Count(s)>> \in Seq(ToGate)
           /\ <<BlkLogout(Account[c])>> \in Seq(ToGate)
           /\ at[c] # None =>
                /\ at[c][1] \in Ships
                /\ <<BlkLogin(Account[c], at[c][2])>> \in Seq(ToGate)
<1>1. Account[c] \in Cards
    BY DEF Cards
<1>2. at[c] # None => at[c][1] \in Ships /\ at[c][2] \in Blocks
    BY DEF TypeOK, Places
<1>. QED BY <1>1, <1>2 DEF ToGate

LEMMA ArriveKeeps ==
    ASSUME IInv, NEW c \in Clients, NEW p \in Places, Arrive(c, p)
    PROVE  IInv'
<1>. USE DEF IInv
<1>1. p[1] \in Ships
    BY DEF Places
<1>2. Same(conn')
    BY <1>1, Sayings, SentSame DEF Arrive
<1>3. at' \in [Clients -> Places \cup {None}]
    BY DEF Arrive, TypeOK
<1>. QED BY <1>2, <1>3, ShipSide DEF Arrive, TypeOK, shipVars, burstVars

LEMMA AnnounceKeeps ==
    ASSUME IInv, NEW c \in Clients, Announce(c)
    PROVE  IInv'
<1>. USE DEF IInv
<1>1. Same(conn')
    BY Sayings, SentSame DEF Announce
<1>2. named' \in [Clients -> BOOLEAN]
    BY DEF Announce, TypeOK
<1>. QED BY <1>1, <1>2, ShipSide DEF Announce, TypeOK, shipVars, burstVars

LEMMA LeaveKeeps ==
    ASSUME IInv, NEW c \in Clients, Leave(c)
    PROVE  IInv'
<1>. DEFINE out == IF named[c] \/ c \in BB THEN <<BlkLogout(Account[c])>> ELSE <<>>
<1>. USE DEF IInv
<1>1. at[c][1] \in Ships /\ <<Count(at[c][1])>> \in Seq(ToGate)
    BY Sayings DEF Leave
<1>2. out \in Seq(ToGate)
    BY Sayings
<1>3. out \o <<Count(at[c][1])>> \in Seq(ToGate)
    BY <1>1, <1>2
<1>4. Same(Sent(conn, at[c][1], out \o <<Count(at[c][1])>>))
    BY <1>1, <1>3, SentSame
<1>5. Same(conn')
    BY <1>4 DEF Leave
<1>6. at' \in [Clients -> Places \cup {None}]
    BY DEF Leave, TypeOK
<1>7. named' \in [Clients -> BOOLEAN] /\ flagged' \in [Clients -> BOOLEAN]
    BY DEF Leave, TypeOK
<1>8. overtaken' \in [Ships -> SUBSET Cards]
    BY DEF Leave, Healed, TypeOK
<1>. QED BY <1>5, <1>6, <1>7, <1>8, ShipSide DEF Leave, TypeOK

-----------------------------------------------------------------------------
(* The steps of the gate.                                                  *)

\* A step of the gate keeps IInv if every row it leaves is of the ship of a
\* connection that it keeps.
LEMMA GateSide ==
    ASSUME IInv, Same(conn'), ships' \subseteq ships,
           listed' \subseteq Ships, online' \in [Cards -> Places \cup {None}],
           \A s \in listed' : \E k \in ships' : Owner(k) = s,
           \A g \in Cards : online'[g] # None =>
               \E k \in ships' : Owner(k) = online'[g][1],
           UNCHANGED <<shipVars, clientVars, made, lost>>
    PROVE  IInv'
<1>1. conn' \in [Conns -> Conn]
    BY DEF Same, Alike
<1>2. TypeOK'
    BY <1>1 DEF IInv, TypeOK, shipVars, burstVars, clientVars
<1>3. Numbered'
    BY DEF IInv, Numbered
<1>4. \A k \in ships' : Owner(k)' = Owner(k)
    BY DEF IInv, TypeOK, Same, Alike, Owner
<1>5. RowsBacked'
    BY <1>4 DEF RowsBacked
<1>. QED BY <1>2, <1>3, <1>5 DEF IInv

LEMMA DisconnectKeeps ==
    ASSUME IInv, NEW k \in ships, NEW cn, Same(cn), Disconnect(k, cn),
           UNCHANGED <<shipVars, clientVars, made, lost>>
    PROVE  IInv'
<1>. DEFINE rest == IF cn[k].known
                      THEN Told(cn, ships \ {k}, ToAll(Status(Owner(k), FALSE)))
                      ELSE cn
            end  == [cn[k] EXCEPT !.known = FALSE, !.up = <<>>]
<1>. USE DEF IInv
<1>1. k \in Conns /\ Owner(k) \in Ships /\ cn \in [Conns -> Conn]
    BY Field DEF TypeOK, Owner, Same, Alike
<1>2. ToAll(Status(Owner(k), FALSE)) \in [Conns -> Seq(ToShip)]
    BY <1>1, ToAllType, PacketTypes
<1>3. Alike(Told(cn, ships \ {k}, ToAll(Status(Owner(k), FALSE))), cn)
    BY <1>1, <1>2, ToldType
<1>4. Alike(cn, cn)
    BY <1>1 DEF Alike
<1>5. Alike(rest, cn)
    BY <1>3, <1>4
<1>6. end \in Conn /\ end.ship = cn[k].ship
    <2>1. cn[k] \in Conn /\ <<>> \in Seq(ToGate)
        BY <1>1
    <2>. QED BY <2>1 DEF Conn
<1>7. conn' = [rest EXCEPT ![k] = end]
    BY DEF Disconnect
<1>8. Same(conn')
    BY <1>1, <1>5, <1>6, <1>7 DEF Same, Alike
<1>9. /\ ships' = ships \ {k} /\ listed' = listed \ {Owner(k)}
      /\ online' = [g \in Cards |-> IF online[g] # None /\ online[g][1] = Owner(k)
                                      THEN None ELSE online[g]]
    BY DEF Disconnect
<1>10. online' \in [Cards -> Places \cup {None}] /\ listed' \subseteq Ships
    BY <1>9 DEF TypeOK
<1>11. \A s \in listed' : \E j \in ships' : Owner(j) = s
    BY <1>9 DEF RowsBacked
<1>12. ASSUME NEW g \in Cards, online'[g] # None
       PROVE  \E j \in ships' : Owner(j) = online'[g][1]
    <2>1. online'[g] = online[g] /\ online[g] # None /\ online[g][1] # Owner(k)
        BY <1>9, <1>12
    <2>. QED BY <1>9, <2>1 DEF RowsBacked
<1>. QED BY <1>8, <1>9, <1>10, <1>11, <1>12, GateSide

LEMMA GateReadsKeeps ==
    ASSUME IInv, NEW k \in Conns, GateReads(k)
    PROVE  IInv'
<1>. DEFINE m  == Head(conn[k].up)
            cn == [conn EXCEPT ![k].up = Tail(@)]
<1>. USE DEF IInv
<1>1. /\ k \in ships /\ conn \in [Conns -> Conn] /\ Owner(k) \in Ships
      /\ conn[k].up \in Seq(ToGate) /\ conn[k].up # <<>>
    BY Field DEF GateReads, TypeOK, Owner
<1>2. m \in ToGate /\ Tail(conn[k].up) \in Seq(ToGate)
    BY <1>1
<1>3. Same(cn)
    <2>1. cn = SetUp(conn, k, Tail(conn[k].up))
        BY <1>1 DEF SetUp
    <2>2. Alike(SetUp(conn, k, Tail(conn[k].up)), conn)
        BY <1>1, <1>2, UpType
    <2>. QED BY <2>1, <2>2 DEF Same
<1>4. cn \in [Conns -> Conn]
    BY <1>3 DEF Same, Alike
<1>. HIDE DEF cn, m
<1>5. UNCHANGED <<shipVars, clientVars, made, lost>>
    BY DEF GateReads
<1>6. /\ \A s \in listed : \E j \in ships : Owner(j) = s
      /\ \A g \in Cards : online[g] # None =>
            \E j \in ships : Owner(j) = online[g][1]
      /\ listed \subseteq Ships /\ online \in [Cards -> Places \cup {None}]
    BY DEF RowsBacked, TypeOK
<1>7. ASSUME NEW b \in Blocks
      PROVE  <<Owner(k), b>> \in Places /\ <<Owner(k), b>>[1] = Owner(k)
    BY <1>1 DEF Places
<1>8. CASE HandleLogin(k, cn)
    <2>1. SetToSeq({j \in ships : j = k \/ conn[j].known})
            \in Seq({j \in ships : j = k \/ conn[j].known})
        <3>1. IsFiniteSet(Conns)
            BY FS_Interval, LinkAssumption DEF Conns
        <3>2. {j \in ships : j = k \/ conn[j].known} \in SUBSET Conns
            BY DEF TypeOK
        <3>. QED BY <3>1, <3>2, FS_Subset, ListOf
    <2>2. Met(k) \in Seq(Conns)
        BY <2>1 DEF Met, TypeOK
    <2>3. ASSUME NEW i \in DOMAIN Met(k)
          PROVE  Status(Owner(Met(k)[i]), TRUE) \in ToShip
        <3>1. Met(k)[i] \in Conns
            BY <2>2
        <3>2. Owner(Met(k)[i]) \in Ships
            BY <1>1, <3>1, Field DEF Owner
        <3>. QED BY <3>2, PacketTypes, Zenon
    <2>4. [i \in DOMAIN Met(k) |-> Status(Owner(Met(k)[i]), TRUE)] \in Seq(ToShip)
        <3>1. DOMAIN Met(k) = 1 .. Len(Met(k)) /\ Len(Met(k)) \in Nat
            BY <2>2
        <3>2. [i \in DOMAIN Met(k) |-> Status(Owner(Met(k)[i]), TRUE)]
                \in [1 .. Len(Met(k)) -> ToShip]
            BY <2>3, <3>1, Zenon
        <3>. QED BY <3>1, <3>2, IsList, Zenon
    <2>5. /\ <<Accepted>> \in Seq(ToShip)
          /\ <<Status(Owner(k), TRUE)>> \in Seq(ToShip)
        <3>1. Accepted \in ToShip /\ Status(Owner(k), TRUE) \in ToShip
            BY <1>1, PacketTypes, Zenon
        <3>. QED BY <3>1, OneList, Zenon
    <2>6. <<Accepted>> \o [i \in DOMAIN Met(k) |-> Status(Owner(Met(k)[i]), TRUE)]
            \in Seq(ToShip)
        BY <2>4, <2>5
    <2>7. LoginNews(k) \in [Conns -> Seq(ToShip)]
        BY <2>5, <2>6 DEF LoginNews
    <2>8. Alike(Told(cn, ships, LoginNews(k)), cn)
        BY <1>4, <2>7, ToldType
    <2>9. conn' = SetKnown(Told(cn, ships, LoginNews(k)), k, TRUE)
        BY <1>8 DEF HandleLogin, SetKnown
    <2>10. Same(conn')
        BY <1>3, <2>8, <2>9, KnownType DEF Same, Alike
    <2>11. /\ listed' = listed \cup {Owner(k)}
           /\ ships' = ships /\ online' = online
        BY <1>8 DEF HandleLogin
    <2>12. \A s \in listed' : \E j \in ships' : Owner(j) = s
        BY <1>1, <1>6, <2>11
    <2>. QED BY <1>1, <1>5, <1>6, <2>10, <2>11, <2>12, GateSide
<1>9. CASE LoginFails(k, cn)
    <2>1. ToAll(Refused) \in [Conns -> Seq(ToShip)]
        BY ToAllType, PacketTypes
    <2>2. Alike(Told(cn, {k}, ToAll(Refused)), cn)
        BY <1>4, <2>1, ToldType
    <2>3. Alike(SetKnown(Told(cn, {k}, ToAll(Refused)), k, TRUE),
                Told(cn, {k}, ToAll(Refused)))
        BY <2>2, KnownType DEF Alike
    <2>4. Same(SetKnown(Told(cn, {k}, ToAll(Refused)), k, TRUE))
        BY <1>3, <2>2, <2>3 DEF Same, Alike
    <2>5. Disconnect(k, SetKnown(Told(cn, {k}, ToAll(Refused)), k, TRUE))
        BY <1>9 DEF LoginFails, SetKnown
    <2>. QED BY <1>1, <1>5, <2>4, <2>5, DisconnectKeeps
<1>10. CASE m.type = "blklogin" /\ HandleBlockLogin(k, m, cn)
    <2>1. m.card \in Cards /\ m.block \in Blocks
        BY <1>2, <1>10, GatePackets
    <2>2. ToAll(BLoginErr(m.card, m.block)) \in [Conns -> Seq(ToShip)]
        BY <2>1, ToAllType, PacketTypes
    <2>3. Alike(Told(cn, {k}, ToAll(BLoginErr(m.card, m.block))), cn)
        BY <1>4, <2>2, ToldType
    <2>4. Same(conn')
        BY <1>3, <1>10, <2>3 DEF HandleBlockLogin, Same, Alike
    <2>5. ships' = ships /\ listed' = listed
        BY <1>10 DEF HandleBlockLogin
    <2>6. \/ online' = online
          \/ online' = [online EXCEPT ![m.card] = <<Owner(k), m.block>>]
        BY <1>10 DEF HandleBlockLogin
    <2>7. online' \in [Cards -> Places \cup {None}]
        BY <1>6, <1>7, <2>1, <2>6
    <2>8. \A g \in Cards : online'[g] # None =>
             \E j \in ships' : Owner(j) = online'[g][1]
        BY <1>1, <1>6, <1>7, <2>1, <2>5, <2>6
    <2>. QED BY <1>5, <1>6, <2>4, <2>5, <2>7, <2>8, GateSide
<1>11. CASE m.type = "blklogout" /\ HandleBlockLogout(k, m, cn)
    <2>1. m.card \in Cards
        BY <1>2, <1>11, GatePackets
    <2>2. ships' = ships /\ listed' = listed /\ Same(conn')
        BY <1>3, <1>11 DEF HandleBlockLogout
    <2>3. \/ online' = online
          \/ online' = [online EXCEPT ![m.card] = None]
        BY <1>6, <1>11, <2>1 DEF HandleBlockLogout
    <2>4. online' \in [Cards -> Places \cup {None}]
        BY <1>6, <2>3
    <2>5. \A g \in Cards : online'[g] # None =>
             \E j \in ships' : Owner(j) = online'[g][1]
        BY <1>6, <2>2, <2>3
    <2>. QED BY <1>5, <1>6, <2>2, <2>4, <2>5, GateSide
<1>12. CASE m.type = "bclients" /\ HandleClients(k, m, cn)
    <2>1. m.block \in Blocks
        BY <1>2, <1>12, GatePackets
    <2>2. ships' = ships /\ listed' = listed /\ Same(conn')
        BY <1>3, <1>12 DEF HandleClients
    <2>3. \A g \in Cards : \/ online'[g] = online[g]
                           \/ online'[g] = None
                           \/ online'[g] = <<Owner(k), m.block>>
        BY <1>12 DEF HandleClients
    <2>4. online' = [g \in Cards |-> online'[g]]
        BY <1>12 DEF HandleClients
    <2>5. online' \in [Cards -> Places \cup {None}]
        BY <1>6, <1>7, <2>1, <2>3, <2>4
    <2>6. \A g \in Cards : online'[g] # None =>
             \E j \in ships' : Owner(j) = online'[g][1]
        BY <1>1, <1>6, <1>7, <2>1, <2>2, <2>3
    <2>. QED BY <1>5, <1>6, <2>2, <2>5, <2>6, GateSide
<1>13. CASE HandleCount(k, m, cn)
    <2>1. ToAll(Count(Owner(k))) \in [Conns -> Seq(ToShip)]
        BY <1>1, ToAllType, PacketTypes
    <2>2. Alike(Told(cn, ships, ToAll(Count(Owner(k)))), cn)
        BY <1>4, <2>1, ToldType
    <2>3. Same(conn')
        BY <1>3, <1>13, <2>2 DEF HandleCount, Same, Alike
    <2>4. ships' = ships /\ listed' = listed /\ online' = online
        BY <1>13 DEF HandleCount, gateVars
    <2>. QED BY <1>5, <1>6, <2>3, <2>4, GateSide
<1>. QED BY <1>8, <1>9, <1>10, <1>11, <1>12, <1>13 DEF GateReads, cn, m

LEMMA GateSweepsKeeps ==
    ASSUME IInv, NEW k \in Conns, GateSweeps(k)
    PROVE  IInv'
<1>1. Same(conn)
    BY DEF Same, Alike, IInv, TypeOK
<1>. QED BY <1>1, DisconnectKeeps DEF GateSweeps

LEMMA GateRestartsKeeps ==
    ASSUME IInv, GateRestarts
    PROVE  IInv'
<1>. USE DEF IInv
<1>1. conn \in [Conns -> Conn]
    BY DEF TypeOK
<1>2. ASSUME NEW k \in Conns
      PROVE  /\ [conn[k] EXCEPT !.known = FALSE, !.up = <<>>] \in Conn
             /\ [conn[k] EXCEPT !.known = FALSE, !.up = <<>>].ship = conn[k].ship
    <2>1. conn[k] \in Conn /\ <<>> \in Seq(ToGate)
        BY <1>1
    <2>. QED BY <2>1 DEF Conn
<1>3. Same(conn')
    BY <1>2 DEF GateRestarts, Same, Alike
<1>4. ships' = {} /\ listed' = {} /\ online' = [g \in Cards |-> None]
    BY DEF GateRestarts
<1>. QED BY <1>3, <1>4, GateSide DEF GateRestarts

-----------------------------------------------------------------------------
LEMMA NextKeeps == IInv /\ [Next]_vars => IInv'
<1>. SUFFICES ASSUME IInv, [Next]_vars PROVE IInv'
    OBVIOUS
<1>1. ASSUME NEW s \in Ships, ShipStep(s) \/ LinkBreaks(s) \/ ShipCrashes(s)
      PROVE  IInv'
    BY <1>1, ConnectKeeps, ShipReadsKeeps, ShipListsKeeps, ShipBurstsKeeps, ShipReadsEndKeeps,
       LinkBreaksKeeps, ShipCrashesKeeps DEF ShipStep
<1>2. ASSUME NEW c \in Clients,
             (\E p \in Places : Arrive(c, p)) \/ Announce(c) \/ Leave(c)
      PROVE  IInv'
    BY <1>2, ArriveKeeps, AnnounceKeeps, LeaveKeeps
<1>3. ASSUME NEW k \in Conns, GateReads(k) \/ GateSweeps(k)
      PROVE  IInv'
    BY <1>3, GateReadsKeeps, GateSweepsKeeps
<1>4. CASE GateRestarts
    BY <1>4, GateRestartsKeeps
<1>5. CASE UNCHANGED vars
    <2>1. Same(conn')
        BY <1>5 DEF Same, Alike, IInv, TypeOK, vars, netVars
    <2>. QED BY <1>5, <2>1, ShipSide
             DEF IInv, TypeOK, vars, netVars, shipVars, burstVars, clientVars
<1>. QED BY <1>1, <1>2, <1>3, <1>4, <1>5 DEF Next

\* Every variable keeps its type, whatever breaks, crashes or is refused.
THEOREM TypeCorrect == Spec => []TypeOK
<1>1. IInv => TypeOK
    BY DEF IInv
<1>. QED BY <1>1, InitCorrect, NextKeeps, PTL DEF Spec

\* A ship that is listed and a ship where somebody is online are connected:
\* remove_ship takes along all that the connection put into the database,
\* for any number of ships, connections, crashes and restarts.
THEOREM RowsCorrect == Spec => []RowsBacked
<1>1. IInv => RowsBacked
    BY DEF IInv
<1>. QED BY <1>1, InitCorrect, NextKeeps, PTL DEF Spec
-----------------------------------------------------------------------------
(* What the operators leave of a connection.                               *)

\* The ship and the state of the wire stay.
Kept(a, b) == a.ship = b.ship /\ a.wire = b.wire

LEMMA SentFields ==
    ASSUME TypeOK, NEW s \in Ships, NEW msgs \in Seq(ToGate), NEW k \in Conns
    PROVE  LET n == Sent(conn, s, msgs)[k] IN
           /\ Kept(n, conn[k]) /\ n.known = conn[k].known /\ n.down = conn[k].down
           /\ n.up = IF k = sock[s] /\ Linked(s) /\ hasKey[s] /\ conn[k].wire = "up"
                       THEN conn[k].up \o msgs ELSE conn[k].up
<1>1. conn \in [Conns -> Conn] /\ conn[k] \in Conn
    BY DEF TypeOK
<1>2. CASE Linked(s) /\ hasKey[s] /\ conn[sock[s]].wire = "up"
    <2>1. Sent(conn, s, msgs) = [conn EXCEPT ![sock[s]] =
             [conn[sock[s]] EXCEPT !.up = conn[sock[s]].up \o msgs]]
        BY <1>2 DEF Sent
    <2>2. CASE k = sock[s]
        <3>1. Sent(conn, s, msgs)[k] = [conn[k] EXCEPT !.up = conn[k].up \o msgs]
            BY <1>1, <2>1, <2>2
        <3>. QED BY <1>1, <1>2, <2>2, <3>1 DEF Conn, Kept
    <2>3. CASE k # sock[s]
        <3>1. Sent(conn, s, msgs)[k] = conn[k]
            BY <1>1, <2>1, <2>3
        <3>. QED BY <2>3, <3>1 DEF Kept
    <2>. QED BY <2>2, <2>3
<1>3. CASE ~(Linked(s) /\ hasKey[s] /\ conn[sock[s]].wire = "up")
    <2>1. Sent(conn, s, msgs) = conn
        BY <1>3 DEF Sent
    <2>. QED BY <1>3, <2>1 DEF Kept
<1>. QED BY <1>2, <1>3

LEMMA ToldFields ==
    ASSUME NEW cn \in [Conns -> Conn], NEW to, NEW msgs, NEW k \in Conns
    PROVE  LET n == Told(cn, to, msgs)[k] IN
           /\ Kept(n, cn[k]) /\ n.known = cn[k].known /\ n.up = cn[k].up
           /\ n.down = IF cn[k].wire = "up" /\ k \in to
                         THEN cn[k].down \o msgs[k] ELSE cn[k].down
<1>1. cn[k] \in Conn
    OBVIOUS
<1>2. Told(cn, to, msgs)[k] = IF cn[k].wire = "up" /\ k \in to
                                THEN [cn[k] EXCEPT !.down = cn[k].down \o msgs[k]]
                                ELSE cn[k]
    BY DEF Told
<1>. QED BY <1>1, <1>2 DEF Conn, Kept

\* The ship answers the welcome.
Answered(s) == [Read(s) EXCEPT ![sock[s]].up = Append(@, Login)]

LEMMA ReadFields ==
    ASSUME TypeOK, NEW s \in Ships, sock[s] \in Conns, NEW k \in Conns,
           NEW cn, cn = Read(s) \/ cn = Answered(s)
    PROVE  /\ Kept(cn[k], conn[k]) /\ cn[k].known = conn[k].known
           /\ cn[k].down = IF k = sock[s] THEN Tail(conn[k].down) ELSE conn[k].down
           /\ k # sock[s] \/ cn = Read(s) => cn[k].up = conn[k].up
           /\ cn[sock[s]].up \in {conn[sock[s]].up, conn[sock[s]].up \o <<Login>>}
<1>1. conn \in [Conns -> Conn] /\ \A j \in Conns : conn[j] \in Conn
    BY DEF TypeOK
<1>. DEFINE t == Tail(conn[sock[s]].down)
            u == Append(conn[sock[s]].up, Login)
<1>2. Read(s) = [conn EXCEPT ![sock[s]] = [conn[sock[s]] EXCEPT !.down = t]]
    BY DEF Read
<1>3. [conn[sock[s]] EXCEPT !.down = t].up = conn[sock[s]].up
    BY <1>1 DEF Conn
<1>4. Answered(s) = [conn EXCEPT ![sock[s]] = [conn[sock[s]] EXCEPT !.down = t, !.up = u]]
    BY <1>1, <1>2, <1>3 DEF Answered
<1>5. u = conn[sock[s]].up \o <<Login>>
    <2>1. conn[sock[s]].up \in Seq(ToGate) /\ Login \in ToGate
        BY <1>1, Field DEF ToGate
    <2>. QED BY <2>1, AppendIsConcat
<1>. HIDE DEF t, u
<1>6. CASE k = sock[s]
    <2>1. \/ cn[k] = [conn[k] EXCEPT !.down = t] /\ cn = Read(s)
          \/ cn[k] = [conn[k] EXCEPT !.down = t, !.up = u] /\ cn # Read(s)
        BY <1>1, <1>2, <1>4, <1>6
    <2>. QED BY <1>1, <1>5, <1>6, <2>1 DEF Conn, Kept, t
<1>7. CASE k # sock[s]
    <2>1. cn[k] = conn[k]
        BY <1>1, <1>2, <1>4, <1>7
    <2>2. \/ cn[sock[s]] = [conn[sock[s]] EXCEPT !.down = t]
          \/ cn[sock[s]] = [conn[sock[s]] EXCEPT !.down = t, !.up = u]
        BY <1>1, <1>2, <1>4
    <2>3. cn[sock[s]].up = conn[sock[s]].up \/ cn[sock[s]].up = u
        BY <1>1, <2>2 DEF Conn
    <2>. QED BY <1>5, <1>7, <2>1, <2>3 DEF Kept
<1>. QED BY <1>6, <1>7

LEMMA CutFields ==
    ASSUME TypeOK, NEW k \in Conns, NEW w, NEW n, NEW j \in Conns
    PROVE  LET r == Cut(k, w, n)[j] IN
           /\ r.ship = conn[j].ship /\ r.known = conn[j].known
           /\ r.wire = IF j = k THEN w ELSE conn[j].wire
           /\ r.down = IF j = k THEN <<>> ELSE conn[j].down
           /\ r.up = IF j = k THEN SubSeq(conn[k].up, 1, n) ELSE conn[j].up
<1>1. conn \in [Conns -> Conn] /\ conn[j] \in Conn
    BY DEF TypeOK
<1>. DEFINE u == SubSeq(conn[k].up, 1, n)
<1>2. Cut(k, w, n) = [conn EXCEPT ![k] = [conn[k] EXCEPT
                        !.wire = w, !.down = <<>>, !.up = u]]
    BY <1>1 DEF Cut, Conn
<1>. HIDE DEF u
<1>3. CASE j = k
    <2>1. Cut(k, w, n)[j] = [conn[j] EXCEPT !.wire = w, !.down = <<>>, !.up = u]
        BY <1>1, <1>2, <1>3
    <2>. QED BY <1>1, <1>3, <2>1 DEF Conn, u
<1>4. CASE j # k
    <2>1. Cut(k, w, n)[j] = conn[j]
        BY <1>1, <1>2, <1>4
    <2>. QED BY <1>4, <2>1
<1>. QED BY <1>3, <1>4

\* What is left when the gate removes connection k; cn is what it begins with.
LEMMA DisconnectFields ==
    ASSUME IInv, NEW k \in ships, NEW cn \in [Conns -> Conn], Disconnect(k, cn),
           NEW j \in Conns
    PROVE  LET n == conn'[j] IN
           /\ Kept(n, cn[j])
           /\ j = k => ~n.known
           /\ j # k => n.known = cn[j].known
           /\ n.up = IF j = k THEN <<>> ELSE cn[j].up
           /\ n.down = IF j # k /\ j \in ships /\ cn[k].known /\ cn[j].wire = "up"
                         THEN cn[j].down \o <<Status(Owner(k), FALSE)>>
                         ELSE cn[j].down
<1>. DEFINE far  == ToAll(Status(Owner(k), FALSE))
            rest == IF cn[k].known THEN Told(cn, ships \ {k}, far) ELSE cn
            end  == [cn[k] EXCEPT !.known = FALSE, !.up = <<>>]
<1>1. k \in Conns /\ cn[j] \in Conn /\ cn[k] \in Conn
    BY DEF IInv, TypeOK
<1>2. rest \in [Conns -> Conn]
    <2>1. far \in [Conns -> Seq(ToShip)]
        <3>1. Owner(k) \in Ships
            BY <1>1, Field DEF IInv, TypeOK, Owner
        <3>. QED BY <3>1, ToAllType, PacketTypes
    <2>2. Told(cn, ships \ {k}, far) \in [Conns -> Conn]
        BY <2>1, ToldType DEF Alike
    <2>. QED BY <2>2
<1>3. conn' = [rest EXCEPT ![k] = end]
    BY DEF Disconnect
<1>4. far[j] = <<Status(Owner(k), FALSE)>>
    BY DEF ToAll
<1>. HIDE DEF far
<1>5. LET n == Told(cn, ships \ {k}, far)[j] IN
      /\ Kept(n, cn[j]) /\ n.known = cn[j].known /\ n.up = cn[j].up
      /\ n.down = IF cn[j].wire = "up" /\ j \in ships \ {k}
                    THEN cn[j].down \o far[j] ELSE cn[j].down
    BY ToldFields
<1>6. /\ Kept(rest[j], cn[j]) /\ rest[j].known = cn[j].known /\ rest[j].up = cn[j].up
      /\ rest[j].down = IF j # k /\ j \in ships /\ cn[k].known /\ cn[j].wire = "up"
                          THEN cn[j].down \o <<Status(Owner(k), FALSE)>>
                          ELSE cn[j].down
    BY <1>4, <1>5 DEF Kept
<1>. HIDE DEF rest
<1>7. CASE j = k
    <2>1. conn'[j] = end
        BY <1>1, <1>2, <1>3, <1>7
    <2>. QED BY <1>1, <1>7, <2>1 DEF Conn, Kept
<1>8. CASE j # k
    <2>1. conn'[j] = rest[j]
        BY <1>2, <1>3, <1>8
    <2>2. cn[j].known \in BOOLEAN
        BY <1>1 DEF Conn
    <2>. QED BY <1>6, <1>8, <2>1, <2>2
<1>. QED BY <1>7, <1>8

\* ... and when connection k has logged in.
Known(cn, k) == [cn EXCEPT ![k].known = TRUE]

LEMMA KnownFields ==
    ASSUME NEW cn \in [Conns -> Conn], NEW k \in Conns, NEW j \in Conns
    PROVE  LET n == Known(cn, k)[j] IN
           /\ Known(cn, k) \in [Conns -> Conn]
           /\ Kept(n, cn[j]) /\ n.up = cn[j].up /\ n.down = cn[j].down
           /\ j = k => n.known
           /\ j # k => n.known = cn[j].known
<1>1. cn[j] \in Conn
    OBVIOUS
<1>2. Known(cn, k)[j] = IF j = k THEN [cn[j] EXCEPT !.known = TRUE] ELSE cn[j]
    BY DEF Known
<1>3. Known(cn, k) \in [Conns -> Conn]
    BY KnownType DEF Known, SetKnown, Alike
<1>. QED BY <1>1, <1>2, <1>3 DEF Conn, Kept

\* What the gate has when it has read a packet from connection k.
Popped(k) == [conn EXCEPT ![k].up = Tail(@)]

LEMMA PoppedFields ==
    ASSUME TypeOK, NEW k \in Conns, conn[k].up # <<>>, NEW j \in Conns
    PROVE  LET n == Popped(k)[j] IN
           /\ Popped(k) \in [Conns -> Conn]
           /\ Kept(n, conn[j]) /\ n.known = conn[j].known /\ n.down = conn[j].down
           /\ n.up = IF j = k THEN Tail(conn[k].up) ELSE conn[j].up
<1>1. conn \in [Conns -> Conn] /\ conn[j] \in Conn /\ conn[k] \in Conn
    BY DEF TypeOK
<1>. DEFINE t == Tail(conn[k].up)
<1>2. t \in Seq(ToGate)
    <2>1. conn[k].up \in Seq(ToGate)
        BY <1>1, Field
    <2>. QED BY <2>1
<1>3. Popped(k) = [conn EXCEPT ![k] = [conn[k] EXCEPT !.up = t]]
    BY <1>1 DEF Popped
<1>. HIDE DEF t
<1>4. [conn[k] EXCEPT !.up = t] \in Conn
    BY <1>1, <1>2 DEF Conn
<1>5. Popped(k)[j] = IF j = k THEN [conn[j] EXCEPT !.up = t] ELSE conn[j]
    BY <1>1, <1>3
<1>6. /\ Kept([conn[j] EXCEPT !.up = t], conn[j])
      /\ [conn[j] EXCEPT !.up = t].known = conn[j].known
      /\ [conn[j] EXCEPT !.up = t].down = conn[j].down
      /\ [conn[j] EXCEPT !.up = t].up = t
    BY <1>1 DEF Conn, Kept
<1>7. Popped(k) \in [Conns -> Conn]
    BY <1>1, <1>3, <1>4
<1>. QED BY <1>5, <1>6, <1>7 DEF t, Kept

\* The news of a login, as GateReadsKeeps has found.
LEMMA NewsType ==
    ASSUME IInv, NEW k \in ships
    PROVE  LoginNews(k) \in [Conns -> Seq(ToShip)]
<1>0. k \in Conns /\ Owner(k) \in Ships /\ TypeOK
    BY Field DEF IInv, TypeOK, Owner
<1>1. SetToSeq({j \in ships : j = k \/ conn[j].known})
        \in Seq({j \in ships : j = k \/ conn[j].known})
    <2>1. IsFiniteSet(Conns)
        BY FS_Interval, LinkAssumption DEF Conns
    <2>2. {j \in ships : j = k \/ conn[j].known} \in SUBSET Conns
        BY <1>0 DEF TypeOK
    <2>. QED BY <2>1, <2>2, FS_Subset, ListOf
<1>2. Met(k) \in Seq(Conns)
    BY <1>0, <1>1 DEF Met, TypeOK
<1>3. [i \in DOMAIN Met(k) |-> Status(Owner(Met(k)[i]), TRUE)] \in Seq(ToShip)
    <2>1. DOMAIN Met(k) = 1 .. Len(Met(k)) /\ Len(Met(k)) \in Nat
        BY <1>2
    <2>2. ASSUME NEW i \in DOMAIN Met(k)
          PROVE  Status(Owner(Met(k)[i]), TRUE) \in ToShip
        <3>1. Met(k)[i] \in Conns
            BY <1>2
        <3>2. Owner(Met(k)[i]) \in Ships
            BY <1>0, <3>1, Field DEF Owner, TypeOK
        <3>. QED BY <3>2, PacketTypes, Zenon
    <2>3. [i \in DOMAIN Met(k) |-> Status(Owner(Met(k)[i]), TRUE)]
            \in [1 .. Len(Met(k)) -> ToShip]
        BY <2>1, <2>2, Zenon
    <2>. QED BY <2>1, <2>3, IsList, Zenon
<1>4. <<Accepted>> \in Seq(ToShip) /\ <<Status(Owner(k), TRUE)>> \in Seq(ToShip)
    <2>1. Accepted \in ToShip /\ Status(Owner(k), TRUE) \in ToShip
        BY <1>0, PacketTypes, Zenon
    <2>. QED BY <2>1, OneList, Zenon
<1>5. <<Accepted>> \o [i \in DOMAIN Met(k) |-> Status(Owner(Met(k)[i]), TRUE)]
        \in Seq(ToShip)
    BY <1>3, <1>4
<1>. QED BY <1>4, <1>5 DEF LoginNews
-----------------------------------------------------------------------------
(* Rows of players.  A row is about somebody who is there, or whose logout  *)
(* is still on its way or has overtaken a list: the same must be said of    *)
(* the rows that a ship's packets are going to make.                        *)

\* A ship's connection is its own, and up for as long as it uses it.
Sockets ==
    \A s \in Ships : sock[s] # None =>
        /\ sock[s] \in 1 .. made
        /\ Owner(sock[s]) = s
        /\ conn[sock[s]].wire = "up"

\* A ship says nothing but "login" before it is accepted.
Silent ==
    \A s \in Ships : Linked(s) /\ ~hasKey[s] =>
        \A i \in 1 .. Len(conn[sock[s]].up) : conn[sock[s]].up[i] = Login

\* Somebody plays on account g there.
Plays(g, s, b) ==
    \E c \in Clients : Account[c] = g /\ at[c] = <<s, b>> /\ named[c]

\* ... or the ship has said so after the logout.
Stands(g, s, b) == Plays(g, s, b) \/ g \in overtaken[s]

\* After the first i packets of q comes the logout of g.
LogoutAfter(q, i, g) == \E j \in (i + 1) .. Len(q) : q[j] = BlkLogout(g)

\* Packet m says that g is on block b.
Says(m, g, b) ==
    \/ m.type = "blklogin" /\ m.card = g /\ m.block = b
    \/ m.type = "bclients" /\ m.block = b /\ g \in m.cards

\* Whoever a ship reports, or the gate has in a row, is there or was overtaken, or
\* its logout is on the way.
Reports ==
    \A s \in Ships : Linked(s) =>
        LET q == conn[sock[s]].up IN
        \A i \in 1 .. Len(q), g \in Cards, b \in Blocks :
            Says(q[i], g, b) => Stands(g, s, b) \/ LogoutAfter(q, i, g)

Rows ==
    \A s \in Ships, g \in Cards, b \in Blocks :
        Linked(s) /\ Alone(s) /\ online[g] = <<s, b>> =>
            /\ hasKey[s]
            /\ Stands(g, s, b) \/ LogoutAfter(conn[sock[s]].up, 0, g)

GhostInv == Sockets /\ Silent /\ Reports /\ Rows


LEMMA SaysWhat ==
    \A g, b : /\ ~Says(Login, g, b)
              /\ \A s : ~Says(Count(s), g, b)
              /\ \A h : ~Says(BlkLogout(h), g, b)
              /\ \A h, a : Says(BlkLogin(h, a), g, b) => h = g /\ a = b
              /\ \A a, gs : Says(BClients(a, gs), g, b) => a = b /\ g \in gs
BY DEF Says, Login, Count, BlkLogout, BlkLogin, BClients

LEMMA Longer ==
    ASSUME NEW q \in Seq(ToGate), NEW r \in Seq(ToGate), NEW i \in 0 .. Len(q), NEW g
    PROVE  /\ LogoutAfter(q, i, g) => LogoutAfter(q \o r, i, g)
           /\ (\E j \in 1 .. Len(r) : r[j] = BlkLogout(g)) => LogoutAfter(q \o r, i, g)
<1>1. /\ Len(q \o r) = Len(q) + Len(r) /\ Len(q) \in Nat /\ Len(r) \in Nat
      /\ \A j \in 1 .. Len(q) : (q \o r)[j] = q[j]
      /\ \A j \in 1 .. Len(r) : (q \o r)[Len(q) + j] = r[j]
    BY ConcatProperties, LenProperties
<1>2. LogoutAfter(q, i, g) => LogoutAfter(q \o r, i, g)
    BY <1>1 DEF LogoutAfter
<1>3. ASSUME NEW j \in 1 .. Len(r), r[j] = BlkLogout(g)
      PROVE  LogoutAfter(q \o r, i, g)
    <2>1. Len(q) + j \in (i + 1) .. Len(q \o r)
        BY <1>1
    <2>. QED BY <1>1, <1>3, <2>1 DEF LogoutAfter
<1>. QED BY <1>2, <1>3

LEMMA Shorter ==
    ASSUME NEW q \in Seq(ToGate), q # <<>>, NEW g
    PROVE  /\ \A i \in 0 .. Len(q) - 1 :
                LogoutAfter(q, i + 1, g) => LogoutAfter(Tail(q), i, g)
           /\ LogoutAfter(q, 0, g) /\ Head(q) # BlkLogout(g) =>
                LogoutAfter(Tail(q), 0, g)
<1>1. /\ Len(Tail(q)) = Len(q) - 1 /\ Len(q) \in Nat
      /\ \A j \in 1 .. Len(q) - 1 : Tail(q)[j] = q[j + 1]
      /\ Head(q) = q[1]
    BY HeadTailProperties, LenProperties
<1>2. ASSUME NEW i \in 0 .. Len(q) - 1, LogoutAfter(q, i + 1, g)
      PROVE  LogoutAfter(Tail(q), i, g)
    <2>1. PICK j \in (i + 2) .. Len(q) : q[j] = BlkLogout(g)
        BY <1>1, <1>2 DEF LogoutAfter
    <2>2. j - 1 \in (i + 1) .. Len(Tail(q)) /\ Tail(q)[j - 1] = q[j]
        BY <1>1
    <2>. QED BY <2>1, <2>2 DEF LogoutAfter
<1>3. ASSUME LogoutAfter(q, 0, g), Head(q) # BlkLogout(g)
      PROVE  LogoutAfter(Tail(q), 0, g)
    <2>1. LogoutAfter(q, 1, g)
        BY <1>1, <1>3 DEF LogoutAfter
    <2>2. q # <<>> => 0 \in 0 .. Len(q) - 1
        BY <1>1, EmptySeq
    <2>. QED BY <1>2, <2>1, <2>2
<1>. QED BY <1>2, <1>3

\* The connections of two ships are two.
LEMMA Apart ==
    ASSUME Sockets, NEW s \in Ships, NEW t \in Ships, s # t, sock[s] # None
    PROVE  sock[s] # sock[t]
BY DEF Sockets

LEMMA QueueType ==
    ASSUME TypeOK, NEW s \in Ships, Linked(s)
    PROVE  /\ sock[s] \in Conns /\ sock[s] # None
           /\ conn[sock[s]].up \in Seq(ToGate) /\ Len(conn[sock[s]].up) \in Nat
<1>1. sock[s] \in Conns /\ sock[s] # None
    BY LinkAssumption DEF Linked, TypeOK
<1>. QED BY <1>1, Field, LenProperties DEF TypeOK

\* A step of a ship and its clients in which s says msgs: they go off, unless
\* it has no key.
LEMMA ShipGhosts ==
    ASSUME IInv, GhostInv, NEW s \in Ships, NEW msgs \in Seq(ToGate),
           UNCHANGED <<sock, ships, online, made>>,
           \A t \in Ships : hasKey[t] => hasKey'[t],
           \A k \in Conns : Kept(conn'[k], conn[k]),
           \A k \in Conns :
               \/ conn'[k].up = conn[k].up
               \/ /\ k = sock[s] /\ conn'[k].up = conn[k].up \o msgs
                  /\ hasKey[s] \/ \A j \in 1 .. Len(msgs) : msgs[j] = Login,
           Linked(s) /\ hasKey[s] => conn'[sock[s]].up = conn[sock[s]].up \o msgs,
           \A j \in 1 .. Len(msgs), g \in Cards, b \in Blocks :
               Says(msgs[j], g, b) => Stands(g, s, b)',
           \A g \in Cards, t \in Ships, b \in Blocks : Stands(g, t, b) =>
               \/ Stands(g, t, b)'
               \/ t = s /\ \E j \in 1 .. Len(msgs) : msgs[j] = BlkLogout(g)
    PROVE  GhostInv'
<1>. USE DEF GhostInv
<1>a. TypeOK
    BY DEF IInv
<1>1. Sockets'
    <2> SUFFICES ASSUME NEW t \in Ships, sock[t] # None
                 PROVE  /\ sock[t] \in 1 .. made /\ conn'[sock[t]].ship = t
                        /\ conn'[sock[t]].wire = "up"
        BY DEF Sockets, Owner
    <2>1. sock[t] \in Conns
        BY <1>a DEF TypeOK
    <2>2. Kept(conn'[sock[t]], conn[sock[t]])
        BY <2>1
    <2>. QED BY <2>2 DEF Sockets, Owner, Kept
<1>2. \A t \in Ships : Linked(t)' = Linked(t) /\ Alone(t)' = Alone(t)
    BY <1>a DEF Linked, Alone, Owner, Kept, TypeOK
<1>. DEFINE Q(t) == conn[sock[t]].up
            N(t) == conn'[sock[t]].up
<1>3. ASSUME NEW t \in Ships, Linked(t)
      PROVE  /\ sock[t] \in Conns /\ Q(t) \in Seq(ToGate) /\ Len(Q(t)) \in Nat
             /\ \/ N(t) = Q(t)
                \/ /\ t = s /\ N(t) = Q(t) \o msgs
                   /\ hasKey[s] \/ \A j \in 1 .. Len(msgs) : msgs[j] = Login
             /\ t = s /\ hasKey[s] => N(t) = Q(t) \o msgs
    <2>1. sock[t] \in Conns /\ Q(t) \in Seq(ToGate) /\ Len(Q(t)) \in Nat
        BY <1>a, <1>3, QueueType
    <2>2. t # s => sock[t] # sock[s]
        BY <1>3, <1>a, QueueType, Apart
    <2>. QED BY <1>3, <2>1, <2>2
<1>4. \A t \in Ships : Linked(t) =>
         /\ Len(Q(t) \o msgs) = Len(Q(t)) + Len(msgs)
         /\ Len(msgs) \in Nat
         /\ \A j \in 1 .. Len(Q(t)) : (Q(t) \o msgs)[j] = Q(t)[j]
         /\ \A j \in 1 .. Len(Q(t)) + Len(msgs) : j > Len(Q(t)) =>
              (Q(t) \o msgs)[j] = msgs[j - Len(Q(t))]
    BY <1>3, ConcatProperties, LenProperties
<1>5. Silent'
    <2> SUFFICES ASSUME NEW t \in Ships, Linked(t), ~hasKey'[t],
                        NEW i \in 1 .. Len(N(t))
                 PROVE  N(t)[i] = Login
        BY <1>2 DEF Silent
    <2>1. ~hasKey[t] /\ \A j \in 1 .. Len(Q(t)) : Q(t)[j] = Login
        BY DEF Silent
    <2>2. CASE N(t) = Q(t)
        BY <2>1, <2>2
    <2>3. CASE N(t) # Q(t)
        <3>1. /\ t = s /\ N(t) = Q(t) \o msgs
              /\ \A j \in 1 .. Len(msgs) : msgs[j] = Login
            BY <1>3, <2>1, <2>3
        <3>2. CASE i \in 1 .. Len(Q(t))
            BY <1>4, <2>1, <3>1, <3>2
        <3>3. CASE i \notin 1 .. Len(Q(t))
            <4>1. i - Len(Q(t)) \in 1 .. Len(msgs) /\ N(t)[i] = msgs[i - Len(Q(t))]
                BY <1>3, <1>4, <3>1, <3>3
            <4>. QED BY <3>1, <4>1
        <3>. QED BY <3>2, <3>3
    <2>. QED BY <2>2, <2>3
\* Whoever leaves says so.
<1>6. ASSUME NEW t \in Ships, NEW g \in Cards, NEW b \in Blocks, Linked(t), hasKey[t],
             NEW i \in 0 .. Len(Q(t)), Stands(g, t, b) \/ LogoutAfter(Q(t), i, g)
      PROVE  Stands(g, t, b)' \/ LogoutAfter(N(t), i, g)
    <2>1. N(t) = Q(t) \/ N(t) = Q(t) \o msgs
        BY <1>3, <1>6
    <2>2. CASE LogoutAfter(Q(t), i, g)
        <3>1. Q(t) \in Seq(ToGate)
            BY <1>3, <1>6
        <3>. HIDE DEF Q, N
        <3>. QED BY <1>6, <2>1, <2>2, <3>1, Longer
    <2>3. CASE Stands(g, t, b)
        <3>1. CASE t = s /\ \E j \in 1 .. Len(msgs) : msgs[j] = BlkLogout(g)
            <4>1. N(t) = Q(t) \o msgs
                BY <1>3, <1>6, <3>1
            <4>2. Q(t) \in Seq(ToGate)
                BY <1>3, <1>6
            <4>. HIDE DEF Q, N
            <4>. QED BY <1>6, <3>1, <4>1, <4>2, Longer
        <3>. QED BY <2>3, <3>1
    <2>. QED BY <1>6, <2>2, <2>3
<1>7. Rows'
    <2> SUFFICES ASSUME NEW t \in Ships, NEW g \in Cards, NEW b \in Blocks,
                        Linked(t), Alone(t), online[g] = <<t, b>>
                 PROVE  hasKey'[t] /\ (Stands(g, t, b)' \/ LogoutAfter(N(t), 0, g))
        BY <1>2 DEF Rows
    <2>1. hasKey[t] /\ (Stands(g, t, b) \/ LogoutAfter(Q(t), 0, g))
        BY DEF Rows
    <2>2. 0 \in 0 .. Len(Q(t))
        BY <1>3
    <2>. QED BY <1>6, <2>1, <2>2
<1>8. Reports'
    <2> SUFFICES ASSUME NEW t \in Ships, Linked(t), NEW i \in 1 .. Len(N(t)),
                        NEW g \in Cards, NEW b \in Blocks, Says(N(t)[i], g, b)
                 PROVE  Stands(g, t, b)' \/ LogoutAfter(N(t), i, g)
        BY <1>2 DEF Reports
    <2>1. CASE i \in 1 .. Len(Q(t))
        <3>1. N(t)[i] = Q(t)[i]
            BY <1>3, <1>4, <2>1
        <3>2. Stands(g, t, b) \/ LogoutAfter(Q(t), i, g)
            BY <2>1, <3>1 DEF Reports
        <3>3. hasKey[t]
            BY <2>1, <3>1, SaysWhat DEF Silent
        <3>4. i \in 0 .. Len(Q(t))
            BY <1>3, <2>1
        <3>. QED BY <1>6, <3>2, <3>3, <3>4
    <2>2. CASE i \notin 1 .. Len(Q(t))
        <3>1. t = s /\ N(t) = Q(t) \o msgs
            BY <1>3, <2>2
        <3>2. i - Len(Q(t)) \in 1 .. Len(msgs) /\ N(t)[i] = msgs[i - Len(Q(t))]
            <4>1. Len(Q(t)) \in Nat
                BY <1>3
            <4>2. Len(N(t)) = Len(Q(t)) + Len(msgs) /\ Len(msgs) \in Nat
                BY <1>4, <3>1
            <4>3. i > Len(Q(t)) /\ i \in 1 .. Len(Q(t)) + Len(msgs)
                BY <2>2, <4>1, <4>2
            <4>4. (Q(t) \o msgs)[i] = msgs[i - Len(Q(t))]
                BY <1>4, <4>3
            <4>. QED BY <3>1, <4>1, <4>2, <4>3, <4>4
        <3>. QED BY <3>1, <3>2
    <2>. QED BY <2>1, <2>2
<1>. QED BY <1>1, <1>5, <1>7, <1>8

\* ... with the packets sent as Sent does it.
LEMMA SayGhosts ==
    ASSUME IInv, GhostInv, NEW s \in Ships, NEW msgs \in Seq(ToGate),
           conn' = Sent(conn, s, msgs), UNCHANGED <<sock, hasKey, ships, online, made>>,
           \A j \in 1 .. Len(msgs), g \in Cards, b \in Blocks :
               Says(msgs[j], g, b) => Stands(g, s, b)',
           \A g \in Cards, t \in Ships, b \in Blocks : Stands(g, t, b) =>
               \/ Stands(g, t, b)'
               \/ t = s /\ \E j \in 1 .. Len(msgs) : msgs[j] = BlkLogout(g)
    PROVE  GhostInv'
<1>. USE DEF GhostInv
<1>1. TypeOK
    BY DEF IInv
<1>2. \A k \in Conns : /\ Kept(conn'[k], conn[k])
                       /\ conn'[k].up = IF /\ k = sock[s] /\ Linked(s) /\ hasKey[s]
                                           /\ conn[k].wire = "up"
                                          THEN conn[k].up \o msgs ELSE conn[k].up
    BY <1>1, SentFields
<1>3. Linked(s) => sock[s] \in Conns /\ sock[s] # None
    BY <1>1, QueueType
<1>4. Linked(s) /\ hasKey[s] => conn'[sock[s]].up = conn[sock[s]].up \o msgs
    BY <1>2, <1>3 DEF Sockets
<1>5. \A k \in Conns : \/ conn'[k].up = conn[k].up
                       \/ /\ k = sock[s] /\ conn'[k].up = conn[k].up \o msgs
                          /\ hasKey[s] \/ \A j \in 1 .. Len(msgs) : msgs[j] = Login
    BY <1>2
<1>6. \A k \in Conns : Kept(conn'[k], conn[k])
    BY <1>2
<1>. HIDE DEF GhostInv
<1>. QED BY <1>4, <1>5, <1>6, ShipGhosts

\* ... when it says nothing.
LEMMA SameGhosts ==
    ASSUME IInv, GhostInv, NEW s \in Ships,
           UNCHANGED <<sock, ships, online, made, at, named, overtaken>>,
           \A t \in Ships : hasKey[t] => hasKey'[t],
           \A k \in Conns : Kept(conn'[k], conn[k]) /\ conn'[k].up = conn[k].up
    PROVE  GhostInv'
<1>. DEFINE msgs == <<>>
<1>1. /\ msgs \in Seq(ToGate) /\ Len(msgs) = 0
      /\ \A q \in Seq(ToGate) : q \o msgs = q
    BY ConcatEmptySeq
<1>. HIDE DEF msgs
<1>2. Linked(s) /\ hasKey[s] => conn'[sock[s]].up = conn[sock[s]].up \o msgs
    BY <1>1, QueueType DEF IInv
<1>3. \A g \in Cards, t \in Ships, b \in Blocks : Stands(g, t, b)' = Stands(g, t, b)
    BY DEF Stands, Plays
<1>4. \A j \in 1 .. Len(msgs) : FALSE
    BY <1>1
<1>5. \A k \in Conns : Kept(conn'[k], conn[k])
    OBVIOUS
<1>6. \A k \in Conns : \/ conn'[k].up = conn[k].up
                       \/ /\ k = sock[s] /\ conn'[k].up = conn[k].up \o msgs
                          /\ hasKey[s] \/ \A j \in 1 .. Len(msgs) : msgs[j] = Login
    OBVIOUS
<1>7. \A j \in 1 .. Len(msgs), g \in Cards, b \in Blocks :
         Says(msgs[j], g, b) => Stands(g, s, b)'
    BY <1>4
<1>8. \A g \in Cards, t \in Ships, b \in Blocks : Stands(g, t, b) =>
         \/ Stands(g, t, b)'
         \/ t = s /\ \E j \in 1 .. Len(msgs) : msgs[j] = BlkLogout(g)
    BY <1>3
<1>. QED BY <1>1, <1>2, <1>5, <1>6, <1>7, <1>8, ShipGhosts

LEMMA ArriveGhosts ==
    ASSUME IInv, GhostInv, NEW c \in Clients, NEW p \in Places, Arrive(c, p)
    PROVE  GhostInv'
<1>. DEFINE msgs == <<Count(p[1])>>
<1>1. p[1] \in Ships /\ msgs \in Seq(ToGate) /\ conn' = Sent(conn, p[1], msgs)
    BY Sayings DEF Arrive, Places, IInv
<1>2. Len(msgs) = 1 /\ msgs[1] = Count(p[1])
    OBVIOUS
<1>3. \A g \in Cards, t \in Ships, b \in Blocks : Stands(g, t, b) => Stands(g, t, b)'
    BY LinkAssumption DEF Stands, Plays, Arrive, shipVars, burstVars, IInv, TypeOK, Places
<1>4. UNCHANGED <<sock, hasKey, ships, online, made>>
    BY DEF Arrive, shipVars, burstVars, gateVars
<1>5. \A j \in 1 .. Len(msgs), g \in Cards, b \in Blocks : ~Says(msgs[j], g, b)
    BY <1>2, SaysWhat
<1>. HIDE DEF msgs
<1>. QED BY <1>1, <1>3, <1>4, <1>5, SayGhosts

LEMMA AnnounceGhosts ==
    ASSUME IInv, GhostInv, NEW c \in Clients, Announce(c)
    PROVE  GhostInv'
<1>0. PICK s \in Ships, a \in Blocks : at[c] = <<s, a>>
    BY DEF Announce, IInv, TypeOK, Places
<1>. DEFINE msgs == <<BlkLogin(Account[c], a)>>
<1>1. msgs \in Seq(ToGate) /\ conn' = Sent(conn, s, msgs)
    <2>1. at[c][1] = s /\ at[c][2] = a /\ at[c] # None
        BY <1>0 DEF Announce
    <2>2. <<BlkLogin(Account[c], at[c][2])>> \in Seq(ToGate)
        BY <2>1, Sayings DEF IInv
    <2>. QED BY <2>1, <2>2 DEF Announce
<1>2. Len(msgs) = 1 /\ msgs[1] = BlkLogin(Account[c], a)
    OBVIOUS
<1>3. /\ named' = [named EXCEPT ![c] = TRUE] /\ named \in [Clients -> BOOLEAN]
      /\ UNCHANGED <<at, overtaken>>
    BY DEF Announce, shipVars, burstVars, IInv, TypeOK
<1>4. UNCHANGED <<sock, hasKey, ships, online, made>>
    BY DEF Announce, shipVars, burstVars, gateVars
<1>. HIDE DEF msgs
<1>5. \A g \in Cards, t \in Ships, b \in Blocks : Stands(g, t, b) => Stands(g, t, b)'
    BY <1>3 DEF Stands, Plays
<1>6. ASSUME NEW j \in 1 .. Len(msgs), NEW g \in Cards, NEW b \in Blocks,
             Says(msgs[j], g, b)
      PROVE  Stands(g, s, b)'
    <2>1. g = Account[c] /\ b = a
        BY <1>2, <1>6, SaysWhat
    <2>2. Account[c] = g /\ at'[c] = <<s, b>> /\ named'[c]
        BY <1>0, <1>3, <2>1
    <2>. QED BY <2>2 DEF Stands, Plays
<1>. QED BY <1>1, <1>4, <1>5, <1>6, SayGhosts

LEMMA LeaveGhosts ==
    ASSUME IInv, GhostInv, NEW c \in Clients, Leave(c)
    PROVE  GhostInv'
<1>1. PICK s \in Ships : at[c][1] = s /\ \A t, b : at[c] = <<t, b>> => t = s
    BY Sayings DEF Leave, IInv
<1>2. PICK msgs \in Seq(ToGate) :
         /\ conn' = Sent(conn, s, msgs)
         /\ \A j \in 1 .. Len(msgs) : msgs[j] \in {Count(s), BlkLogout(Account[c])}
         /\ named[c] \/ c \in BB => \E j \in 1 .. Len(msgs) : msgs[j] = BlkLogout(Account[c])
    <2>1. Count(s) \in ToGate /\ BlkLogout(Account[c]) \in ToGate
        BY DEF ToGate, Cards
    <2>2. CASE named[c] \/ c \in BB
        <3>1. PICK msgs : msgs = <<BlkLogout(Account[c])>> \o <<Count(s)>>
            OBVIOUS
        <3>2. conn' = Sent(conn, s, <<BlkLogout(Account[c])>> \o <<Count(s)>>)
            BY <1>1, <2>2 DEF Leave
        <3>3. conn' = Sent(conn, s, msgs)
            BY <3>1, <3>2
        <3>4. /\ msgs \in Seq(ToGate) /\ Len(msgs) = 2
              /\ msgs[1] = BlkLogout(Account[c]) /\ msgs[2] = Count(s)
            BY <2>1, <3>1
        <3>5. \A j \in 1 .. Len(msgs) : msgs[j] = Count(s) \/ msgs[j] = BlkLogout(Account[c])
            BY <3>4
        <3>6. 1 \in 1 .. Len(msgs)
            BY <3>4
        <3>. QED BY <3>3, <3>4, <3>5, <3>6
    <2>3. CASE ~(named[c] \/ c \in BB)
        <3>1. PICK msgs : msgs = <<Count(s)>>
            OBVIOUS
        <3>2. conn' = Sent(conn, s, <<>> \o <<Count(s)>>)
            BY <1>1, <2>3 DEF Leave
        <3>3. <<>> \o <<Count(s)>> = msgs
            BY <3>1
        <3>4. msgs \in Seq(ToGate) /\ Len(msgs) = 1 /\ msgs[1] = Count(s)
            BY <2>1, <3>1
        <3>5. \A j \in 1 .. Len(msgs) : msgs[j] = Count(s)
            BY <3>4
        <3>. QED BY <2>3, <3>2, <3>3, <3>4, <3>5
    <2>. QED BY <2>2, <2>3
<1>3. UNCHANGED <<sock, hasKey, ships, online, made>>
    BY DEF Leave, gateVars
<1>4. \A j \in 1 .. Len(msgs), g \in Cards, b \in Blocks : ~Says(msgs[j], g, b)
    BY <1>2, SaysWhat
<1>5. ASSUME NEW g \in Cards, NEW t \in Ships, NEW b \in Blocks, Stands(g, t, b)
      PROVE  \/ Stands(g, t, b)'
             \/ t = s /\ \E j \in 1 .. Len(msgs) : msgs[j] = BlkLogout(g)
    <2>1. CASE Plays(g, t, b)
        <3>1. PICK d \in Clients : Account[d] = g /\ at[d] = <<t, b>> /\ named[d]
            BY <2>1 DEF Plays
        <3>2. CASE d = c
            BY <1>1, <1>2, <3>1, <3>2
        <3>3. CASE d # c
            <4>1. at'[d] = at[d] /\ named'[d] = named[d]
                BY <3>3 DEF Leave, IInv, TypeOK
            <4>. QED BY <3>1, <4>1 DEF Stands, Plays
        <3>. QED BY <3>2, <3>3
    <2>2. CASE g \in overtaken[t]
        <3>1. \/ g \in overtaken'[t]
              \/ t = s /\ (named[c] \/ c \in BB) /\ g = Account[c]
            BY <1>1, <2>2 DEF Leave, Healed, IInv, TypeOK
        <3>. QED BY <1>2, <3>1 DEF Stands
    <2>. QED BY <1>5, <2>1, <2>2 DEF Stands
<1>. QED BY <1>2, <1>3, <1>4, <1>5, SayGhosts

LEMMA ShipListsGhosts ==
    ASSUME IInv, GhostInv, NEW s \in Ships, ShipLists(s)
    PROVE  GhostInv'
<1>1. UNCHANGED <<sock, hasKey, ships, online, made, at, named, overtaken, conn>>
    BY DEF ShipLists, clientVars, gateVars, netVars
<1>2. \A k \in Conns : Kept(conn'[k], conn[k]) /\ conn'[k].up = conn[k].up
    BY <1>1 DEF Kept
<1>. QED BY <1>1, <1>2, SameGhosts

\* Who has left since the packet was filled in is counted as overtaken.
LEMMA ShipBurstsGhosts ==
    ASSUME IInv, GhostInv, NEW s \in Ships, ShipBursts(s)
    PROVE  GhostInv'
<1>. DEFINE msgs == <<BClients(burst[s], entries[s])>>
<1>0. TypeOK
    BY DEF IInv
<1>1. UNCHANGED <<sock, hasKey, ships, online, made, at, named>>
    BY DEF ShipBursts, clientVars, gateVars
<1>2. \A t \in Ships : overtaken[t] \subseteq overtaken'[t]
    BY <1>0 DEF ShipBursts, TypeOK
<1>3. \A g \in Cards, t \in Ships, b \in Blocks : Stands(g, t, b) => Stands(g, t, b)'
    BY <1>1, <1>2 DEF Stands, Plays
<1>4. burst[s] \in Blocks /\ entries[s] \subseteq Cards
    BY <1>0, BlockAfter DEF ShipBursts, TypeOK
<1>5. msgs \in Seq(ToGate)
    BY <1>4, PacketTypes, OneList
<1>6. conn' = Sent(conn, s, msgs)
    BY DEF ShipBursts
<1>7. Len(msgs) = 1 /\ msgs[1] = BClients(burst[s], entries[s])
    OBVIOUS
<1>8. ASSUME NEW j \in 1 .. Len(msgs), NEW g \in Cards, NEW b \in Blocks,
             Says(msgs[j], g, b)
      PROVE  Stands(g, s, b)'
    <2>1. b = burst[s] /\ g \in entries[s]
        BY <1>7, <1>8, SaysWhat
    <2>2. CASE g \in Left(s)
        <3>1. g \in overtaken'[s]
            BY <1>0, <2>2 DEF ShipBursts, TypeOK
        <3>. QED BY <3>1 DEF Stands
    <2>3. CASE g \notin Left(s)
        <3>1. PICK c \in On(s, burst[s]) : Account[c] = g
            BY <2>1, <2>3 DEF Left
        <3>. QED BY <1>1, <2>1, <3>1 DEF Stands, Plays, On
    <2>. QED BY <2>2, <2>3
<1>. HIDE DEF msgs
<1>. QED BY <1>1, <1>3, <1>5, <1>6, <1>8, SayGhosts

\* The ship gives its connection up, and its clients stay or go.
LEMMA HangupGhosts ==
    ASSUME IInv, GhostInv, NEW s \in Ships, sock[s] # None, NEW w, NEW n,
           Hangup(s, Cut(sock[s], w, n)), UNCHANGED <<ships, online>>,
           \A g \in Cards, t \in Ships, b \in Blocks :
               t # s /\ Stands(g, t, b) => Stands(g, t, b)'
    PROVE  GhostInv'
<1>. USE DEF GhostInv
<1>0. TypeOK
    BY DEF IInv
<1>1. sock[s] \in Conns /\ made' = made
    BY <1>0 DEF TypeOK, Hangup
<1>2. ASSUME NEW k \in Conns
      PROVE  /\ conn'[k].ship = conn[k].ship
             /\ k # sock[s] => /\ conn'[k].wire = conn[k].wire
                               /\ conn'[k].up = conn[k].up
    <2>1. conn' = Cut(sock[s], w, n)
        BY DEF Hangup
    <2>. QED BY <1>0, <1>1, <2>1, CutFields
<1>3. /\ sock'[s] = None /\ \A t \in Ships : t # s => sock'[t] = sock[t]
      /\ \A t \in Ships : t # s => hasKey'[t] = hasKey[t]
    BY <1>0 DEF Hangup, TypeOK
<1>4. \A t \in Ships : Linked(t)' => t # s /\ Linked(t) /\ sock'[t] = sock[t]
    BY <1>0, <1>3, LinkAssumption DEF Linked, TypeOK
<1>5. \A t \in Ships : t # s => Alone(t)' = Alone(t)
    BY <1>0, <1>2, <1>3 DEF Alone, Owner, TypeOK
<1>6. \A t \in Ships : t # s /\ sock[t] # None => sock[t] \in Conns /\ sock[t] # sock[s]
    BY <1>0, Apart DEF TypeOK
<1>7. \A t \in Ships : Linked(t)' => conn'[sock'[t]].up = conn[sock[t]].up
    BY <1>0, <1>2, <1>4, <1>6, QueueType
<1>8. Sockets'
    <2> SUFFICES ASSUME NEW t \in Ships, sock'[t] # None
                 PROVE  /\ sock'[t] \in 1 .. made /\ conn'[sock'[t]].ship = t
                        /\ conn'[sock'[t]].wire = "up"
        BY <1>1 DEF Sockets, Owner
    <2>1. t # s /\ sock'[t] = sock[t]
        BY <1>3
    <2>. QED BY <1>2, <1>6, <2>1 DEF Sockets, Owner
<1>9. Silent'
    BY <1>3, <1>4, <1>7 DEF Silent
<1>10. Reports'
    <2> SUFFICES ASSUME NEW t \in Ships, Linked(t)',
                        NEW i \in 1 .. Len(conn'[sock'[t]].up),
                        NEW g \in Cards, NEW b \in Blocks, Says(conn'[sock'[t]].up[i], g, b)
                 PROVE  Stands(g, t, b)' \/ LogoutAfter(conn'[sock'[t]].up, i, g)
        BY DEF Reports
    <2>1. t # s /\ Linked(t) /\ conn'[sock'[t]].up = conn[sock[t]].up
        BY <1>4, <1>7
    <2>. QED BY <2>1 DEF Reports
<1>11. Rows'
    <2> SUFFICES ASSUME NEW t \in Ships, Linked(t)', NEW g \in Cards, NEW b \in Blocks,
                        Alone(t)', online'[g] = <<t, b>>
                 PROVE  /\ hasKey'[t]
                        /\ Stands(g, t, b)' \/ LogoutAfter(conn'[sock'[t]].up, 0, g)
        BY DEF Rows
    <2>1. t # s /\ Linked(t) /\ conn'[sock'[t]].up = conn[sock[t]].up
        BY <1>4, <1>7
    <2>. QED BY <1>3, <1>5, <2>1 DEF Rows
<1>. QED BY <1>8, <1>9, <1>10, <1>11

LEMMA ShipReadsGhosts ==
    ASSUME IInv, GhostInv, NEW s \in Ships, ShipReads(s)
    PROVE  GhostInv'
<1>. DEFINE m  == Head(conn[sock[s]].down)
<1>1. sock[s] \in Conns /\ sock[s] # None /\ TypeOK
    BY DEF ShipReads, IInv, TypeOK
<1>2. ships' = ships /\ online' = online
    BY DEF ShipReads, gateVars
<1>3. \A k \in Conns : Kept(Read(s)[k], conn[k]) /\ Read(s)[k].up = conn[k].up
    BY <1>1, ReadFields
<1>4. ASSUME conn' = Read(s), UNCHANGED <<sock, made, at, named, overtaken>>,
             \A t \in Ships : hasKey[t] => hasKey'[t]
      PROVE  GhostInv'
    BY <1>2, <1>3, <1>4, SameGhosts
<1>5. CASE /\ ~hasKey[s]
           /\ conn' = IF Linked(s) THEN Answered(s) ELSE Read(s)
           /\ UNCHANGED <<shipVars, clientVars, made>>
    <2>1. CASE Linked(s)
        <3>. DEFINE msgs == <<Login>>
        <3>1. msgs \in Seq(ToGate) /\ Len(msgs) = 1 /\ msgs[1] = Login
            BY DEF ToGate
        <3>2. \A k \in Conns : /\ Kept(conn'[k], conn[k])
                               /\ k # sock[s] => conn'[k].up = conn[k].up
            BY <1>1, <1>5, <2>1, ReadFields
        <3>3. conn'[sock[s]].up \in {conn[sock[s]].up, conn[sock[s]].up \o msgs}
            BY <1>1, <1>5, <2>1, ReadFields
        <3>. HIDE DEF msgs
        <3>4. \A j \in 1 .. Len(msgs) : msgs[j] = Login
            BY <3>1
        <3>5. \A k \in Conns :
                 \/ conn'[k].up = conn[k].up
                 \/ /\ k = sock[s] /\ conn'[k].up = conn[k].up \o msgs
                    /\ hasKey[s] \/ \A j \in 1 .. Len(msgs) : msgs[j] = Login
            BY <3>2, <3>3, <3>4
        <3>6. UNCHANGED <<sock, hasKey, made, at, named, overtaken>>
            BY <1>5 DEF shipVars, burstVars, clientVars
        <3>7. \A g \in Cards, t \in Ships, b \in Blocks : Stands(g, t, b)' = Stands(g, t, b)
            BY <3>6 DEF Stands, Plays
        <3>8. \A j \in 1 .. Len(msgs), g \in Cards, b \in Blocks : ~Says(msgs[j], g, b)
            BY <3>4, SaysWhat
        <3>. QED BY <1>2, <1>5, <3>1, <3>2, <3>5, <3>6, <3>7, <3>8, ShipGhosts
    <2>2. CASE ~Linked(s)
        BY <1>4, <1>5, <2>2 DEF shipVars, burstVars, clientVars
    <2>. QED BY <2>1, <2>2
<1>6. CASE /\ hasKey' = [hasKey EXCEPT ![s] = TRUE]
           /\ conn'   = Read(s)
           /\ UNCHANGED <<sock, burstVars, fleet, codes, clientVars, made>>
    BY <1>1, <1>4, <1>6 DEF TypeOK, clientVars, burstVars
<1>7. CASE Hangup(s, Closed(sock[s])) /\ UNCHANGED <<codes, clientVars>>
    <2>1. UNCHANGED <<at, named>> /\ \A t \in Ships : t # s => overtaken'[t] = overtaken[t]
        BY <1>1, <1>7 DEF Hangup, clientVars, TypeOK
    <2>2. \A g \in Cards, t \in Ships, b \in Blocks :
             t # s /\ Stands(g, t, b) => Stands(g, t, b)'
        BY <2>1 DEF Stands, Plays
    <2>. QED BY <1>1, <1>2, <1>7, <2>2, HangupGhosts DEF Closed
<1>8. CASE /\ conn' = Read(s)
           /\ UNCHANGED <<sock, hasKey, burst, burstVars, clientVars, made>>
    BY <1>4, <1>8 DEF clientVars, burstVars
<1>9. CASE conn' = Read(s) /\ UNCHANGED <<shipVars, at, named, made>>
    BY <1>4, <1>9 DEF shipVars, burstVars
<1>10. CASE conn' = Read(s) /\ UNCHANGED <<shipVars, clientVars, made>>
    BY <1>4, <1>10 DEF shipVars, burstVars, clientVars
<1>. QED BY <1>5, <1>6, <1>7, <1>8, <1>9, <1>10 DEF ShipReads, Answered

LEMMA ConnectGhosts ==
    ASSUME IInv, GhostInv, NEW s \in Ships, Connect(s)
    PROVE  GhostInv'
<1>. USE DEF GhostInv
<1>. DEFINE new == [ship |-> s, known |-> FALSE, wire |-> "up",
                    up |-> <<>>, down |-> <<Welcome>>]
<1>0. TypeOK /\ Numbered /\ RowsBacked
    BY DEF IInv
<1>1. made' \in Conns /\ made' = made + 1 /\ made \in Nat
    BY <1>0, LinkAssumption DEF Connect, TypeOK, Conns
<1>2. /\ conn'[made'].ship = s /\ conn'[made'].wire = "up" /\ conn'[made'].up = <<>>
      /\ \A k \in Conns : k # made' => conn'[k] = conn[k]
    <2>1. conn' = [conn EXCEPT ![made'] = new]
        BY DEF Connect
    <2>. QED BY <1>0, <1>1, <2>1 DEF TypeOK
<1>3. /\ sock[s] = None /\ sock'[s] = made' /\ \A t \in Ships : t # s => sock'[t] = sock[t]
      /\ UNCHANGED <<hasKey, at, named, overtaken, online>> /\ ships' = ships \cup {made'}
    BY <1>0 DEF Connect, TypeOK, clientVars, burstVars
<1>4. \A t \in Ships : sock[t] # None => sock[t] \in Conns /\ sock[t] # made'
    <2> SUFFICES ASSUME NEW t \in Ships, sock[t] # None
                 PROVE  sock[t] \in Conns /\ sock[t] # made'
        OBVIOUS
    <2>1. sock[t] \in 1 .. made
        BY DEF Sockets
    <2>2. sock[t] \in Conns
        BY <1>0 DEF TypeOK
    <2>. QED BY <1>1, <2>1, <2>2
<1>5. \A k \in ships : k \in Conns /\ k # made' /\ Owner(k)' = Owner(k)
    <2>1. \A k \in ships : k \in 1 .. made /\ k \in Conns
        BY <1>0 DEF TypeOK, Numbered
    <2>2. \A k \in 1 .. made : k # made'
        BY <1>1
    <2>. QED BY <1>2, <2>1, <2>2 DEF Owner
<1>6. \A t \in Ships : Linked(t)' =>
         \/ t = s /\ conn'[sock'[t]].up = <<>>
         \/ t # s /\ Linked(t) /\ conn'[sock'[t]].up = conn[sock[t]].up
    <2> SUFFICES ASSUME NEW t \in Ships, Linked(t)', t # s
                 PROVE  Linked(t) /\ conn'[sock'[t]].up = conn[sock[t]].up
        BY <1>2, <1>3
    <2>1. sock[t] = sock'[t] /\ sock'[t] \in ships \cup {made'}
        BY <1>3 DEF Linked
    <2>2. sock[t] # None
        BY <1>0, <1>1, <2>1, LinkAssumption DEF TypeOK
    <2>. QED BY <1>2, <1>4, <2>1, <2>2 DEF Linked
<1>7. \A t \in Ships : t # s /\ Alone(t)' => Alone(t)
    BY <1>3, <1>5 DEF Alone
<1>8. \A g \in Cards, b \in Blocks : Alone(s)' => online[g] # <<s, b>>
    <2> SUFFICES ASSUME NEW g \in Cards, NEW b \in Blocks, Alone(s)', online[g] = <<s, b>>
                 PROVE  FALSE
        OBVIOUS
    <2>1. online[g] # None /\ online[g][1] = s
        BY LinkAssumption DEF Places
    <2>2. PICK k \in ships : Owner(k) = s
        BY <1>0, <2>1 DEF RowsBacked
    <2>3. k \in ships' /\ Owner(k)' = s /\ k # made'
        BY <1>3, <1>5, <2>2
    <2>. QED BY <1>3, <2>3 DEF Alone
<1>9. \A g \in Cards, t \in Ships, b \in Blocks : Stands(g, t, b)' = Stands(g, t, b)
    BY <1>3 DEF Stands, Plays
<1>10. Sockets'
    <2> SUFFICES ASSUME NEW t \in Ships, sock'[t] # None
                 PROVE  /\ sock'[t] \in 1 .. made' /\ conn'[sock'[t]].ship = t
                        /\ conn'[sock'[t]].wire = "up"
        BY DEF Sockets, Owner
    <2>1. CASE t = s
        BY <1>1, <1>2, <1>3, <2>1
    <2>2. CASE t # s
        BY <1>1, <1>2, <1>3, <1>4, <2>2 DEF Sockets, Owner
    <2>. QED BY <2>1, <2>2
<1>11. Silent'
    BY <1>3, <1>6 DEF Silent
<1>12. Reports'
    <2> SUFFICES ASSUME NEW t \in Ships, Linked(t)',
                        NEW i \in 1 .. Len(conn'[sock'[t]].up),
                        NEW g \in Cards, NEW b \in Blocks, Says(conn'[sock'[t]].up[i], g, b)
                 PROVE  Stands(g, t, b)' \/ LogoutAfter(conn'[sock'[t]].up, i, g)
        BY DEF Reports
    <2>1. Linked(t) /\ conn'[sock'[t]].up = conn[sock[t]].up
        BY <1>6
    <2>. QED BY <1>9, <2>1 DEF Reports
<1>13. Rows'
    <2> SUFFICES ASSUME NEW t \in Ships, Linked(t)', NEW g \in Cards, NEW b \in Blocks,
                        Alone(t)', online'[g] = <<t, b>>
                 PROVE  /\ hasKey'[t]
                        /\ Stands(g, t, b)' \/ LogoutAfter(conn'[sock'[t]].up, 0, g)
        BY DEF Rows
    <2>1. t # s
        BY <1>3, <1>8
    <2>2. Linked(t) /\ conn'[sock'[t]].up = conn[sock[t]].up
        BY <1>6, <2>1
    <2>. QED BY <1>3, <1>7, <1>9, <2>1, <2>2 DEF Rows
<1>. QED BY <1>10, <1>11, <1>12, <1>13

\* The gate takes a packet from connection k; a row that it makes is the one
\* the packet is about, and a logout deletes its row.
LEMMA GateGhosts ==
    ASSUME IInv, GhostInv, NEW k \in ships, conn[k].up # <<>>,
           UNCHANGED <<sock, hasKey, at, named, overtaken, made, ships>>,
           \A j \in Conns : /\ Kept(conn'[j], conn[j])
                            /\ conn'[j].up = IF j = k THEN Tail(conn[k].up)
                                                      ELSE conn[j].up,
           \A g \in Cards, t \in Ships, b \in Blocks : online'[g] = <<t, b>> =>
               \/ /\ online[g] = <<t, b>>
                  /\ t = Owner(k) => Head(conn[k].up) # BlkLogout(g)
               \/ t = Owner(k) /\ Says(Head(conn[k].up), g, b)
    PROVE  GhostInv'
<1>. USE DEF GhostInv
<1>0. TypeOK /\ k \in Conns
    BY DEF IInv, TypeOK
<1>1. PICK q \in Seq(ToGate), r \in Seq(ToGate) :
         /\ conn[k].up = q /\ Tail(q) = r /\ q # <<>> /\ Len(q) \in Nat \ {0}
         /\ Len(r) = Len(q) - 1 /\ Head(q) = q[1]
         /\ \A i \in 1 .. Len(q) - 1 : r[i] = q[i + 1]
    <2>1. PICK q \in Seq(ToGate) : conn[k].up = q /\ q # <<>>
        BY <1>0, Field DEF TypeOK
    <2>2. Len(q) \in Nat \ {0}
        BY <2>1, EmptySeq
    <2>3. /\ Tail(q) \in Seq(ToGate) /\ Len(Tail(q)) = Len(q) - 1 /\ Head(q) = q[1]
          /\ \A i \in 1 .. Len(q) - 1 : Tail(q)[i] = q[i + 1]
        BY <2>1, <2>2, HeadTailProperties
    <2>4. PICK r : r = Tail(q)
        OBVIOUS
    <2>. QED BY <2>1, <2>2, <2>3, <2>4
<1>2. \A t \in Ships : Linked(t)' = Linked(t) /\ Alone(t)' = Alone(t)
    BY <1>0 DEF Linked, Alone, Owner, Kept, TypeOK
<1>3. \A t \in Ships : Linked(t) => sock[t] \in Conns
    BY <1>0, QueueType
<1>4. \A g \in Cards, t \in Ships, b \in Blocks : Stands(g, t, b)' = Stands(g, t, b)
    BY DEF Stands, Plays
<1>5. \A t \in Ships : k = sock[t] => Owner(k) = t
    BY <1>0, LinkAssumption DEF Sockets, Conns
<1>6. \A t \in Ships : Linked(t) => conn'[sock[t]].up = IF sock[t] = k THEN r
                                                        ELSE conn[sock[t]].up
    BY <1>1, <1>3
<1>7. Sockets'
    <2> SUFFICES ASSUME NEW t \in Ships, sock[t] # None
                 PROVE  /\ sock[t] \in 1 .. made /\ conn'[sock[t]].ship = t
                        /\ conn'[sock[t]].wire = "up"
        BY DEF Sockets, Owner
    <2>1. sock[t] \in Conns
        BY <1>0 DEF TypeOK
    <2>2. Kept(conn'[sock[t]], conn[sock[t]])
        BY <2>1
    <2>. QED BY <2>2 DEF Sockets, Owner, Kept
<1>8. Silent'
    <2> SUFFICES ASSUME NEW t \in Ships, Linked(t), ~hasKey[t],
                        NEW i \in 1 .. Len(conn'[sock[t]].up)
                 PROVE  conn'[sock[t]].up[i] = Login
        BY <1>2 DEF Silent
    <2>1. CASE sock[t] = k
        <3>1. i \in 1 .. Len(q) - 1 /\ i + 1 \in 1 .. Len(q)
            BY <1>1, <1>6, <2>1
        <3>2. conn'[sock[t]].up[i] = q[i + 1]
            BY <1>1, <1>6, <2>1, <3>1
        <3>. QED BY <1>1, <2>1, <3>1, <3>2 DEF Silent
    <2>2. CASE sock[t] # k
        BY <1>6, <2>2 DEF Silent
    <2>. QED BY <2>1, <2>2
<1>9. Reports'
    <2> SUFFICES ASSUME NEW t \in Ships, Linked(t), NEW i \in 1 .. Len(conn'[sock[t]].up),
                        NEW g \in Cards, NEW b \in Blocks, Says(conn'[sock[t]].up[i], g, b)
                 PROVE  Stands(g, t, b) \/ LogoutAfter(conn'[sock[t]].up, i, g)
        BY <1>2, <1>4 DEF Reports
    <2>1. CASE sock[t] = k
        <3>1. i \in 0 .. Len(q) - 1 /\ i \in 1 .. Len(q) - 1 /\ i + 1 \in 1 .. Len(q)
            BY <1>1, <1>6, <2>1
        <3>2. Says(q[i + 1], g, b)
            BY <1>1, <1>6, <2>1, <3>1
        <3>3. Stands(g, t, b) \/ LogoutAfter(q, i + 1, g)
            BY <1>1, <2>1, <3>1, <3>2 DEF Reports
        <3>4. LogoutAfter(q, i + 1, g) => LogoutAfter(r, i, g)
            BY <1>1, <3>1, Shorter
        <3>. QED BY <1>6, <2>1, <3>3, <3>4
    <2>2. CASE sock[t] # k
        BY <1>6, <2>2 DEF Reports
    <2>. QED BY <2>1, <2>2
<1>10. Rows'
    <2> SUFFICES ASSUME NEW t \in Ships, NEW g \in Cards, NEW b \in Blocks,
                        Linked(t), Alone(t), online'[g] = <<t, b>>
                 PROVE  /\ hasKey[t]
                        /\ Stands(g, t, b) \/ LogoutAfter(conn'[sock[t]].up, 0, g)
        BY <1>2, <1>4 DEF Rows
    <2>1. Owner(k) = t <=> sock[t] = k
        BY <1>5 DEF Alone
    <2>2. CASE online[g] = <<t, b>> /\ sock[t] # k
        BY <1>6, <2>2 DEF Rows
    <2>3. CASE online[g] = <<t, b>> /\ sock[t] = k /\ Head(q) # BlkLogout(g)
        <3>1. hasKey[t] /\ (Stands(g, t, b) \/ LogoutAfter(q, 0, g))
            BY <1>1, <2>3 DEF Rows
        <3>2. LogoutAfter(q, 0, g) => LogoutAfter(r, 0, g)
            BY <1>1, <2>3, Shorter
        <3>. QED BY <1>6, <2>3, <3>1, <3>2
    <2>4. CASE sock[t] = k /\ Says(Head(q), g, b)
        <3>1. 1 \in 1 .. Len(q) /\ Says(q[1], g, b) /\ 0 \in 0 .. Len(q) - 1
            BY <1>1, <2>4
        <3>2. hasKey[t]
            BY <1>1, <2>4, <3>1, SaysWhat DEF Silent
        <3>3. Stands(g, t, b) \/ LogoutAfter(q, 1, g)
            BY <1>1, <2>4, <3>1 DEF Reports
        <3>4. LogoutAfter(q, 0 + 1, g) => LogoutAfter(r, 0, g)
            BY <1>1, <3>1, Shorter
        <3>. QED BY <1>6, <2>4, <3>2, <3>3, <3>4
    <2>. QED BY <1>1, <2>1, <2>2, <2>3, <2>4
<1>. QED BY <1>7, <1>8, <1>9, <1>10

\* The gate removes connection k and the rows of its ship.
LEMMA DisconnectGhosts ==
    ASSUME IInv, GhostInv, NEW k \in ships, NEW cn \in [Conns -> Conn], Disconnect(k, cn),
           UNCHANGED <<sock, hasKey, at, named, overtaken, made>>,
           \A j \in Conns : /\ Kept(cn[j], conn[j])
                            /\ j # k => cn[j].up = conn[j].up
    PROVE  GhostInv'
<1>. USE DEF GhostInv
<1>0. TypeOK /\ k \in Conns
    BY DEF IInv, TypeOK
<1>1. \A j \in Conns : /\ Kept(conn'[j], conn[j])
                       /\ j # k => conn'[j].up = conn[j].up
    <2>1. \A j \in Conns : Kept(conn'[j], cn[j]) /\ (j # k => conn'[j].up = cn[j].up)
        BY DisconnectFields
    <2>. QED BY <2>1 DEF Kept
<1>2. /\ ships' = ships \ {k}
      /\ online' = [g \in Cards |-> IF online[g] # None /\ online[g][1] = Owner(k)
                                      THEN None ELSE online[g]]
    BY DEF Disconnect
<1>3. \A t \in Ships : Linked(t)' => /\ Linked(t) /\ sock[t] \in Conns
                                     /\ conn'[sock[t]].up = conn[sock[t]].up
    BY <1>0, <1>1, <1>2, QueueType DEF Linked
<1>4. \A t \in Ships : Owner(k) # t /\ Alone(t)' => Alone(t)
    BY <1>0, <1>1, <1>2 DEF Alone, Owner, Kept, TypeOK
<1>5. \A g \in Cards, t \in Ships, b \in Blocks : Stands(g, t, b)' = Stands(g, t, b)
    BY DEF Stands, Plays
<1>6. \A g \in Cards, t \in Ships, b \in Blocks : online'[g] = <<t, b>> =>
         online[g] = <<t, b>> /\ Owner(k) # t
    <2> SUFFICES ASSUME NEW g \in Cards, NEW t \in Ships, NEW b \in Blocks,
                        online'[g] = <<t, b>>
                 PROVE  online[g] = <<t, b>> /\ Owner(k) # t
        OBVIOUS
    <2>1. None # <<t, b>> /\ <<t, b>>[1] = t
        BY LinkAssumption DEF Places
    <2>2. online'[g] = IF online[g] # None /\ online[g][1] = Owner(k) THEN None ELSE online[g]
        BY <1>2
    <2>. QED BY <2>1, <2>2
<1>7. Sockets'
    <2> SUFFICES ASSUME NEW t \in Ships, sock[t] # None
                 PROVE  /\ sock[t] \in 1 .. made /\ conn'[sock[t]].ship = t
                        /\ conn'[sock[t]].wire = "up"
        BY DEF Sockets, Owner
    <2>1. sock[t] \in Conns
        BY <1>0 DEF TypeOK
    <2>2. Kept(conn'[sock[t]], conn[sock[t]])
        BY <1>1, <2>1
    <2>. QED BY <2>2 DEF Sockets, Owner, Kept
<1>8. Silent'
    BY <1>3 DEF Silent
<1>9. Reports'
    <2> SUFFICES ASSUME NEW t \in Ships, Linked(t)', NEW i \in 1 .. Len(conn'[sock[t]].up),
                        NEW g \in Cards, NEW b \in Blocks, Says(conn'[sock[t]].up[i], g, b)
                 PROVE  Stands(g, t, b) \/ LogoutAfter(conn'[sock[t]].up, i, g)
        BY <1>5 DEF Reports
    <2>. QED BY <1>3 DEF Reports
<1>10. Rows'
    <2> SUFFICES ASSUME NEW t \in Ships, NEW g \in Cards, NEW b \in Blocks,
                        Linked(t)', Alone(t)', online'[g] = <<t, b>>
                 PROVE  /\ hasKey[t]
                        /\ Stands(g, t, b) \/ LogoutAfter(conn'[sock[t]].up, 0, g)
        BY <1>5 DEF Rows
    <2>. QED BY <1>3, <1>4, <1>6 DEF Rows
<1>. QED BY <1>7, <1>8, <1>9, <1>10

LEMMA GateReadsGhosts ==
    ASSUME IInv, GhostInv, NEW k \in Conns, GateReads(k)
    PROVE  GhostInv'
<1>. DEFINE m  == Head(conn[k].up)
            cn == [conn EXCEPT ![k].up = Tail(@)]
<1>0. TypeOK /\ k \in ships /\ conn[k].up # <<>> /\ Owner(k) \in Ships
    BY Field DEF IInv, GateReads, TypeOK, Owner
<1>1. /\ cn \in [Conns -> Conn]
      /\ \A j \in Conns : /\ Kept(cn[j], conn[j])
                          /\ cn[j].up = IF j = k THEN Tail(conn[k].up) ELSE conn[j].up
    BY <1>0, PoppedFields DEF Popped
<1>2. UNCHANGED <<sock, hasKey, at, named, overtaken, made>>
    BY DEF GateReads, shipVars, burstVars, clientVars
<1>3. m \in ToGate
    <2>1. conn[k].up \in Seq(ToGate)
        BY <1>0, Field DEF TypeOK
    <2>. QED BY <1>0, <2>1
<1>. HIDE DEF cn
<1>4. ASSUME ships' = ships,
             \A j \in Conns : Kept(conn'[j], cn[j]) /\ conn'[j].up = cn[j].up,
             \A g \in Cards, t \in Ships, b \in Blocks : online'[g] = <<t, b>> =>
                 \/ online[g] = <<t, b>> /\ (t = Owner(k) => m # BlkLogout(g))
                 \/ t = Owner(k) /\ Says(m, g, b)
      PROVE  GhostInv'
    <2>1. \A j \in Conns : /\ Kept(conn'[j], conn[j])
                           /\ conn'[j].up = IF j = k THEN Tail(conn[k].up) ELSE conn[j].up
        BY <1>1, <1>4 DEF Kept
    <2>. QED BY <1>0, <1>2, <1>4, <2>1, GateGhosts
<1>. HIDE DEF m
<1>5. CASE m = Login /\ HandleLogin(k, cn)
    <2>. DEFINE told == Told(cn, ships, LoginNews(k))
    <2>1. conn' = Known(told, k) /\ ships' = ships /\ online' = online
        BY <1>5 DEF HandleLogin, Known
    <2>2. told \in [Conns -> Conn]
        BY <1>0, <1>1, NewsType, ToldType DEF Alike
    <2>3. \A j \in Conns : Kept(told[j], cn[j]) /\ told[j].up = cn[j].up
        BY <1>1, ToldFields
    <2>. HIDE DEF told
    <2>4. \A j \in Conns : Kept(conn'[j], told[j]) /\ conn'[j].up = told[j].up
        BY <1>0, <2>1, <2>2, KnownFields DEF IInv, TypeOK
    <2>5. \A g : Login # BlkLogout(g)
        BY DEF Login, BlkLogout
    <2>. QED BY <1>4, <1>5, <2>1, <2>3, <2>4, <2>5 DEF Kept
<1>6. CASE m = Login /\ LoginFails(k, cn)
    <2>. DEFINE told == Told(cn, {k}, ToAll(Refused))
    <2>1. ToAll(Refused) \in [Conns -> Seq(ToShip)]
        BY ToAllType, PacketTypes
    <2>2. told \in [Conns -> Conn]
        BY <1>1, <2>1, ToldType DEF Alike
    <2>3. \A j \in Conns : Kept(told[j], cn[j]) /\ told[j].up = cn[j].up
        BY <1>1, ToldFields
    <2>4. Disconnect(k, Known(told, k))
        BY <1>6 DEF LoginFails, Known
    <2>. HIDE DEF told
    <2>5. /\ Known(told, k) \in [Conns -> Conn]
          /\ \A j \in Conns : /\ Kept(Known(told, k)[j], told[j])
                              /\ Known(told, k)[j].up = told[j].up
        BY <1>0, <2>2, KnownFields
    <2>6. \A j \in Conns : /\ Kept(Known(told, k)[j], conn[j])
                           /\ j # k => Known(told, k)[j].up = conn[j].up
        BY <1>1, <2>3, <2>5 DEF Kept
    <2>. QED BY <1>0, <1>2, <2>4, <2>5, <2>6, DisconnectGhosts
<1>7. CASE m.type = "blklogin" /\ HandleBlockLogin(k, m, cn)
    <2>1. ships' = ships
        BY <1>7 DEF HandleBlockLogin
    <2>2. \A j \in Conns : Kept(conn'[j], cn[j]) /\ conn'[j].up = cn[j].up
        BY <1>1, <1>7, ToldFields DEF HandleBlockLogin, Kept
    <2>3. \A g : m # BlkLogout(g)
        BY <1>7 DEF BlkLogout
    <2>4. ASSUME NEW g \in Cards, NEW t \in Ships, NEW b \in Blocks, online'[g] = <<t, b>>
          PROVE  online[g] = <<t, b>> \/ (t = Owner(k) /\ Says(m, g, b))
        <3>1. online' = online \/ online' = [online EXCEPT ![m.card] = <<Owner(k), m.block>>]
            BY <1>7 DEF HandleBlockLogin
        <3>2. online \in [Cards -> Places \cup {None}]
            BY <1>0 DEF TypeOK
        <3>3. \/ online'[g] = online[g]
              \/ g = m.card /\ online'[g] = <<Owner(k), m.block>>
            BY <3>1, <3>2
        <3>4. CASE g = m.card /\ online'[g] = <<Owner(k), m.block>>
            <4>1. t = Owner(k) /\ b = m.block
                BY <2>4, <3>4
            <4>. QED BY <1>7, <3>4, <4>1 DEF Says
        <3>5. CASE online'[g] = online[g]
            BY <2>4, <3>5
        <3>. QED BY <3>3, <3>4, <3>5
    <2>. QED BY <1>4, <2>1, <2>2, <2>3, <2>4
<1>8. CASE m.type = "blklogout" /\ HandleBlockLogout(k, m, cn)
    <2>1. ships' = ships /\ conn' = cn
        BY <1>8 DEF HandleBlockLogout
    <2>2. online' = [online EXCEPT ![m.card] =
                       IF @ # None /\ @[1] = Owner(k) THEN None ELSE @]
        BY <1>8 DEF HandleBlockLogout
    <2>3. ASSUME NEW g \in Cards, NEW t \in Ships, NEW b \in Blocks, online'[g] = <<t, b>>
          PROVE  online[g] = <<t, b>> /\ (t = Owner(k) => m # BlkLogout(g))
        <3>1. None # <<t, b>>
            BY LinkAssumption DEF Places
        <3>2. online \in [Cards -> Places \cup {None}]
            BY <1>0 DEF TypeOK
        <3>3. BlkLogout(g).card = g
            BY DEF BlkLogout
        <3>4. online[g] = <<t, b>>
            BY <2>2, <2>3, <3>1, <3>2
        <3>5. m.card = g => t # Owner(k)
            BY <2>2, <2>3, <3>1, <3>2, <3>4
        <3>. QED BY <3>3, <3>4, <3>5
    <2>4. \A j \in Conns : Kept(conn'[j], cn[j]) /\ conn'[j].up = cn[j].up
        BY <2>1 DEF Kept
    <2>. QED BY <1>4, <2>1, <2>3, <2>4
<1>9. CASE m.type = "bclients" /\ HandleClients(k, m, cn)
    <2>1. ships' = ships /\ conn' = cn
        BY <1>9 DEF HandleClients
    <2>2. \A g : m # BlkLogout(g)
        BY <1>9 DEF BlkLogout
    <2>3. \A g \in Cards : \/ online'[g] = online[g]
                           \/ online'[g] = None
                           \/ online'[g] = <<Owner(k), m.block>> /\ g \in m.cards
        BY <1>9 DEF HandleClients
    <2>4. ASSUME NEW g \in Cards, NEW t \in Ships, NEW b \in Blocks, online'[g] = <<t, b>>
          PROVE  online[g] = <<t, b>> \/ (t = Owner(k) /\ Says(m, g, b))
        <3>1. None # <<t, b>>
            BY LinkAssumption DEF Places
        <3>2. CASE g \in m.cards /\ online'[g] = <<Owner(k), m.block>>
            <4>1. t = Owner(k) /\ b = m.block
                BY <2>4, <3>2
            <4>. QED BY <1>9, <3>2, <4>1 DEF Says
        <3>3. CASE online'[g] = online[g]
            BY <2>4, <3>3
        <3>4. online'[g] # None
            BY <2>4, <3>1
        <3>. QED BY <2>3, <3>2, <3>3, <3>4
    <2>5. \A j \in Conns : Kept(conn'[j], cn[j]) /\ conn'[j].up = cn[j].up
        BY <2>1 DEF Kept
    <2>. QED BY <1>4, <2>1, <2>2, <2>4, <2>5
<1>10. CASE m.type = "count" /\ HandleCount(k, m, cn)
    <2>1. ships' = ships /\ online' = online
        BY <1>10 DEF HandleCount, gateVars
    <2>2. \A j \in Conns : Kept(conn'[j], cn[j]) /\ conn'[j].up = cn[j].up
        BY <1>1, <1>10, ToldFields DEF HandleCount
    <2>3. \A g : m # BlkLogout(g)
        BY <1>10 DEF BlkLogout
    <2>. QED BY <1>4, <2>1, <2>2, <2>3
<1>. QED BY <1>5, <1>6, <1>7, <1>8, <1>9, <1>10 DEF GateReads, cn, m

LEMMA GateRestartsGhosts ==
    ASSUME IInv, GhostInv, GateRestarts
    PROVE  GhostInv'
<1>1. /\ ships' = {} /\ UNCHANGED <<sock, made>>
      /\ conn' = [k \in Conns |-> [conn[k] EXCEPT !.known = FALSE, !.up = <<>>]]
    BY DEF GateRestarts, shipVars
<1>2. \A k \in Conns : Kept(conn'[k], conn[k])
    <2>1. \A k \in Conns : conn[k] \in Conn
        BY DEF IInv, TypeOK
    <2>. QED BY <1>1, <2>1 DEF Kept, Conn
<1>3. Sockets'
    <2> SUFFICES ASSUME NEW t \in Ships, sock[t] # None
                 PROVE  /\ sock[t] \in 1 .. made /\ conn'[sock[t]].ship = t
                        /\ conn'[sock[t]].wire = "up"
        BY <1>1 DEF Sockets, Owner
    <2>1. sock[t] \in Conns
        BY DEF IInv, TypeOK
    <2>2. Kept(conn'[sock[t]], conn[sock[t]])
        BY <1>2, <2>1
    <2>. QED BY <2>2 DEF GhostInv, Sockets, Owner, Kept
<1>4. \A t \in Ships : ~Linked(t)'
    BY <1>1 DEF Linked
<1>. QED BY <1>3, <1>4 DEF GhostInv, Silent, Reports, Rows

LEMMA CrashGhosts ==
    ASSUME IInv, GhostInv, NEW s \in Ships, LinkBreaks(s) \/ ShipCrashes(s)
    PROVE  GhostInv'
<1>1. PICK w \in {"closed", "dead"}, n \in 0 .. Len(conn[sock[s]].up) :
          Hangup(s, Cut(sock[s], w, n))
    BY DEF LinkBreaks, ShipCrashes, Break
<1>2. sock[s] # None /\ ships' = ships /\ online' = online
    BY DEF LinkBreaks, ShipCrashes, gateVars
<1>3. ASSUME NEW g \in Cards, NEW t \in Ships, NEW b \in Blocks, t # s, Stands(g, t, b)
      PROVE  Stands(g, t, b)'
    <2>1. overtaken'[t] = overtaken[t]
        BY <1>1, <1>3 DEF Hangup, IInv, TypeOK
    <2>2. ASSUME NEW c \in Clients, Account[c] = g, at[c] = <<t, b>>, named[c]
          PROVE  at'[c] = at[c] /\ named'[c]
        <3>1. CASE LinkBreaks(s)
            BY <2>2, <3>1 DEF LinkBreaks, clientVars
        <3>2. CASE ShipCrashes(s)
            <4>1. at[c] # None /\ at[c][1] # s
                BY <1>3, <2>2, LinkAssumption DEF Places
            <4>2. at'[c] = at[c]
                BY <3>2, <4>1 DEF ShipCrashes
            <4>. QED BY <2>2, <3>2, <4>1, <4>2 DEF ShipCrashes
        <3>. QED BY <3>1, <3>2
    <2>. QED BY <1>3, <2>1, <2>2 DEF Stands, Plays
<1>. QED BY <1>1, <1>2, <1>3, HangupGhosts

LEMMA GhostNext == IInv /\ GhostInv /\ [Next]_vars => GhostInv'
<1>. SUFFICES ASSUME IInv, GhostInv, [Next]_vars PROVE GhostInv'
    OBVIOUS
<1>1. ASSUME NEW s \in Ships, ShipStep(s) \/ LinkBreaks(s) \/ ShipCrashes(s)
      PROVE  GhostInv'
    <2>1. CASE ShipReadsEnd(s)
        <3>1. /\ Hangup(s, Cut(sock[s], "closed", Len(conn[sock[s]].up)))
              /\ sock[s] # None /\ UNCHANGED <<ships, online, at, named>>
            BY <2>1 DEF ShipReadsEnd, Closed, gateVars, clientVars
        <3>2. \A t \in Ships : t # s => overtaken'[t] = overtaken[t]
            BY <3>1 DEF Hangup, IInv, TypeOK
        <3>3. \A g \in Cards, t \in Ships, b \in Blocks :
                 t # s /\ Stands(g, t, b) => Stands(g, t, b)'
            BY <3>1, <3>2 DEF Stands, Plays
        <3>. QED BY <3>1, <3>3, HangupGhosts
    <2>. QED BY <1>1, <2>1, ConnectGhosts, ShipReadsGhosts, ShipListsGhosts, ShipBurstsGhosts,
             CrashGhosts
             DEF ShipStep
<1>2. ASSUME NEW c \in Clients,
             (\E p \in Places : Arrive(c, p)) \/ Announce(c) \/ Leave(c)
      PROVE  GhostInv'
    BY <1>2, ArriveGhosts, AnnounceGhosts, LeaveGhosts
<1>3. ASSUME NEW k \in Conns, GateReads(k) \/ GateSweeps(k)
      PROVE  GhostInv'
    <2>1. CASE GateSweeps(k)
        <3>1. /\ k \in ships /\ Disconnect(k, conn) /\ conn \in [Conns -> Conn]
              /\ UNCHANGED <<sock, hasKey, at, named, overtaken, made>>
              /\ \A j \in Conns : Kept(conn[j], conn[j])
            BY <2>1 DEF GateSweeps, shipVars, burstVars, clientVars, IInv, TypeOK, Kept
        <3>. QED BY <3>1, DisconnectGhosts
    <2>. QED BY <1>3, <2>1, GateReadsGhosts
<1>4. CASE UNCHANGED vars
    <2>1. UNCHANGED <<sock, hasKey, ships, online, made, at, named, overtaken, conn>>
        BY <1>4 DEF vars, shipVars, burstVars, clientVars, gateVars, netVars
    <2>2. \A k \in Conns : Kept(conn'[k], conn[k]) /\ conn'[k].up = conn[k].up
        BY <2>1 DEF Kept
    <2>3. PICK s \in Ships : TRUE
        BY LinkAssumption
    <2>. QED BY <2>1, <2>2, SameGhosts
<1>. QED BY <1>1, <1>2, <1>3, <1>4, GateRestartsGhosts DEF Next

\* A row at a ship that has been heard out, whose earlier connections are
\* swept, is of a player who is there, or of one whose log-out overtook the
\* list of its block (shipgate.c:4320) and has not been logged out since: the
\* log-out of whoever leaves is sent at once, what is sent is read in that
\* order, and a row is made only for what the ship itself has reported.
THEOREM GhostsCorrect == Spec => []NoGhosts
<1>1. Init => GhostInv
    BY DEF Init, GhostInv, Sockets, Silent, Reports, Rows, Linked
<1>2. IInv /\ GhostInv => NoGhosts
    <2> SUFFICES ASSUME IInv, GhostInv, NEW g \in Cards, online[g] # None,
                        Quiet(online[g][1]), Alone(online[g][1])
                 PROVE  \/ \E c \in Clients : Account[c] = g /\ at[c] = online[g] /\ named[c]
                        \/ g \in overtaken[online[g][1]]
        BY DEF NoGhosts
    <2>1. PICK s \in Ships, b \in Blocks : online[g] = <<s, b>>
        BY DEF IInv, TypeOK, Places
    <2>2. Linked(s) /\ Alone(s) /\ conn[sock[s]].up = <<>>
        BY <2>1 DEF Quiet
    <2>3. ~LogoutAfter(<<>>, 0, g)
        BY DEF LogoutAfter
    <2>4. Stands(g, s, b)
        BY <2>1, <2>2, <2>3 DEF GhostInv, Rows
    <2>. QED BY <2>1, <2>4 DEF Stands, Plays
<1>. QED BY <1>1, <1>2, InitCorrect, NextKeeps, GhostNext, PTL DEF Spec

-----------------------------------------------------------------------------
(* Menus.                                                                   *)

LEMMA MenuAfter ==
    ASSUME NEW fl \in SUBSET Ships, NEW cs, {Menu[t] : t \in fl} \subseteq cs,
           NEW m \in ToShip, m.type = "status"
    PROVE  {Menu[t] : t \in FleetAfter(fl, m)} \subseteq CodesAfter(cs, fl, m)
<1>1. CASE m.up
    BY <1>1 DEF FleetAfter, CodesAfter
<1>2. CASE ~m.up /\ m.ship \in fl /\ \A t \in fl \ {m.ship} : Menu[t] # Menu[m.ship]
    BY <1>2 DEF FleetAfter, CodesAfter
<1>3. CASE ~m.up /\ ~(m.ship \in fl /\ \A t \in fl \ {m.ship} : Menu[t] # Menu[m.ship])
    BY <1>3 DEF FleetAfter, CodesAfter
<1>. QED BY <1>1, <1>2, <1>3

LEMMA MenuNext == IInv /\ MenuReaches /\ [Next]_vars => MenuReaches'
<1>. SUFFICES ASSUME IInv, MenuReaches, [Next]_vars, NEW t \in Ships
              PROVE  {Menu[u] : u \in fleet'[t]} \subseteq codes'[t]
    BY DEF MenuReaches
<1>0. /\ fleet \in [Ships -> SUBSET Ships] /\ codes \in [Ships -> SUBSET Codes]
      /\ {Menu[u] : u \in fleet[t]} \subseteq codes[t]
    BY DEF IInv, TypeOK, MenuReaches
<1>1. ASSUME UNCHANGED <<fleet, codes>>
      PROVE  {Menu[u] : u \in fleet'[t]} \subseteq codes'[t]
    BY <1>0, <1>1
<1>2. ASSUME NEW s \in Ships, fleet' = [fleet EXCEPT ![s] = {}],
             \A u \in Ships : u # s => codes'[u] = codes[u]
      PROVE  {Menu[u] : u \in fleet'[t]} \subseteq codes'[t]
    BY <1>0, <1>2
<1>3. ASSUME NEW s \in Ships, ShipReads(s)
      PROVE  {Menu[u] : u \in fleet'[t]} \subseteq codes'[t]
    <2>. DEFINE m == Head(conn[sock[s]].down)
    <2>1. m \in ToShip
        <3>1. sock[s] \in Conns /\ conn[sock[s]].down # <<>>
            BY <1>3 DEF ShipReads, IInv, TypeOK
        <3>. QED BY <3>1, ReadSame DEF IInv
    <2>2. CASE m.type = "status" /\ hasKey[s]
               /\ fleet' = [fleet EXCEPT ![s] = FleetAfter(@, m)]
               /\ codes' = [codes EXCEPT ![s] = CodesAfter(@, fleet[s], m)]
        <3>1. CASE t = s
            <4>1. fleet'[t] = FleetAfter(fleet[t], m) /\ codes'[t] = CodesAfter(codes[t], fleet[t], m)
                BY <1>0, <2>2, <3>1
            <4>. QED BY <1>0, <2>1, <2>2, <4>1, MenuAfter
        <3>2. CASE t # s
            BY <1>0, <2>2, <3>2
        <3>. QED BY <3>1, <3>2
    <2>3. CASE UNCHANGED <<fleet, codes>>
        BY <1>1, <2>3
    <2>4. CASE Hangup(s, Closed(sock[s])) /\ UNCHANGED codes
        BY <1>2, <2>4 DEF Hangup
    <2>. HIDE DEF m
    <2>. QED BY <1>3, <2>2, <2>3, <2>4 DEF ShipReads, shipVars, m
<1>4. ASSUME NEW s \in Ships, ShipReadsEnd(s) \/ LinkBreaks(s) \/ ShipCrashes(s)
      PROVE  {Menu[u] : u \in fleet'[t]} \subseteq codes'[t]
    <2>1. fleet' = [fleet EXCEPT ![s] = {}]
        BY <1>4 DEF ShipReadsEnd, LinkBreaks, ShipCrashes, Break, Hangup
    <2>2. \A u \in Ships : u # s => codes'[u] = codes[u]
        BY <1>0, <1>4 DEF ShipReadsEnd, LinkBreaks, ShipCrashes
    <2>. QED BY <1>2, <2>1, <2>2
<1>5. ASSUME NEW s \in Ships, Connect(s) \/ ShipLists(s) \/ ShipBursts(s)
      PROVE  UNCHANGED <<fleet, codes>>
    BY <1>5 DEF Connect, ShipLists, ShipBursts
<1>6. ASSUME NEW c \in Clients,
             (\E p \in Places : Arrive(c, p)) \/ Announce(c) \/ Leave(c)
      PROVE  UNCHANGED <<fleet, codes>>
    BY <1>6 DEF Arrive, Announce, Leave, shipVars
<1>7. ASSUME NEW k \in Conns, GateReads(k) \/ GateSweeps(k)
      PROVE  UNCHANGED <<fleet, codes>>
    BY <1>7 DEF GateReads, GateSweeps, shipVars
<1>8. CASE GateRestarts \/ UNCHANGED vars
    BY <1>1, <1>8 DEF GateRestarts, shipVars, vars
<1>. QED BY <1>1, <1>3, <1>4, <1>5, <1>6, <1>7, <1>8 DEF Next, ShipStep

\* A ship that players can be sent to is in a menu of its own, whatever menus
\* the ships share and in whatever order they come and go (handle_sstatus).
THEOREM MenusCorrect == Spec => []MenuReaches
<1>1. Init => MenuReaches
    BY DEF Init, MenuReaches
<1>. QED BY <1>1, InitCorrect, NextKeeps, MenuNext, PTL DEF Spec

-----------------------------------------------------------------------------
(* What a ship knows of the others.  What the gate has told it is true once *)
(* it has read all that is on its way.                                      *)

Here(s) == Status(s, TRUE)
Gone(s) == Status(s, FALSE)

\* A ship that has read the first n packets of q has its key.
Keyed(key, q, n) == key \/ \E a \in 1 .. n : q[a] = Accepted

\* ... and has s among the ships it knows; fl are those it knew before.
Knows(key, fl, q, n, s) ==
    \/ s \in fl /\ \A m \in 1 .. n : q[m] # Gone(s)
    \/ \E j \in 1 .. n : /\ q[j] = Here(s)
                         /\ Keyed(key, q, j)
                         /\ \A m \in (j + 1) .. n : q[m] # Gone(s)

\* It gets its key if it has logged in, and then knows the ships in ls.
Hears(key, fl, q, logged, ls) ==
    /\ logged <=> Keyed(key, q, Len(q))
    /\ logged => \A t \in Ships : t \in ls <=> Knows(key, fl, q, Len(q), t)

\* It knows a ship when it comes to a count of it.
InOrder(key, fl, q) ==
    \A i \in 1 .. Len(q), t \in Ships :
        q[i] = Count(t) /\ Keyed(key, q, i - 1) => Knows(key, fl, q, i - 1, t)

\* Without lost links a ship has one connection at the gate, its own or one
\* that it has closed and replaced by none.
Single ==
    \A k \in ships :
        /\ conn[k].wire \in {"up", "closed"}
        /\ sock[Owner(k)] = IF conn[k].wire = "up" THEN k ELSE None
        /\ \A j \in ships : Owner(j) = Owner(k) => j = k

\* Something is said that is not "login".
Speaks(q) == \E i \in 1 .. Len(q) : q[i] # Login

\* The connections of the listed ships are those that have logged in, and only
\* these say more than "login".
Logins ==
    \A k \in ships : /\ conn[k].known <=> Owner(k) \in listed
                     /\ Speaks(conn[k].up) => conn[k].known

View ==
    \A s \in Ships : Linked(s) =>
        Hears(hasKey[s], fleet[s], conn[sock[s]].down, conn[sock[s]].known, listed)

Counts ==
    \A s \in Ships : sock[s] # None =>
        InOrder(hasKey[s], fleet[s], conn[sock[s]].down)

\* A ship without a connection has no key, and without a key no fleet.
Keyless == \A s \in Ships : /\ sock[s] = None => ~hasKey[s]
                            /\ ~hasKey[s] => fleet[s] = {}

HeardInv == Keyless /\ (~lost => Single /\ Logins /\ View /\ Counts)


LEMMA NewsIs ==
    \A s : /\ Here(s).type = "status" /\ Here(s).ship = s /\ Here(s).up = TRUE
           /\ Gone(s).type = "status" /\ Gone(s).ship = s /\ Gone(s).up = FALSE
BY DEF Here, Gone, Status

LEMMA NewsApart ==
    \A s, t : /\ Here(s) # Gone(t)
              /\ Here(s) = Here(t) => s = t
              /\ Gone(s) = Gone(t) => s = t
              /\ Here(s) # Accepted /\ Gone(s) # Accepted
              /\ Here(s) # Count(t) /\ Gone(s) # Count(t)
BY DEF Here, Gone, Status, Accepted, Count

LEMMA CountApart ==
    /\ \A s, t : Count(s) = Count(t) => s = t
    /\ \A s : Count(s) # Accepted
BY DEF Accepted, Count

\* Packets that a ship learns nothing from.
LEMMA OthersApart ==
    \A m : m.type \in {"welcome", "refused", "bloginerr"} =>
        m # Accepted /\ \A t : m # Count(t) /\ m # Here(t) /\ m # Gone(t)
BY DEF Accepted, Count, Here, Gone, Status

LEMMA NewsForm ==
    ASSUME NEW m \in ToShip, m.type = "status"
    PROVE  \E x \in Ships : m = Here(x) \/ m = Gone(x)
BY DEF ToShip, Welcome, Accepted, Refused, Count, Status, BLoginErr, Here, Gone

\* One packet more.
LEMMA NextKnows ==
    ASSUME NEW key \in BOOLEAN, NEW fl, NEW q, NEW n \in Nat
    PROVE  /\ Keyed(key, q, n + 1) <=> Keyed(key, q, n) \/ q[n + 1] = Accepted
           /\ \A s : Knows(key, fl, q, n + 1, s) <=>
                \/ q[n + 1] = Here(s) /\ Keyed(key, q, n + 1)
                \/ Knows(key, fl, q, n, s) /\ q[n + 1] # Gone(s)
<1>1. \A a : a \in 1 .. n + 1 <=> a \in 1 .. n \/ a = n + 1
    OBVIOUS
<1>2. \A j \in 1 .. n : \A m : m \in (j + 1) .. n + 1 <=> m \in (j + 1) .. n \/ m = n + 1
    OBVIOUS
<1>3. \A m : m \notin ((n + 1) + 1) .. n + 1
    OBVIOUS
<1>4. Keyed(key, q, n + 1) <=> Keyed(key, q, n) \/ q[n + 1] = Accepted
    BY <1>1 DEF Keyed
<1>5. ASSUME NEW s
      PROVE  Knows(key, fl, q, n + 1, s) <=>
                \/ q[n + 1] = Here(s) /\ Keyed(key, q, n + 1)
                \/ Knows(key, fl, q, n, s) /\ q[n + 1] # Gone(s)
    <2>. DEFINE K(j) == Keyed(key, q, j)
                T(j) == q[j] = Here(s)
                F(j) == q[j] = Gone(s)
    <2>1. T(n + 1) => ~F(n + 1)
        BY NewsApart
    <2>2. Knows(key, fl, q, n + 1, s) <=>
             \/ s \in fl /\ \A m \in 1 .. n + 1 : ~F(m)
             \/ \E j \in 1 .. n + 1 : T(j) /\ K(j) /\ \A m \in (j + 1) .. n + 1 : ~F(m)
        BY DEF Knows
    <2>3. Knows(key, fl, q, n, s) <=>
             \/ s \in fl /\ \A m \in 1 .. n : ~F(m)
             \/ \E j \in 1 .. n : T(j) /\ K(j) /\ \A m \in (j + 1) .. n : ~F(m)
        BY DEF Knows
    <2>. HIDE DEF K, T, F
    <2>4. (\A m \in 1 .. n + 1 : ~F(m)) <=> (\A m \in 1 .. n : ~F(m)) /\ ~F(n + 1)
        BY <1>1
    <2>5. \A j \in 1 .. n : (\A m \in (j + 1) .. n + 1 : ~F(m)) <=>
                            (\A m \in (j + 1) .. n : ~F(m)) /\ ~F(n + 1)
        BY <1>2
    <2>6. (\E j \in 1 .. n + 1 : T(j) /\ K(j) /\ \A m \in (j + 1) .. n + 1 : ~F(m)) <=>
             \/ T(n + 1) /\ K(n + 1)
             \/ (\E j \in 1 .. n : T(j) /\ K(j) /\ \A m \in (j + 1) .. n : ~F(m)) /\ ~F(n + 1)
        BY <1>1, <1>3, <2>5
    <2>7. Knows(key, fl, q, n + 1, s) <=>
             (T(n + 1) /\ K(n + 1)) \/ (Knows(key, fl, q, n, s) /\ ~F(n + 1))
        BY <2>2, <2>3, <2>4, <2>6
    <2>. QED BY <2>7 DEF T, K, F
<1>. QED BY <1>4, <1>5

\* Two queues with the same beginning.
LEMMA SameKnows ==
    ASSUME NEW key, NEW fl, NEW q, NEW r, NEW n \in Nat,
           \A i \in 1 .. n : r[i] = q[i]
    PROVE  /\ Keyed(key, r, n) <=> Keyed(key, q, n)
           /\ \A s : Knows(key, fl, r, n, s) <=> Knows(key, fl, q, n, s)
<1>1. \A j \in 0 .. n : Keyed(key, r, j) <=> Keyed(key, q, j)
    BY DEF Keyed
<1>2. ASSUME NEW s
      PROVE  Knows(key, fl, r, n, s) <=> Knows(key, fl, q, n, s)
    <2>1. (\A m \in 1 .. n : r[m] # Gone(s)) <=> (\A m \in 1 .. n : q[m] # Gone(s))
        OBVIOUS
    <2>2. ASSUME NEW j \in 1 .. n
          PROVE  /\ r[j] = q[j] /\ (Keyed(key, r, j) <=> Keyed(key, q, j))
                 /\ (\A m \in (j + 1) .. n : r[m] # Gone(s)) <=>
                    (\A m \in (j + 1) .. n : q[m] # Gone(s))
        <3>1. j \in 0 .. n /\ \A m \in (j + 1) .. n : m \in 1 .. n
            OBVIOUS
        <3>. QED BY <1>1, <3>1
    <2>. QED BY <2>1, <2>2 DEF Knows
<1>. QED BY <1>1, <1>2

\* What the gate adds to what it has told a ship.
LEMMA AppendHears ==
    ASSUME NEW key \in BOOLEAN, NEW fl, NEW logged \in BOOLEAN, NEW ls, NEW now,
           NEW q \in Seq(ToShip), NEW m \in ToShip, m # Accepted,
           Hears(key, fl, q, logged, ls), InOrder(key, fl, q),
           \A t \in Ships : t \in now <=>
               m = Here(t) \/ (t \in ls /\ m # Gone(t)),
           \A t \in Ships : m = Count(t) /\ logged => t \in ls
    PROVE  Hears(key, fl, q \o <<m>>, logged, now) /\ InOrder(key, fl, q \o <<m>>)
<1>1. PICK r \in Seq(ToShip) :
         /\ r = q \o <<m>> /\ Len(r) = Len(q) + 1 /\ Len(q) \in Nat
         /\ r[Len(q) + 1] = m /\ \A i \in 1 .. Len(q) : r[i] = q[i]
    <2>1. <<m>> \in Seq(ToShip) /\ Len(<<m>>) = 1 /\ <<m>>[1] = m
        OBVIOUS
    <2>2. PICK w \in Seq(ToShip) : w = <<m>> /\ Len(w) = 1 /\ w[1] = m
        BY <2>1
    <2>3. PICK r : r = q \o w
        OBVIOUS
    <2>4. /\ r \in Seq(ToShip) /\ Len(r) = Len(q) + 1 /\ Len(q) \in Nat
          /\ \A i \in 1 .. Len(q) + 1 : r[i] = IF i =< Len(q) THEN q[i] ELSE w[i - Len(q)]
        BY <2>2, <2>3, ConcatProperties, LenProperties
    <2>5. /\ Len(q) + 1 \in 1 .. Len(q) + 1 /\ ~(Len(q) + 1 =< Len(q))
          /\ (Len(q) + 1) - Len(q) = 1
        BY <2>4
    <2>6. r[Len(q) + 1] = m
        BY <2>2, <2>4, <2>5
    <2>7. \A i \in 1 .. Len(q) : i \in 1 .. Len(q) + 1 /\ i =< Len(q)
        BY <2>4
    <2>. QED BY <2>2, <2>3, <2>4, <2>6, <2>7
<1>2. \A i \in 0 .. Len(q) : /\ Keyed(key, r, i) <=> Keyed(key, q, i)
                             /\ \A t : Knows(key, fl, r, i, t) <=> Knows(key, fl, q, i, t)
    <2> SUFFICES ASSUME NEW i \in 0 .. Len(q)
                 PROVE  /\ Keyed(key, r, i) <=> Keyed(key, q, i)
                        /\ \A t : Knows(key, fl, r, i, t) <=> Knows(key, fl, q, i, t)
        OBVIOUS
    <2>1. i \in Nat /\ \A j \in 1 .. i : r[j] = q[j]
        BY <1>1
    <2>. QED BY <2>1, SameKnows
<1>3. Len(q) \in 0 .. Len(q)
    BY <1>1
<1>4. Keyed(key, r, Len(q) + 1) <=> Keyed(key, q, Len(q))
    BY <1>1, <1>2, <1>3, NextKnows
<1>5. \A t : Knows(key, fl, r, Len(q) + 1, t) <=>
                \/ m = Here(t) /\ Keyed(key, q, Len(q))
                \/ Knows(key, fl, q, Len(q), t) /\ m # Gone(t)
    <2>1. \A t : Knows(key, fl, r, Len(q) + 1, t) <=>
             \/ r[Len(q) + 1] = Here(t) /\ Keyed(key, r, Len(q) + 1)
             \/ Knows(key, fl, r, Len(q), t) /\ r[Len(q) + 1] # Gone(t)
        BY <1>1, NextKnows
    <2>. QED BY <1>1, <1>2, <1>3, <1>4, <2>1
<1>6. Hears(key, fl, r, logged, now)
    BY <1>1, <1>4, <1>5 DEF Hears
<1>7. InOrder(key, fl, r)
    <2> SUFFICES ASSUME NEW i \in 1 .. Len(q) + 1, NEW t \in Ships,
                        r[i] = Count(t), Keyed(key, r, i - 1)
                 PROVE  Knows(key, fl, r, i - 1, t)
        BY <1>1 DEF InOrder
    <2>1. i - 1 \in 0 .. Len(q) /\ Keyed(key, q, i - 1)
        BY <1>1, <1>2
    <2>2. CASE i \in 1 .. Len(q)
        <3>1. Knows(key, fl, q, i - 1, t)
            BY <1>1, <2>1, <2>2 DEF InOrder
        <3>. QED BY <1>2, <2>1, <3>1
    <2>3. CASE i = Len(q) + 1
        <3>1. i - 1 = Len(q) /\ m = Count(t)
            BY <1>1, <2>3
        <3>2. logged /\ t \in ls
            BY <2>1, <3>1 DEF Hears
        <3>3. Knows(key, fl, q, i - 1, t)
            BY <3>1, <3>2 DEF Hears
        <3>. QED BY <1>2, <2>1, <3>3
    <2>. QED BY <1>1, <2>2, <2>3
<1>. QED BY <1>1, <1>6, <1>7

\* The news of its login.
LEMMA NewsHears ==
    ASSUME NEW key \in BOOLEAN, NEW q \in Seq(ToShip), NEW news \in Seq(ToShip), NEW now,
           ~Keyed(key, q, Len(q)), InOrder(key, {}, q),
           Len(news) > 0, news[1] = Accepted,
           \A i \in 2 .. Len(news) : \E t \in Ships : news[i] = Here(t),
           \A t \in Ships : t \in now <=> \E i \in 2 .. Len(news) : news[i] = Here(t)
    PROVE  Hears(key, {}, q \o news, TRUE, now) /\ InOrder(key, {}, q \o news)
<1>1. PICK r \in Seq(ToShip) :
         /\ r = q \o news /\ Len(r) = Len(q) + Len(news) /\ Len(q) \in Nat
         /\ Len(news) \in Nat /\ \A i \in 1 .. Len(q) : r[i] = q[i]
         /\ \A i \in 1 .. Len(news) : r[Len(q) + i] = news[i]
    <2>1. PICK r : r = q \o news
        OBVIOUS
    <2>2. /\ r \in Seq(ToShip) /\ Len(r) = Len(q) + Len(news) /\ Len(q) \in Nat
          /\ Len(news) \in Nat
          /\ \A i \in 1 .. Len(q) + Len(news) :
                r[i] = IF i =< Len(q) THEN q[i] ELSE news[i - Len(q)]
        BY <2>1, ConcatProperties, LenProperties
    <2>3. ASSUME NEW i \in 1 .. Len(news)
          PROVE  r[Len(q) + i] = news[i]
        <3>1. /\ Len(q) + i \in 1 .. Len(q) + Len(news) /\ ~(Len(q) + i =< Len(q))
              /\ (Len(q) + i) - Len(q) = i
            BY <2>2
        <3>. QED BY <2>2, <3>1
    <2>4. \A i \in 1 .. Len(q) : i \in 1 .. Len(q) + Len(news) /\ i =< Len(q)
        BY <2>2
    <2>. QED BY <2>1, <2>2, <2>3, <2>4
<1>. DEFINE a == Len(q) + 1
<1>2. a \in 1 .. Len(r) /\ r[a] = Accepted /\ ~key
    BY <1>1 DEF Keyed
<1>3. ASSUME NEW n \in a .. Len(r)
      PROVE  Keyed(key, r, n)
    <2>1. a \in 1 .. n
        BY <1>1
    <2>. HIDE DEF a
    <2>. QED BY <1>2, <2>1 DEF Keyed
<1>4. \A i \in 1 .. Len(q) : r[i] # Accepted
    BY <1>1 DEF Keyed
<1>5. ASSUME NEW i \in 1 .. Len(r), i > a
      PROVE  /\ i - Len(q) \in 2 .. Len(news) /\ r[i] = news[i - Len(q)]
             /\ \E u \in Ships : r[i] = Here(u)
    <2>1. i - Len(q) \in 2 .. Len(news) /\ Len(q) + (i - Len(q)) = i
        BY <1>1, <1>5
    <2>2. r[i] = news[i - Len(q)]
        BY <1>1, <2>1
    <2>. QED BY <2>1, <2>2
<1>6. Hears(key, {}, r, TRUE, now)
    <2>1. Keyed(key, r, Len(r))
        BY <1>1, <1>2, <1>3
    <2>2. ASSUME NEW t \in Ships, t \in now
          PROVE  Knows(key, {}, r, Len(r), t)
        <3>1. PICK i \in 2 .. Len(news) : news[i] = Here(t)
            BY <2>2
        <3>2. Len(q) + i \in 1 .. Len(r) /\ r[Len(q) + i] = Here(t)
              /\ Len(q) + i \in a .. Len(r)
            <4>1. i \in 1 .. Len(news)
                BY <1>1
            <4>. QED BY <1>1, <3>1, <4>1
        <3>3. ASSUME NEW m \in (Len(q) + i + 1) .. Len(r)
              PROVE  r[m] # Gone(t)
            <4>1. m \in 1 .. Len(r) /\ m > a
                BY <1>1, <3>1
            <4>. QED BY <1>5, <4>1, NewsApart, CountApart
        <3>. QED BY <1>3, <3>2, <3>3 DEF Knows
    <2>3. ASSUME NEW t \in Ships, Knows(key, {}, r, Len(r), t)
          PROVE  t \in now
        <3>1. PICK j \in 1 .. Len(r) : r[j] = Here(t) /\ Keyed(key, r, j)
            BY <2>3 DEF Knows
        <3>2. j > a
            <4>1. PICK c \in 1 .. j : r[c] = Accepted
                BY <1>2, <3>1 DEF Keyed
            <4>2. c \notin 1 .. Len(q)
                BY <1>4, <4>1
            <4>3. j # a
                BY <1>2, <3>1, NewsApart, CountApart
            <4>. QED BY <1>1, <4>2, <4>3
        <3>. QED BY <1>5, <3>1, <3>2
    <2>. QED BY <2>1, <2>2, <2>3 DEF Hears
<1>7. InOrder(key, {}, r)
    <2> SUFFICES ASSUME NEW i \in 1 .. Len(r), NEW t \in Ships,
                        r[i] = Count(t), Keyed(key, r, i - 1)
                 PROVE  FALSE
        BY DEF InOrder
    <2>1. i < a
        <3>1. i # a
            BY <1>2, CountApart
        <3>2. ASSUME i > a
              PROVE  FALSE
            <4>1. PICK u \in Ships : r[i] = Here(u)
                BY <1>5, <3>2
            <4>2. Here(u) # Count(t)
                BY NewsApart
            <4>. QED BY <4>1, <4>2
        <3>. QED BY <1>1, <3>1, <3>2
    <2>. QED BY <1>1, <1>2, <1>4, <2>1 DEF Keyed
<1>. QED BY <1>1, <1>6, <1>7

\* What a ship knows after n + 1 packets is what it knows after n, when it has
\* read the first: key and fl are before, kept and met are after.
LEMMA ReadHears ==
    ASSUME NEW key \in BOOLEAN, NEW kept \in BOOLEAN, NEW fl \in SUBSET Ships, NEW met,
           NEW logged \in BOOLEAN, NEW ls, NEW q \in Seq(ToShip),
           q # <<>>, ~key => fl = {},
           kept <=> key \/ Head(q) = Accepted,
           met = IF key /\ Head(q).type = "status" THEN FleetAfter(fl, Head(q)) ELSE fl
    PROVE  /\ Hears(key, fl, q, logged, ls) => Hears(kept, met, Tail(q), logged, ls)
           /\ InOrder(key, fl, q) => InOrder(kept, met, Tail(q))
<1>1. PICK r \in Seq(ToShip), m \in ToShip :
         /\ r = Tail(q) /\ Len(r) = Len(q) - 1 /\ Len(q) \in Nat \ {0}
         /\ m = Head(q) /\ m = q[1] /\ \A i \in 1 .. Len(r) : r[i] = q[i + 1]
    <2>1. /\ Tail(q) \in Seq(ToShip) /\ Len(Tail(q)) = Len(q) - 1 /\ Head(q) = q[1]
          /\ Len(q) \in Nat \ {0} /\ \A i \in 1 .. Len(q) - 1 : Tail(q)[i] = q[i + 1]
        BY EmptySeq, HeadTailProperties
    <2>2. PICK r : r = Tail(q)
        OBVIOUS
    <2>3. Head(q) \in ToShip
        OBVIOUS
    <2>. QED BY <2>1, <2>2, <2>3
<1>2. \A s \in Ships : /\ m = Here(s) /\ key => s \in met
                       /\ s \in fl /\ m # Gone(s) => s \in met
                       /\ s \in met => /\ s \in fl \/ (m = Here(s) /\ key)
                                       /\ m # Gone(s) \/ ~key
    <2>2. CASE key /\ m.type = "status"
        <3>1. met = FleetAfter(fl, m)
            BY <1>1, <2>2
        <3>2. PICK x \in Ships : m = Here(x) \/ m = Gone(x)
            BY <2>2, NewsForm
        <3>3. CASE m = Here(x)
            <4>1. m.up = TRUE /\ m.ship = x
                BY <3>3, NewsIs
            <4>2. met = fl \cup {x}
                BY <3>1, <4>1 DEF FleetAfter
            <4>3. \A s : m # Gone(s) /\ (m = Here(s) => s = x)
                BY <3>3, NewsApart
            <4>. QED BY <2>2, <3>3, <4>2, <4>3
        <3>4. CASE m = Gone(x)
            <4>1. m.up = FALSE /\ m.ship = x
                BY <3>4, NewsIs
            <4>2. met = fl \ {x}
                BY <3>1, <4>1 DEF FleetAfter
            <4>3. \A s : m # Here(s) /\ (m = Gone(s) => s = x)
                BY <3>4, NewsApart
            <4>. QED BY <2>2, <3>4, <4>2, <4>3
        <3>. QED BY <3>2, <3>3, <3>4
    <2>3. CASE ~(key /\ m.type = "status")
        <3>1. met = fl
            BY <1>1, <2>3
        <3>2. key => \A s : m # Here(s) /\ m # Gone(s)
            BY <2>3, NewsIs
        <3>. QED BY <3>1, <3>2
    <2>. QED BY <2>2, <2>3
<1>3. ASSUME NEW n \in 0 .. Len(r)
      PROVE  Keyed(kept, r, n) <=> Keyed(key, q, n + 1)
    <2>1. ASSUME Keyed(kept, r, n)
          PROVE  Keyed(key, q, n + 1)
        <3>1. CASE key
            BY <3>1 DEF Keyed
        <3>2. CASE m = Accepted
            <4>1. 1 \in 1 .. n + 1 /\ q[1] = Accepted
                BY <1>1, <3>2
            <4>. QED BY <4>1 DEF Keyed
        <3>3. CASE ~kept
            <4>1. PICK a \in 1 .. n : r[a] = Accepted
                BY <2>1, <3>3 DEF Keyed
            <4>2. a + 1 \in 1 .. n + 1 /\ q[a + 1] = Accepted
                BY <1>1, <4>1
            <4>. QED BY <4>2 DEF Keyed
        <3>. QED BY <1>1, <3>1, <3>2, <3>3
    <2>2. ASSUME Keyed(key, q, n + 1)
          PROVE  Keyed(kept, r, n)
        <3>1. CASE kept
            BY <3>1 DEF Keyed
        <3>2. CASE ~kept
            <4>1. PICK a \in 1 .. n + 1 : q[a] = Accepted
                BY <2>2, <3>2 DEF Keyed
            <4>2. a - 1 \in 1 .. n /\ r[a - 1] = Accepted
                BY <1>1, <3>2, <4>1
            <4>. QED BY <4>2 DEF Keyed
        <3>. QED BY <3>1, <3>2
    <2>. QED BY <2>1, <2>2
<1>4. ASSUME NEW n \in 0 .. Len(r), NEW s \in Ships
      PROVE  Knows(kept, met, r, n, s) <=> Knows(key, fl, q, n + 1, s)
    <2>1. ASSUME Knows(kept, met, r, n, s)
          PROVE  Knows(key, fl, q, n + 1, s)
        <3>1. CASE s \in met /\ \A i \in 1 .. n : r[i] # Gone(s)
            <4>1. \A i \in 2 .. n + 1 : q[i] # Gone(s)
                <5> SUFFICES ASSUME NEW i \in 2 .. n + 1 PROVE q[i] # Gone(s)
                    OBVIOUS
                <5>1. i - 1 \in 1 .. n /\ r[i - 1] = q[i]
                    BY <1>1
                <5>. QED BY <3>1, <5>1
            <4>2. CASE m = Here(s) /\ key
                <5>1. 1 \in 1 .. n + 1 /\ q[1] = Here(s) /\ Keyed(key, q, 1)
                    BY <1>1, <4>2 DEF Keyed
                <5>. QED BY <4>1, <5>1 DEF Knows
            <4>3. CASE s \in fl /\ m # Gone(s)
                <5>1. \A i \in 1 .. n + 1 : q[i] # Gone(s)
                    <6>1. \A i \in 1 .. n + 1 : i = 1 \/ i \in 2 .. n + 1
                        OBVIOUS
                    <6>. QED BY <1>1, <4>1, <4>3, <6>1
                <5>. QED BY <4>3, <5>1 DEF Knows
            <4>. QED BY <1>2, <3>1, <4>2, <4>3
        <3>2. ASSUME NEW j \in 1 .. n, r[j] = Here(s), Keyed(kept, r, j),
                     \A i \in (j + 1) .. n : r[i] # Gone(s)
              PROVE  Knows(key, fl, q, n + 1, s)
            <4>1. j + 1 \in 1 .. n + 1 /\ q[j + 1] = Here(s) /\ j \in 0 .. Len(r)
                BY <1>1, <3>2
            <4>2. Keyed(key, q, j + 1)
                BY <1>3, <3>2, <4>1
            <4>3. ASSUME NEW i \in ((j + 1) + 1) .. n + 1
                  PROVE  q[i] # Gone(s)
                <5>1. i - 1 \in (j + 1) .. n /\ r[i - 1] = q[i]
                    BY <1>1
                <5>. QED BY <3>2, <5>1
            <4>. QED BY <4>1, <4>2, <4>3 DEF Knows
        <3>. QED BY <2>1, <3>1, <3>2 DEF Knows
    <2>2. ASSUME Knows(key, fl, q, n + 1, s)
          PROVE  Knows(kept, met, r, n, s)
        <3>1. CASE s \in fl /\ \A i \in 1 .. n + 1 : q[i] # Gone(s)
            <4>1. s \in met
                <5>1. 1 \in 1 .. n + 1
                    OBVIOUS
                <5>. QED BY <1>1, <1>2, <3>1, <5>1
            <4>2. \A i \in 1 .. n : r[i] # Gone(s)
                BY <1>1, <3>1
            <4>. QED BY <4>1, <4>2 DEF Knows
        <3>2. ASSUME NEW j \in 1 .. n + 1, q[j] = Here(s), Keyed(key, q, j),
                     \A i \in (j + 1) .. n + 1 : q[i] # Gone(s)
              PROVE  Knows(kept, met, r, n, s)
            <4>1. \A i \in j .. n : i \in 1 .. n => r[i] # Gone(s)
                BY <1>1, <3>2
            <4>2. CASE j = 1
                <5>1. key
                    <6>1. \A a \in 1 .. 1 : q[a] # Accepted
                        BY <3>2, <4>2, NewsApart, CountApart
                    <6>. QED BY <3>2, <4>2, <6>1 DEF Keyed
                <5>2. s \in met
                    BY <1>1, <1>2, <3>2, <4>2, <5>1
                <5>. QED BY <4>1, <4>2, <5>2 DEF Knows
            <4>3. CASE j # 1
                <5>1. /\ j - 1 \in 1 .. n /\ j - 1 \in 0 .. Len(r) /\ (j - 1) + 1 = j
                      /\ r[j - 1] = Here(s)
                    BY <1>1, <3>2, <4>3
                <5>2. Keyed(kept, r, j - 1)
                    BY <1>3, <3>2, <5>1
                <5>3. \A i \in ((j - 1) + 1) .. n : r[i] # Gone(s)
                    BY <4>1, <4>3
                <5>. QED BY <5>1, <5>2, <5>3 DEF Knows
            <4>. QED BY <4>2, <4>3
        <3>. QED BY <2>2, <3>1, <3>2 DEF Knows
    <2>. QED BY <2>1, <2>2
<1>5. Len(r) \in 0 .. Len(r) /\ Len(r) + 1 = Len(q)
    BY <1>1
<1>6. Hears(key, fl, q, logged, ls) => Hears(kept, met, r, logged, ls)
    BY <1>3, <1>4, <1>5 DEF Hears
<1>7. ASSUME InOrder(key, fl, q)
      PROVE  InOrder(kept, met, r)
    <2> SUFFICES ASSUME NEW i \in 1 .. Len(r), NEW t \in Ships,
                        r[i] = Count(t), Keyed(kept, r, i - 1)
                 PROVE  Knows(kept, met, r, i - 1, t)
        BY DEF InOrder
    <2>1. /\ i - 1 \in 0 .. Len(r) /\ (i - 1) + 1 = i /\ i + 1 \in 1 .. Len(q)
          /\ (i + 1) - 1 = i /\ q[i + 1] = Count(t)
        BY <1>1
    <2>2. Keyed(key, q, i)
        BY <1>3, <2>1
    <2>3. Knows(key, fl, q, i, t)
        BY <1>7, <2>1, <2>2 DEF InOrder
    <2>. QED BY <1>4, <2>1, <2>3
<1>. QED BY <1>1, <1>6, <1>7

\* The length of a sequence is the end of its domain.
LEMMA LenIs ==
    ASSUME NEW T, NEW f \in Seq(T), NEW n \in Nat, DOMAIN f = 1 .. n
    PROVE  Len(f) = n
<1>1. PICK p \in Nat : p = Len(f) /\ DOMAIN f = 1 .. p
    BY LenProperties
<1>2. \A i \in Nat : i \in 1 .. p <=> i \in 1 .. n
    BY <1>1
<1>3. p =< n
    <2>1. p = 0 \/ p \in 1 .. p
        OBVIOUS
    <2>. QED BY <1>2, <2>1
<1>4. n =< p
    <2>1. n = 0 \/ n \in 1 .. n
        OBVIOUS
    <2>. QED BY <1>2, <2>1
<1>. QED BY <1>1, <1>3, <1>4

\* The list of a finite set has all its members.
LEMMA ListAll ==
    ASSUME NEW S, IsFiniteSet(S)
    PROVE  /\ Len(SetToSeq(S)) \in Nat /\ DOMAIN SetToSeq(S) = 1 .. Len(SetToSeq(S))
           /\ \A i \in 1 .. Len(SetToSeq(S)) : SetToSeq(S)[i] \in S
           /\ \A x \in S : \E i \in 1 .. Len(SetToSeq(S)) : SetToSeq(S)[i] = x
<1>. DEFINE n == Cardinality(S)
<1>1. ExistsBijection(1 .. n, S) /\ n \in Nat
    BY FS_CardinalityType
<1>2. \E f \in [1 .. n -> S] : IsInjective(f)
    BY <1>1 DEF ExistsBijection, Bijection, Injection
<1>3. SetToSeq(S) \in [1 .. n -> S] /\ IsInjective(SetToSeq(S))
    BY <1>2 DEF SetToSeq
<1>4. PICK f : f = SetToSeq(S)
    OBVIOUS
<1>5. f \in Injection(1 .. n, S)
    BY <1>3, <1>4 DEF Injection
<1>6. IsFiniteSet(1 .. n) /\ Cardinality(1 .. n) = n
    BY <1>1, FS_Interval
<1>7. f \in Surjection(1 .. n, S)
    BY <1>5, <1>6, FS_Injection
<1>8. \A x \in S : \E i \in 1 .. n : f[i] = x
    BY <1>7 DEF Surjection
<1>9. f \in Seq(S) /\ f \in [1 .. n -> S]
    BY <1>3, <1>4, ListOf
<1>10. Len(f) = n
    BY <1>1, <1>9, LenIs
<1>. HIDE DEF n
<1>. QED BY <1>1, <1>4, <1>8, <1>9, <1>10

\* A tail says no more than the whole.
LEMMA TailSpeaks ==
    ASSUME NEW q \in Seq(ToGate), q # <<>>
    PROVE  /\ Speaks(Tail(q)) => Speaks(q)
           /\ Head(q) # Login => Speaks(q)
<1>1. /\ Len(Tail(q)) = Len(q) - 1 /\ Head(q) = q[1] /\ Len(q) \in Nat \ {0}
      /\ \A i \in 1 .. Len(q) - 1 : Tail(q)[i] = q[i + 1]
    BY EmptySeq, HeadTailProperties
<1>2. Head(q) # Login => Speaks(q)
    <2>1. 1 \in 1 .. Len(q)
        BY <1>1
    <2>. QED BY <1>1, <2>1 DEF Speaks
<1>3. ASSUME Speaks(Tail(q))
      PROVE  Speaks(q)
    <2>1. PICK i \in 1 .. Len(q) - 1 : Tail(q)[i] # Login
        BY <1>1, <1>3 DEF Speaks
    <2>2. i + 1 \in 1 .. Len(q) /\ q[i + 1] # Login
        BY <1>1, <2>1
    <2>. QED BY <2>2 DEF Speaks
<1>. QED BY <1>2, <1>3

\* The connection of a linked ship.
LEMMA LinkedConn ==
    ASSUME IInv, GhostInv, NEW s \in Ships, Linked(s)
    PROVE  /\ sock[s] \in Conns /\ sock[s] # None /\ Owner(sock[s]) = s
           /\ conn[sock[s]].wire = "up"
           /\ conn[sock[s]].down \in Seq(ToShip) /\ conn[sock[s]].known \in BOOLEAN
           /\ hasKey[s] \in BOOLEAN /\ fleet[s] \in SUBSET Ships
<1>1. sock[s] \in Conns /\ sock[s] # None
    BY QueueType DEF IInv
<1>2. Owner(sock[s]) = s /\ conn[sock[s]].wire = "up"
    BY <1>1 DEF GhostInv, Sockets
<1>3. conn[sock[s]].down \in Seq(ToShip) /\ conn[sock[s]].known \in BOOLEAN
    BY <1>1, Field DEF IInv, TypeOK
<1>4. hasKey[s] \in BOOLEAN /\ fleet[s] \in SUBSET Ships
    BY DEF IInv, TypeOK
<1>. QED BY <1>1, <1>2, <1>3, <1>4

\* The ships and their clients say something.
LEMMA SayHeard ==
    ASSUME IInv, GhostInv, HeardInv,
           UNCHANGED <<sock, hasKey, fleet, ships, listed, lost>>,
           \A k \in Conns : /\ Kept(conn'[k], conn[k])
                            /\ conn'[k].known = conn[k].known
                            /\ conn'[k].down = conn[k].down
                            /\ \/ conn'[k].up = conn[k].up
                               \/ \E s \in Ships : k = sock[s] /\ Linked(s) /\ hasKey[s]
    PROVE  HeardInv'
<1>. USE DEF HeardInv
<1>1. Keyless'
    BY DEF Keyless
<1>2. ships \subseteq Conns
    BY DEF IInv, TypeOK
<1>3. \A k \in ships : k \in Conns /\ Owner(k)' = Owner(k) /\ Kept(conn'[k], conn[k])
    BY <1>2 DEF Owner, Kept
<1>4. \A s \in Ships : sock[s] # None => sock[s] \in Conns
    BY DEF IInv, TypeOK
<1>5. ASSUME ~lost
      PROVE  Single' /\ Logins' /\ View' /\ Counts'
    <2>1. Single /\ Logins /\ View /\ Counts
        BY <1>5
    <2>2. Single'
        BY <1>3, <2>1 DEF Single, Kept
    <2>3. Logins'
        <3> SUFFICES ASSUME NEW k \in ships
                     PROVE  /\ conn'[k].known <=> Owner(k) \in listed
                            /\ Speaks(conn'[k].up) => conn'[k].known
            BY <1>3 DEF Logins
        <3>1. CASE conn'[k].up = conn[k].up
            BY <1>3, <2>1, <3>1 DEF Logins
        <3>2. ASSUME NEW s \in Ships, k = sock[s], Linked(s), hasKey[s]
              PROVE  conn[k].known
            BY <2>1, <3>2 DEF View, Hears, Keyed
        <3>. QED BY <1>3, <2>1, <3>1, <3>2 DEF Logins
    <2>4. View'
        <3> SUFFICES ASSUME NEW s \in Ships, Linked(s)
                     PROVE  Hears(hasKey[s], fleet[s], conn'[sock[s]].down,
                                  conn'[sock[s]].known, listed)
            BY DEF View, Linked
        <3>1. sock[s] \in Conns
            BY LinkedConn
        <3>. QED BY <2>1, <3>1 DEF View
    <2>5. Counts'
        BY <1>4, <2>1 DEF Counts
    <2>. QED BY <2>2, <2>3, <2>4, <2>5
<1>. QED BY <1>1, <1>5

\* Ship s reads a packet and stays connected.
LEMMA ReadHeard ==
    ASSUME IInv, GhostInv, HeardInv, NEW s \in Ships, sock[s] # None,
           conn[sock[s]].down # <<>>, conn' = Read(s) \/ conn' = Answered(s),
           UNCHANGED <<sock, ships, listed, lost>>,
           hasKey' \in [Ships -> BOOLEAN],
           \A t \in Ships : t # s => hasKey'[t] = hasKey[t] /\ fleet'[t] = fleet[t],
           hasKey'[s] <=> hasKey[s] \/ Head(conn[sock[s]].down) = Accepted,
           fleet'[s] = IF hasKey[s] /\ Head(conn[sock[s]].down).type = "status"
                         THEN FleetAfter(fleet[s], Head(conn[sock[s]].down))
                         ELSE fleet[s]
    PROVE  HeardInv'
<1>. USE DEF HeardInv
<1>0. TypeOK /\ sock[s] \in Conns /\ ships \subseteq Conns
    BY DEF IInv, TypeOK
<1>1. PICK q \in Seq(ToShip) : q = conn[sock[s]].down /\ q # <<>>
    BY <1>0, Field DEF TypeOK
<1>2. hasKey[s] \in BOOLEAN /\ hasKey'[s] \in BOOLEAN /\ fleet[s] \in SUBSET Ships
    BY <1>0 DEF TypeOK
<1>3. \A k \in Conns :
         /\ Kept(conn'[k], conn[k]) /\ conn'[k].known = conn[k].known
         /\ conn'[k].down = IF k = sock[s] THEN Tail(q) ELSE conn[k].down
         /\ k # sock[s] => conn'[k].up = conn[k].up
    BY <1>0, <1>1, ReadFields
<1>4. conn'[sock[s]].up \in {conn[sock[s]].up, conn[sock[s]].up \o <<Login>>}
    BY <1>0, ReadFields
<1>5. \A k \in Conns : Speaks(conn'[k].up) => Speaks(conn[k].up)
    <2>1. CASE conn'[sock[s]].up = conn[sock[s]].up
        BY <1>3, <2>1
    <2>2. CASE conn'[sock[s]].up = conn[sock[s]].up \o <<Login>>
        <3>1. PICK u \in Seq(ToGate) : u = conn[sock[s]].up
            BY <1>0, Field DEF TypeOK
        <3>0. Login \in ToGate
            BY DEF ToGate
        <3>6. <<Login>> \in Seq(ToGate) /\ Len(<<Login>>) = 1 /\ <<Login>>[1] = Login
            BY <3>0
        <3>2. PICK w \in Seq(ToGate) : w = <<Login>> /\ Len(w) = 1 /\ w[1] = Login
            BY <3>6
        <3>3. /\ Len(u \o w) = Len(u) + 1 /\ Len(u) \in Nat
              /\ \A i \in 1 .. Len(u) + 1 : (u \o w)[i] = IF i =< Len(u) THEN u[i]
                                                          ELSE w[i - Len(u)]
            BY <3>2, ConcatProperties, LenProperties
        <3>4. ASSUME NEW i \in 1 .. Len(u \o w), (u \o w)[i] # Login
              PROVE  i \in 1 .. Len(u) /\ u[i] # Login
            <4>1. CASE i =< Len(u)
                BY <3>3, <3>4, <4>1
            <4>2. CASE ~(i =< Len(u))
                <5>1. i - Len(u) = 1 /\ i \in 1 .. Len(u) + 1
                    BY <3>3, <4>2
                <5>2. (u \o w)[i] = w[i - Len(u)]
                    BY <3>3, <4>2, <5>1
                <5>. QED BY <3>2, <3>4, <5>1, <5>2
            <4>. QED BY <4>1, <4>2
        <3>5. Speaks(u \o w) => Speaks(u)
            BY <3>4 DEF Speaks
        <3>7. conn'[sock[s]].up = u \o w /\ conn[sock[s]].up = u
            BY <2>2, <3>1, <3>2
        <3>8. Speaks(conn'[sock[s]].up) => Speaks(conn[sock[s]].up)
            BY <3>5, <3>7
        <3>. QED BY <1>3, <3>8
    <2>. QED BY <1>4, <2>1, <2>2
<1>6. \A k \in ships : k \in Conns /\ Owner(k)' = Owner(k) /\ Kept(conn'[k], conn[k])
    BY <1>0, <1>3 DEF Owner, Kept
<1>7. \A t \in Ships : t # s /\ sock[t] # None =>
         sock[t] \in Conns /\ conn'[sock[t]].down = conn[sock[t]].down
    BY <1>0, <1>3, Apart DEF GhostInv, TypeOK
<1>8. Keyless'
    BY DEF Keyless
<1>9. ASSUME NEW k \in BOOLEAN, NEW ls
      PROVE  /\ Hears(hasKey[s], fleet[s], q, k, ls) =>
                    Hears(hasKey'[s], fleet'[s], Tail(q), k, ls)
             /\ InOrder(hasKey[s], fleet[s], q) => InOrder(hasKey'[s], fleet'[s], Tail(q))
    <2>1. ~hasKey[s] => fleet[s] = {}
        BY DEF Keyless
    <2>2. hasKey'[s] <=> hasKey[s] \/ Head(q) = Accepted
        BY <1>1
    <2>3. fleet'[s] = IF hasKey[s] /\ Head(q).type = "status"
                        THEN FleetAfter(fleet[s], Head(q)) ELSE fleet[s]
        BY <1>1
    <2>4. PICK key \in BOOLEAN, kept \in BOOLEAN, fl \in SUBSET Ships :
             key = hasKey[s] /\ kept = hasKey'[s] /\ fl = fleet[s]
        BY <1>2
    <2>7. PICK met : met = fleet'[s]
        OBVIOUS
    <2>5. /\ ~key => fl = {}
          /\ kept <=> key \/ Head(q) = Accepted
          /\ met = IF key /\ Head(q).type = "status" THEN FleetAfter(fl, Head(q)) ELSE fl
        BY <2>1, <2>2, <2>3, <2>4, <2>7
    <2>6. /\ Hears(key, fl, q, k, ls) => Hears(kept, met, Tail(q), k, ls)
          /\ InOrder(key, fl, q) => InOrder(kept, met, Tail(q))
        <3>1. q # <<>>
            BY <1>1
        <3>2. /\ key \in BOOLEAN /\ kept \in BOOLEAN /\ fl \in SUBSET Ships
              /\ q \in Seq(ToShip)
            BY <1>1, <2>4
        <3>. QED BY <1>9, <2>5, <3>1, <3>2, ReadHears, SMTT(90)
    <2>. QED BY <2>4, <2>6, <2>7
<1>10. ASSUME ~lost
       PROVE  Single' /\ Logins' /\ View' /\ Counts'
    <2>1. Single /\ Logins /\ View /\ Counts
        BY <1>10
    <2>2. Single'
        BY <1>6, <2>1 DEF Single, Kept
    <2>3. Logins'
        BY <1>3, <1>5, <1>6, <2>1 DEF Logins
    <2>4. View'
        <3> SUFFICES ASSUME NEW t \in Ships, Linked(t)
                     PROVE  Hears(hasKey'[t], fleet'[t], conn'[sock[t]].down,
                                  conn'[sock[t]].known, listed)
            BY DEF View, Linked
        <3>1. /\ sock[t] \in Conns /\ sock[t] # None /\ conn[sock[t]].known \in BOOLEAN
              /\ Hears(hasKey[t], fleet[t], conn[sock[t]].down, conn[sock[t]].known, listed)
            BY <2>1, LinkedConn DEF View
        <3>2. CASE t = s
            BY <1>1, <1>3, <1>9, <3>1, <3>2
        <3>3. CASE t # s
            BY <1>3, <1>7, <3>1, <3>3
        <3>. QED BY <3>2, <3>3
    <2>5. Counts'
        <3> SUFFICES ASSUME NEW t \in Ships, sock[t] # None
                     PROVE  InOrder(hasKey'[t], fleet'[t], conn'[sock[t]].down)
            BY DEF Counts
        <3>1. InOrder(hasKey[t], fleet[t], conn[sock[t]].down)
            BY <2>1 DEF Counts
        <3>2. CASE t = s
            BY <1>0, <1>1, <1>3, <1>9, <3>1, <3>2
        <3>3. CASE t # s
            BY <1>7, <3>1, <3>3
        <3>. QED BY <3>2, <3>3
    <2>. QED BY <2>2, <2>3, <2>4, <2>5
<1>. QED BY <1>8, <1>10

\* Ship s gives its connection up.
LEMMA HangHeard ==
    ASSUME IInv, GhostInv, HeardInv, NEW s \in Ships, sock[s] # None, NEW w,
           NEW n \in 0 .. Len(conn[sock[s]].up), Hangup(s, Cut(sock[s], w, n)),
           UNCHANGED <<ships, listed>>, lost' <=> lost \/ w = "dead",
           w \in {"closed", "dead"}
    PROVE  HeardInv'
<1>. USE DEF HeardInv
<1>0. TypeOK /\ sock[s] \in Conns /\ ships \subseteq Conns
    BY DEF IInv, TypeOK
<1>1. ASSUME NEW k \in Conns
      PROVE  /\ conn'[k].ship = conn[k].ship /\ conn'[k].known = conn[k].known
             /\ conn'[k].wire = IF k = sock[s] THEN w ELSE conn[k].wire
             /\ k # sock[s] => conn'[k].down = conn[k].down /\ conn'[k].up = conn[k].up
             /\ k = sock[s] => conn'[k].up = SubSeq(conn[k].up, 1, n)
    <2>1. conn' = Cut(sock[s], w, n)
        BY DEF Hangup
    <2>2. LET r == Cut(sock[s], w, n)[k] IN
          /\ r.ship = conn[k].ship /\ r.known = conn[k].known
          /\ r.wire = IF k = sock[s] THEN w ELSE conn[k].wire
          /\ r.down = IF k = sock[s] THEN <<>> ELSE conn[k].down
          /\ r.up = IF k = sock[s] THEN SubSeq(conn[sock[s]].up, 1, n) ELSE conn[k].up
        BY <1>0, CutFields
    <2>. QED BY <2>1, <2>2
<1>2. /\ sock'[s] = None /\ ~hasKey'[s] /\ fleet'[s] = {}
      /\ \A t \in Ships : t # s => /\ sock'[t] = sock[t] /\ hasKey'[t] = hasKey[t]
                                   /\ fleet'[t] = fleet[t]
    BY <1>0 DEF Hangup, TypeOK
<1>3. Keyless'
    BY <1>2 DEF Keyless
<1>4. \A k \in ships : k \in Conns /\ Owner(k)' = Owner(k)
    BY <1>0, <1>1 DEF Owner
<1>5. \A t \in Ships : t # s /\ sock[t] # None => sock[t] \in Conns /\ sock[t] # sock[s]
    BY <1>0, Apart DEF GhostInv, TypeOK
<1>6. Owner(sock[s]) = s
    BY DEF GhostInv, Sockets
<1>7. \A k \in Conns : Speaks(conn'[k].up) => Speaks(conn[k].up)
    <2>1. PICK u \in Seq(ToGate) : u = conn[sock[s]].up
        BY <1>0, Field DEF TypeOK
    <2>2. Len(SubSeq(u, 1, n)) = n /\ \A i \in 1 .. n : SubSeq(u, 1, n)[i] = u[i]
        <3>1. 1 \in 1 .. Len(u) + 1 /\ n \in 0 .. Len(u) /\ Len(u) \in Nat
            BY <2>1, LenProperties
        <3>. QED BY <3>1, SubSeqProperties
    <2>3. \A i \in 1 .. n : i \in 1 .. Len(u)
        BY <2>1, LenProperties
    <2>4. Speaks(SubSeq(u, 1, n)) => Speaks(u)
        BY <2>2, <2>3 DEF Speaks
    <2>. QED BY <1>0, <1>1, <2>1, <2>4
<1>8. ASSUME ~lost'
      PROVE  Single' /\ Logins' /\ View' /\ Counts'
    <2>1. Single /\ Logins /\ View /\ Counts /\ w = "closed"
        BY <1>8
    <2>2. Single'
        <3> SUFFICES ASSUME NEW k \in ships
                     PROVE  /\ conn'[k].wire \in {"up", "closed"}
                            /\ sock'[Owner(k)] = IF conn'[k].wire = "up" THEN k ELSE None
                            /\ \A j \in ships : Owner(j) = Owner(k) => j = k
            BY <1>4 DEF Single
        <3>1. /\ conn[k].wire \in {"up", "closed"}
              /\ sock[Owner(k)] = IF conn[k].wire = "up" THEN k ELSE None
              /\ \A j \in ships : Owner(j) = Owner(k) => j = k
            BY <2>1 DEF Single
        <3>2. Owner(k) \in Ships
            BY <1>0, Field DEF Owner, TypeOK
        <3>3. CASE k = sock[s]
            BY <1>0, <1>1, <1>2, <1>6, <2>1, <3>1, <3>3
        <3>4. CASE k # sock[s]
            <4>1. Owner(k) # s
                <5>1. CASE conn[k].wire = "up"
                    BY <3>1, <3>4, <5>1
                <5>2. CASE conn[k].wire # "up"
                    BY <3>1, <5>2
                <5>. QED BY <5>1, <5>2
            <4>. QED BY <1>0, <1>1, <1>2, <3>1, <3>2, <3>4, <4>1
        <3>. QED BY <3>3, <3>4
    <2>3. Logins'
        BY <1>1, <1>4, <1>7, <2>1 DEF Logins
    <2>4. View'
        <3> SUFFICES ASSUME NEW t \in Ships, Linked(t)'
                     PROVE  Hears(hasKey'[t], fleet'[t], conn'[sock'[t]].down,
                                  conn'[sock'[t]].known, listed)
            BY DEF View
        <3>1. t # s /\ sock'[t] = sock[t] /\ Linked(t)
            BY <1>0, <1>2, LinkAssumption DEF Linked
        <3>2. sock[t] \in Conns /\ sock[t] # sock[s]
            BY <1>5, <3>1, LinkedConn
        <3>. QED BY <1>1, <1>2, <2>1, <3>1, <3>2 DEF View
    <2>5. Counts'
        <3> SUFFICES ASSUME NEW t \in Ships, sock'[t] # None
                     PROVE  InOrder(hasKey'[t], fleet'[t], conn'[sock'[t]].down)
            BY DEF Counts
        <3>1. t # s /\ sock'[t] = sock[t] /\ sock[t] # None
            BY <1>2
        <3>. QED BY <1>1, <1>2, <1>5, <2>1, <3>1 DEF Counts
    <2>. QED BY <2>2, <2>3, <2>4, <2>5
<1>. QED BY <1>3, <1>8

LEMMA ConnectHeard ==
    ASSUME IInv, GhostInv, HeardInv, NEW s \in Ships, Connect(s)
    PROVE  HeardInv'
<1>. USE DEF HeardInv
<1>. DEFINE new == [ship |-> s, known |-> FALSE, wire |-> "up",
                    up |-> <<>>, down |-> <<Welcome>>]
<1>0. TypeOK /\ Numbered /\ RowsBacked /\ ships \subseteq Conns
    BY DEF IInv, TypeOK
<1>1. PICK c \in Conns : c = made' /\ c = made + 1 /\ made \in Nat
    BY <1>0, LinkAssumption DEF Connect, TypeOK, Conns
<1>2. /\ conn'[c].ship = s /\ conn'[c].wire = "up" /\ conn'[c].up = <<>>
      /\ conn'[c].known = FALSE /\ conn'[c].down = <<Welcome>>
      /\ \A k \in Conns : k # c => conn'[k] = conn[k]
    <2>1. conn' = [conn EXCEPT ![c] = new]
        BY <1>1 DEF Connect
    <2>. QED BY <1>0, <1>1, <2>1 DEF TypeOK
<1>. HIDE DEF new
<1>3. /\ sock[s] = None /\ sock'[s] = c /\ \A t \in Ships : t # s => sock'[t] = sock[t]
      /\ UNCHANGED <<hasKey, fleet, listed, lost>> /\ ships' = ships \cup {c}
    BY <1>0, <1>1 DEF Connect, TypeOK
<1>4. \A t \in Ships : sock[t] # None => sock[t] \in Conns /\ sock[t] # c
    <2> SUFFICES ASSUME NEW t \in Ships, sock[t] # None
                 PROVE  sock[t] \in Conns /\ sock[t] # c
        OBVIOUS
    <2>1. sock[t] \in 1 .. made
        BY DEF GhostInv, Sockets
    <2>2. sock[t] \in Conns
        BY <1>0 DEF TypeOK
    <2>. QED BY <1>1, <2>1, <2>2
<1>5. \A k \in ships : k \in Conns /\ k # c /\ conn'[k] = conn[k] /\ Owner(k)' = Owner(k)
    <2>1. \A k \in ships : k \in 1 .. made /\ k \in Conns
        BY <1>0 DEF TypeOK, Numbered
    <2>2. \A k \in 1 .. made : k # c
        BY <1>1
    <2>. QED BY <1>2, <2>1, <2>2 DEF Owner
<1>6. conn'[c].ship = s
    BY <1>2
<1>7. Keyless'
    BY <1>1, <1>3, LinkAssumption DEF Keyless
<1>8. ASSUME ~lost
      PROVE  Single' /\ Logins' /\ View' /\ Counts'
    <2>1. Single /\ Logins /\ View /\ Counts
        BY <1>8
    <2>2. \A k \in ships : Owner(k) # s
        <3> SUFFICES ASSUME NEW k \in ships, Owner(k) = s PROVE FALSE
            OBVIOUS
        <3>1. /\ conn[k].wire \in {"up", "closed"}
              /\ sock[s] = IF conn[k].wire = "up" THEN k ELSE None
            BY <2>1 DEF Single
        <3>2. conn[k].wire = "up"
            BY <3>1 DEF Connect
        <3>. QED BY <1>0, <1>3, <3>1, <3>2, LinkAssumption
    <2>3. s \notin listed
        BY <1>0, <2>2 DEF RowsBacked
    <2>4. Single'
        <3>1. ASSUME NEW k \in ships
              PROVE  /\ k \in Conns /\ k # c /\ conn'[k].ship = Owner(k) /\ Owner(k) \in Ships
                     /\ Owner(k) # s /\ conn'[k].wire = conn[k].wire
                     /\ conn[k].wire \in {"up", "closed"}
                     /\ sock[Owner(k)] = IF conn[k].wire = "up" THEN k ELSE None
                     /\ \A j \in ships : Owner(j) = Owner(k) => j = k
            BY <1>0, <1>5, <2>1, <2>2, Field DEF Single, Owner, TypeOK
        <3>2. ASSUME NEW k \in ships'
              PROVE  /\ conn'[k].wire \in {"up", "closed"}
                     /\ sock'[conn'[k].ship] = IF conn'[k].wire = "up" THEN k ELSE None
                     /\ \A j \in ships' : conn'[j].ship = conn'[k].ship => j = k
            <4>1. CASE k = c
                <5>1. \A j \in ships' : j = c \/ conn'[j].ship # s
                    BY <1>3, <3>1
                <5>. QED BY <1>2, <1>3, <4>1, <5>1
            <4>2. CASE k \in ships
                <5>1. sock'[Owner(k)] = sock[Owner(k)]
                    BY <1>3, <3>1, <4>2
                <5>2. \A j \in ships' : j = c \/ j \in ships
                    BY <1>3
                <5>. QED BY <1>6, <3>1, <4>2, <5>1, <5>2
            <4>. QED BY <1>3, <4>1, <4>2
        <3>. QED BY <3>2 DEF Single, Owner
    <2>5. Logins'
        <3>1. ~Speaks(<<>>)
            BY DEF Speaks
        <3>2. ASSUME NEW k \in ships'
              PROVE  /\ conn'[k].known <=> conn'[k].ship \in listed
                     /\ Speaks(conn'[k].up) => conn'[k].known
            <4>1. CASE k = c
                BY <1>2, <2>3, <3>1, <4>1
            <4>2. CASE k \in ships
                BY <1>5, <2>1, <4>2 DEF Logins, Owner
            <4>. QED BY <1>3, <4>1, <4>2
        <3>. QED BY <1>3, <3>2 DEF Logins, Owner
    <2>6. <<Welcome>>[1] = Welcome /\ Len(<<Welcome>>) = 1 /\ ~hasKey[s]
        BY <1>3 DEF Keyless
    <2>7. Welcome # Accepted /\ \A t : Welcome # Count(t)
        BY OthersApart DEF Welcome
    <2>8. ~Keyed(hasKey[s], <<Welcome>>, Len(<<Welcome>>))
        <3>1. \A i \in 1 .. Len(<<Welcome>>) : <<Welcome>>[i] # Accepted
            BY <2>6, <2>7
        <3>. QED BY <2>6, <3>1 DEF Keyed
    <2>9. Hears(hasKey[s], fleet[s], <<Welcome>>, FALSE, listed)
        BY <2>8 DEF Hears
    <2>10. InOrder(hasKey[s], fleet[s], <<Welcome>>)
        <3>1. \A i \in 1 .. Len(<<Welcome>>), t \in Ships : <<Welcome>>[i] # Count(t)
            BY <2>6, <2>7
        <3>. QED BY <3>1 DEF InOrder
    <2>11. View'
        <3> SUFFICES ASSUME NEW t \in Ships, Linked(t)'
                     PROVE  Hears(hasKey[t], fleet[t], conn'[sock'[t]].down,
                                  conn'[sock'[t]].known, listed)
            BY <1>3 DEF View
        <3>1. CASE t = s
            BY <1>2, <1>3, <2>9, <3>1
        <3>2. CASE t # s
            <4>1. sock'[t] = sock[t] /\ sock[t] \in ships \cup {c}
                BY <1>3, <3>2 DEF Linked
            <4>2. sock[t] # None
                BY <1>0, <1>1, <4>1, LinkAssumption
            <4>3. Linked(t) /\ conn'[sock[t]] = conn[sock[t]]
                BY <1>2, <1>4, <4>1, <4>2 DEF Linked
            <4>. QED BY <2>1, <4>1, <4>3 DEF View
        <3>. QED BY <3>1, <3>2
    <2>12. Counts'
        <3> SUFFICES ASSUME NEW t \in Ships, sock'[t] # None
                     PROVE  InOrder(hasKey[t], fleet[t], conn'[sock'[t]].down)
            BY <1>3 DEF Counts
        <3>1. CASE t = s
            BY <1>2, <1>3, <2>10, <3>1
        <3>2. CASE t # s
            BY <1>2, <1>3, <1>4, <2>1, <3>2 DEF Counts
        <3>. QED BY <3>1, <3>2
    <2>. QED BY <2>4, <2>5, <2>11, <2>12
<1>. QED BY <1>3, <1>7, <1>8

\* What a linked ship makes of one packet more.
LEMMA MoreHeard ==
    ASSUME IInv, GhostInv, View, Counts, NEW s \in Ships, Linked(s),
           NEW m \in ToShip, m # Accepted, NEW now,
           \A t \in Ships : t \in now <=> m = Here(t) \/ (t \in listed /\ m # Gone(t)),
           \A t \in Ships : m = Count(t) /\ conn[sock[s]].known => t \in listed
    PROVE  LET q == conn[sock[s]].down \o <<m>> IN
           /\ Hears(hasKey[s], fleet[s], q, conn[sock[s]].known, now)
           /\ InOrder(hasKey[s], fleet[s], q)
<1>1. PICK key \in BOOLEAN, logged \in BOOLEAN, fl \in SUBSET Ships, q \in Seq(ToShip) :
         /\ key = hasKey[s] /\ logged = conn[sock[s]].known /\ fl = fleet[s]
         /\ q = conn[sock[s]].down
    BY LinkedConn
<1>2. Hears(key, fl, q, logged, listed) /\ InOrder(key, fl, q)
    BY <1>1, LinkedConn DEF View, Counts
<1>3. \A t \in Ships : m = Count(t) /\ logged => t \in listed
    BY <1>1
<1>4. Hears(key, fl, q \o <<m>>, logged, now) /\ InOrder(key, fl, q \o <<m>>)
    BY <1>1, <1>2, <1>3, AppendHears
<1>. QED BY <1>1, <1>4

\* What is left to show of a step of the gate.
LEMMA GateHeard ==
    ASSUME IInv, HeardInv, UNCHANGED <<sock, hasKey, fleet, lost>>, ships' \subseteq ships,
           \A j \in Conns : Kept(conn'[j], conn[j]),
           ~lost => \A j \in ships' : /\ conn'[j].known <=> Owner(j) \in listed'
                                      /\ Speaks(conn'[j].up) => conn'[j].known,
           ~lost => \A s \in Ships : sock[s] \in ships' =>
                       Hears(hasKey[s], fleet[s], conn'[sock[s]].down,
                             conn'[sock[s]].known, listed'),
           ~lost => \A s \in Ships : sock[s] # None =>
                       InOrder(hasKey[s], fleet[s], conn'[sock[s]].down)
    PROVE  HeardInv'
<1>1. ships \subseteq Conns
    BY DEF IInv, TypeOK
<1>2. \A j \in ships : /\ j \in Conns /\ Owner(j)' = Owner(j)
                       /\ conn'[j].wire = conn[j].wire
    BY <1>1 DEF Owner, Kept
<1>3. Keyless'
    BY DEF HeardInv, Keyless
<1>4. ASSUME ~lost
      PROVE  Single' /\ Logins' /\ View' /\ Counts'
    <2>1. Single'
        BY <1>2, <1>4 DEF HeardInv, Single
    <2>2. Logins'
        BY <1>2, <1>4 DEF Logins
    <2>3. View'
        BY <1>4 DEF View, Linked
    <2>4. Counts'
        BY <1>4 DEF Counts
    <2>. QED BY <2>1, <2>2, <2>3, <2>4
<1>. QED BY <1>3, <1>4 DEF HeardInv

\* The gate takes a packet other than "login" from connection k, and has one
\* at most to say to each ship.
LEMMA TellHeard ==
    ASSUME IInv, GhostInv, HeardInv, NEW k \in ships, conn[k].up # <<>>,
           UNCHANGED <<sock, hasKey, fleet, lost, ships, listed>>,
           \A j \in Conns : /\ Kept(conn'[j], conn[j]) /\ conn'[j].known = conn[j].known
                            /\ conn'[j].up = IF j = k THEN Tail(conn[k].up) ELSE conn[j].up,
           NEW m \in ToShip, m # Accepted, \A t : m # Here(t) /\ m # Gone(t),
           ~lost => \A t \in Ships : m = Count(t) => t \in listed,
           \A j \in Conns : \/ conn'[j].down = conn[j].down
                            \/ j \in ships /\ conn'[j].down = conn[j].down \o <<m>>
    PROVE  HeardInv'
<1>1. ships \subseteq Conns /\ TypeOK
    BY DEF IInv, TypeOK
<1>2. Speaks(conn'[k].up) => Speaks(conn[k].up)
    <2>1. conn[k].up \in Seq(ToGate)
        BY <1>1, Field DEF TypeOK
    <2>. QED BY <1>1, <2>1, TailSpeaks
<1>3. ASSUME ~lost
      PROVE  Single /\ Logins /\ View /\ Counts
    BY <1>3 DEF HeardInv
<1>4. ~lost => \A j \in ships : /\ conn'[j].known <=> Owner(j) \in listed'
                                /\ Speaks(conn'[j].up) => conn'[j].known
    BY <1>1, <1>2, <1>3 DEF Logins
<1>5. ASSUME ~lost, NEW s \in Ships, sock[s] \in ships
      PROVE  /\ Hears(hasKey[s], fleet[s], conn'[sock[s]].down, conn'[sock[s]].known, listed)
             /\ InOrder(hasKey[s], fleet[s], conn'[sock[s]].down)
    <2>1. Linked(s) /\ sock[s] \in Conns /\ sock[s] # None
        BY <1>5, LinkedConn DEF Linked
    <2>2. CASE conn'[sock[s]].down = conn[sock[s]].down
        BY <1>3, <1>5, <2>1, <2>2 DEF View, Counts
    <2>3. CASE conn'[sock[s]].down = conn[sock[s]].down \o <<m>>
        <3>1. /\ Hears(hasKey[s], fleet[s], conn[sock[s]].down \o <<m>>,
                       conn[sock[s]].known, listed)
              /\ InOrder(hasKey[s], fleet[s], conn[sock[s]].down \o <<m>>)
            BY <1>3, <1>5, <2>1, MoreHeard
        <3>. QED BY <2>1, <2>3, <3>1
    <2>. QED BY <2>1, <2>2, <2>3
<1>6. ASSUME ~lost, NEW s \in Ships, sock[s] # None
      PROVE  InOrder(hasKey[s], fleet[s], conn'[sock[s]].down)
    <2>1. CASE sock[s] \in ships
        BY <1>5, <1>6, <2>1
    <2>2. CASE sock[s] \notin ships
        <3>1. sock[s] \in Conns
            BY <1>1, <1>6 DEF TypeOK
        <3>. QED BY <1>3, <1>6, <2>2, <3>1 DEF Counts
    <2>. QED BY <2>1, <2>2
<1>. QED BY <1>4, <1>5, <1>6, GateHeard

\* The gate removes connection k; cn is what it begins with.
LEMMA DisconnectHeard ==
    ASSUME IInv, GhostInv, HeardInv, NEW k \in ships, NEW cn \in [Conns -> Conn],
           Disconnect(k, cn), UNCHANGED <<sock, hasKey, fleet, lost>>,
           \A j \in Conns : /\ Kept(cn[j], conn[j])
                            /\ j # k => /\ cn[j].known = conn[j].known
                                        /\ cn[j].up = conn[j].up
                                        /\ cn[j].down = conn[j].down,
           cn[k].down \in {conn[k].down, conn[k].down \o <<Refused>>},
           ~lost => (cn[k].known <=> Owner(k) \in listed)
    PROVE  HeardInv'
<1>1. ships \subseteq Conns /\ TypeOK /\ ships' = ships \ {k} /\ listed' = listed \ {Owner(k)}
    BY DEF IInv, TypeOK, Disconnect
<1>2. PICK x \in Ships : x = Owner(k)
    BY <1>1, Field DEF Owner, TypeOK
<1>3. ASSUME NEW j \in Conns
      PROVE  /\ Kept(conn'[j], conn[j])
             /\ j # k => conn'[j].known = conn[j].known /\ conn'[j].up = conn[j].up
             /\ conn'[j].down = IF j # k /\ j \in ships /\ cn[k].known /\ conn[j].wire = "up"
                                  THEN conn[j].down \o <<Gone(x)>> ELSE cn[j].down
    <2>0. IInv /\ k \in ships /\ cn \in [Conns -> Conn] /\ Disconnect(k, cn) /\ j \in Conns
        OBVIOUS
    <2>1. LET n == conn'[j] IN
          /\ Kept(n, cn[j])
          /\ j = k => ~n.known
          /\ j # k => n.known = cn[j].known
          /\ n.up = IF j = k THEN <<>> ELSE cn[j].up
          /\ n.down = IF j # k /\ j \in ships /\ cn[k].known /\ cn[j].wire = "up"
                        THEN cn[j].down \o <<Status(Owner(k), FALSE)>>
                        ELSE cn[j].down
        BY <2>0, DisconnectFields
    <2>2. Status(Owner(k), FALSE) = Gone(x)
        BY <1>2 DEF Gone
    <2>3. /\ Kept(cn[j], conn[j])
          /\ j # k => /\ cn[j].known = conn[j].known
                      /\ cn[j].up = conn[j].up
                      /\ cn[j].down = conn[j].down
        OBVIOUS
    <2>4. Kept(conn'[j], conn[j]) /\ cn[j].wire = conn[j].wire
        BY <2>1, <2>3 DEF Kept
    <2>5. j # k => conn'[j].known = conn[j].known /\ conn'[j].up = conn[j].up
        <3>1. j # k => conn'[j].known = cn[j].known
            BY <2>1
        <3>2. j # k => conn'[j].up = cn[j].up
            BY <2>1
        <3>. QED BY <2>3, <3>1, <3>2
    <2>6. conn'[j].down = IF j # k /\ j \in ships /\ cn[k].known /\ cn[j].wire = "up"
                            THEN cn[j].down \o <<Gone(x)>> ELSE cn[j].down
        BY <2>1, <2>2
    <2>. QED BY <2>3, <2>4, <2>5, <2>6
<1>4. ASSUME ~lost
      PROVE  Single /\ Logins /\ View /\ Counts
    BY <1>4 DEF HeardInv
<1>5. ASSUME ~lost, NEW j \in ships'
      PROVE  /\ conn'[j].known <=> Owner(j) \in listed'
             /\ Speaks(conn'[j].up) => conn'[j].known
    <2>1. j \in ships /\ j # k /\ Owner(j) # Owner(k)
        BY <1>1, <1>4, <1>5 DEF Single
    <2>. QED BY <1>1, <1>3, <1>4, <1>5, <2>1 DEF Logins
<1>6. ASSUME ~lost, NEW s \in Ships, sock[s] \in ships, sock[s] # k
      PROVE  /\ Hears(hasKey[s], fleet[s], conn'[sock[s]].down, conn'[sock[s]].known, listed')
             /\ InOrder(hasKey[s], fleet[s], conn'[sock[s]].down)
    <2>1. Linked(s) /\ sock[s] \in Conns /\ sock[s] # None /\ conn[sock[s]].wire = "up"
        BY <1>6, LinkedConn DEF Linked
    <2>2. CASE cn[k].known
        <3>1. conn'[sock[s]].down = conn[sock[s]].down \o <<Gone(x)>>
            BY <1>3, <1>6, <2>1, <2>2
        <3>2. Gone(x) \in ToShip /\ Gone(x) # Accepted
            BY NewsApart, PacketTypes DEF Gone
        <3>3. /\ \A t \in Ships : t \in listed' <=>
                    Gone(x) = Here(t) \/ (t \in listed /\ Gone(x) # Gone(t))
              /\ \A t \in Ships : Gone(x) # Count(t)
            BY <1>1, <1>2, NewsApart
        <3>4. PICK now : now = listed'
            OBVIOUS
        <3>5. /\ Hears(hasKey[s], fleet[s], conn[sock[s]].down \o <<Gone(x)>>,
                       conn[sock[s]].known, now)
              /\ InOrder(hasKey[s], fleet[s], conn[sock[s]].down \o <<Gone(x)>>)
            BY <1>4, <1>6, <2>1, <3>2, <3>3, <3>4, MoreHeard
        <3>. QED BY <1>3, <1>6, <2>1, <3>1, <3>4, <3>5
    <2>3. CASE ~cn[k].known
        <3>1. conn'[sock[s]].down = conn[sock[s]].down
            BY <1>3, <1>6, <2>1, <2>3
        <3>2. listed' = listed
            BY <1>1, <1>6, <2>3
        <3>. QED BY <1>3, <1>4, <1>6, <2>1, <3>1, <3>2 DEF View, Counts
    <2>. QED BY <2>2, <2>3
<1>7. ASSUME ~lost, NEW s \in Ships, sock[s] # None
      PROVE  InOrder(hasKey[s], fleet[s], conn'[sock[s]].down)
    <2>1. sock[s] \in Conns /\ InOrder(hasKey[s], fleet[s], conn[sock[s]].down)
        BY <1>1, <1>4, <1>7 DEF TypeOK, Counts
    <2>2. CASE sock[s] \in ships /\ sock[s] # k
        BY <1>6, <1>7, <2>2
    <2>3. CASE sock[s] \notin ships
        BY <1>3, <2>1, <2>3
    <2>4. CASE sock[s] = k
        <3>1. conn'[sock[s]].down \in {conn[sock[s]].down, conn[sock[s]].down \o <<Refused>>}
            BY <1>3, <2>1, <2>4
        <3>2. Linked(s)
            BY <2>4 DEF Linked
        <3>3. Refused \in ToShip /\ Refused.type = "refused"
            BY PacketTypes DEF Refused
        <3>4. Refused # Accepted /\ \A t : Refused # Count(t) /\ Refused # Here(t) /\ Refused # Gone(t)
            BY <3>3, OthersApart
        <3>5. InOrder(hasKey[s], fleet[s], conn[sock[s]].down \o <<Refused>>)
            BY <1>4, <1>7, <3>2, <3>3, <3>4, MoreHeard
        <3>. QED BY <2>1, <3>1, <3>5
    <2>. QED BY <2>2, <2>3, <2>4
<1>8. ~lost => \A s \in Ships : sock[s] \in ships' =>
         Hears(hasKey[s], fleet[s], conn'[sock[s]].down, conn'[sock[s]].known, listed')
    BY <1>1, <1>6
<1>9. \A j \in Conns : Kept(conn'[j], conn[j])
    BY <1>3
<1>. QED BY <1>1, <1>5, <1>7, <1>8, <1>9, GateHeard

\* What a ship is told when it has logged in: of itself and of every other
\* that has.
LEMMA NewsList ==
    ASSUME IInv, NEW k \in ships
    PROVE  LET n == LoginNews(k)[k] IN
           /\ n \in Seq(ToShip) /\ Len(n) > 0 /\ n[1] = Accepted
           /\ \A i \in 2 .. Len(n) : \E j \in ships : /\ j = k \/ conn[j].known
                                                      /\ n[i] = Here(Owner(j))
           /\ \A j \in ships : j = k \/ conn[j].known =>
                 \E i \in 2 .. Len(n) : n[i] = Here(Owner(j))
<1>1. k \in Conns /\ ships \subseteq Conns
    BY DEF IInv, TypeOK
<1>2. PICK S \in SUBSET ships : S = {j \in ships : j = k \/ conn[j].known}
    OBVIOUS
<1>3. IsFiniteSet(S)
    <2>1. IsFiniteSet(Conns)
        BY FS_Interval, LinkAssumption DEF Conns
    <2>. QED BY <1>1, <1>2, <2>1, FS_Subset
<1>4. PICK f : \E p \in Nat :
         /\ f = Met(k) /\ p = Len(f) /\ DOMAIN f = 1 .. p
         /\ \A i \in 1 .. p : f[i] \in S
         /\ \A x \in S : \E i \in 1 .. p : f[i] = x
    <2>1. SetToSeq(S) = Met(k)
        BY <1>2 DEF Met
    <2>2. PICK f : f = SetToSeq(S)
        OBVIOUS
    <2>3. /\ Len(f) \in Nat /\ DOMAIN f = 1 .. Len(f)
          /\ \A i \in 1 .. Len(f) : f[i] \in S
          /\ \A x \in S : \E i \in 1 .. Len(f) : f[i] = x
        BY <1>3, <2>2, ListAll
    <2>. QED BY <2>1, <2>2, <2>3
<1>15. PICK p \in Nat :
         /\ f = Met(k) /\ p = Len(f) /\ DOMAIN f = 1 .. p
         /\ \A i \in 1 .. p : f[i] \in S
         /\ \A x \in S : \E i \in 1 .. p : f[i] = x
    BY <1>4
<1>5. PICK g : g = [i \in 1 .. p |-> Here(Owner(f[i]))]
    OBVIOUS
<1>6. g \in Seq(ToShip) /\ Len(g) = p /\ \A i \in 1 .. p : g[i] = Here(Owner(f[i]))
    <2>1. \A i \in 1 .. p : Here(Owner(f[i])) \in ToShip
        <3> SUFFICES ASSUME NEW i \in 1 .. p PROVE Here(Owner(f[i])) \in ToShip
            OBVIOUS
        <3>1. f[i] \in Conns
            BY <1>1, <1>2, <1>15
        <3>2. Owner(f[i]) \in Ships
            BY <3>1, Field DEF Owner, IInv, TypeOK
        <3>. QED BY <3>2, PacketTypes DEF Here
    <2>2. g \in [1 .. p -> ToShip]
        BY <1>5, <2>1
    <2>3. g \in Seq(ToShip)
        BY <1>15, <2>2, IsList
    <2>4. Len(g) = p
        BY <1>15, <2>2, <2>3, LenIs
    <2>. QED BY <1>5, <2>3, <2>4
<1>7. PICK a \in Seq(ToShip) : a = <<Accepted>> /\ Len(a) = 1 /\ a[1] = Accepted
    <2>1. Accepted \in ToShip
        BY PacketTypes
    <2>2. <<Accepted>> \in Seq(ToShip) /\ Len(<<Accepted>>) = 1 /\ <<Accepted>>[1] = Accepted
        BY <2>1
    <2>. QED BY <2>2
<1>8. PICK n : n = LoginNews(k)[k]
    OBVIOUS
<1>9. n = a \o g
    <2>1. n = <<Accepted>> \o [i \in DOMAIN Met(k) |-> Status(Owner(Met(k)[i]), TRUE)]
        BY <1>1, <1>8 DEF LoginNews
    <2>2. [i \in DOMAIN Met(k) |-> Status(Owner(Met(k)[i]), TRUE)] = g
        BY <1>15, <1>5 DEF Here
    <2>. QED BY <1>7, <2>1, <2>2
<1>10. /\ n \in Seq(ToShip) /\ Len(n) = 1 + p
       /\ \A i \in 1 .. 1 + p : n[i] = IF i =< 1 THEN a[i] ELSE g[i - 1]
    BY <1>15, <1>6, <1>7, <1>9, ConcatProperties
<1>11. n[1] = Accepted /\ Len(n) > 0
    BY <1>15, <1>7, <1>10
<1>12. ASSUME NEW i \in 1 .. p
       PROVE  i + 1 \in 2 .. Len(n) /\ n[i + 1] = Here(Owner(f[i]))
    <2>1. i + 1 \in 1 .. 1 + p /\ ~(i + 1 =< 1) /\ (i + 1) - 1 = i /\ i + 1 \in 2 .. Len(n)
        BY <1>15, <1>10
    <2>2. n[i + 1] = g[i]
        BY <1>10, <2>1
    <2>. QED BY <1>6, <2>1, <2>2
<1>13. ASSUME NEW i \in 2 .. Len(n)
       PROVE  \E j \in ships : (j = k \/ conn[j].known) /\ n[i] = Here(Owner(j))
    <2>1. i - 1 \in 1 .. p /\ (i - 1) + 1 = i
        BY <1>15, <1>10
    <2>2. n[i] = Here(Owner(f[i - 1])) /\ f[i - 1] \in S
        BY <1>15, <1>12, <2>1
    <2>. QED BY <1>2, <2>2
<1>14. ASSUME NEW j \in ships, j = k \/ conn[j].known
       PROVE  \E i \in 2 .. Len(n) : n[i] = Here(Owner(j))
    <2>1. PICK i \in 1 .. p : f[i] = j
        BY <1>2, <1>15, <1>14
    <2>. QED BY <1>12, <2>1
<1>. QED BY <1>8, <1>10, <1>11, <1>13, <1>14

LEMMA LoginHeard ==
    ASSUME IInv, GhostInv, HeardInv, NEW k \in ships, conn[k].up # <<>>,
           HandleLogin(k, Popped(k)), UNCHANGED <<sock, hasKey, fleet, lost>>
    PROVE  HeardInv'
<1>1. /\ k \in Conns /\ ships \subseteq Conns /\ TypeOK /\ RowsBacked
      /\ ships' = ships /\ listed' = listed \cup {Owner(k)} /\ Owner(k) \notin listed
    BY DEF IInv, TypeOK, HandleLogin
<1>2. PICK x \in Ships : x = Owner(k)
    BY <1>1, Field DEF Owner, TypeOK
<1>3. PICK told : told = Told(Popped(k), ships, LoginNews(k))
    OBVIOUS
<1>4. PICK cn \in [Conns -> Conn] : cn = Popped(k)
    BY <1>1, PoppedFields
<1>5. told \in [Conns -> Conn] /\ conn' = Known(told, k)
    <2>1. told \in [Conns -> Conn]
        BY <1>3, <1>4, NewsType, ToldType DEF Alike
    <2>2. conn' = Known(told, k)
        BY <1>3 DEF HandleLogin, Known
    <2>. QED BY <2>1, <2>2
<1>6. ASSUME NEW j \in Conns
      PROVE  /\ Kept(conn'[j], conn[j])
             /\ j = k => conn'[j].known
             /\ j # k => conn'[j].known = conn[j].known
             /\ j # k => conn'[j].up = conn[j].up
             /\ conn'[j].down = IF conn[j].wire = "up" /\ j \in ships
                                  THEN conn[j].down \o LoginNews(k)[j] ELSE conn[j].down
    <2>1. /\ Kept(cn[j], conn[j]) /\ cn[j].known = conn[j].known /\ cn[j].down = conn[j].down
          /\ j # k => cn[j].up = conn[j].up
        BY <1>1, <1>4, PoppedFields
    <2>2. /\ Kept(told[j], cn[j]) /\ told[j].known = cn[j].known /\ told[j].up = cn[j].up
          /\ told[j].down = IF cn[j].wire = "up" /\ j \in ships
                              THEN cn[j].down \o LoginNews(k)[j] ELSE cn[j].down
        BY <1>3, <1>4, ToldFields
    <2>3. /\ Kept(conn'[j], told[j]) /\ conn'[j].up = told[j].up /\ conn'[j].down = told[j].down
          /\ j = k => conn'[j].known
          /\ j # k => conn'[j].known = told[j].known
        <3>1. LET n == Known(told, k)[j] IN
              /\ Kept(n, told[j]) /\ n.up = told[j].up /\ n.down = told[j].down
              /\ j = k => n.known
              /\ j # k => n.known = told[j].known
            BY <1>1, <1>5, KnownFields
        <3>. QED BY <1>5, <3>1
    <2>. QED BY <2>1, <2>2, <2>3 DEF Kept
<1>7. ASSUME ~lost
      PROVE  Single /\ Logins /\ View /\ Counts
    BY <1>7 DEF HeardInv
<1>8. ASSUME ~lost, NEW j \in ships
      PROVE  /\ conn'[j].known <=> Owner(j) \in listed'
             /\ Speaks(conn'[j].up) => conn'[j].known
    <2>1. CASE j = k
        BY <1>1, <1>6, <2>1
    <2>2. CASE j # k
        <3>1. Owner(j) # Owner(k)
            BY <1>7, <1>8, <2>2 DEF Single
        <3>. QED BY <1>1, <1>6, <1>7, <1>8, <2>2, <3>1 DEF Logins
    <2>. QED BY <2>1, <2>2
<1>9. ASSUME ~lost, NEW s \in Ships, sock[s] \in ships
      PROVE  /\ Hears(hasKey[s], fleet[s], conn'[sock[s]].down, conn'[sock[s]].known, listed')
             /\ InOrder(hasKey[s], fleet[s], conn'[sock[s]].down)
    <2>1. Linked(s) /\ sock[s] \in Conns /\ sock[s] # None /\ conn[sock[s]].wire = "up"
        BY <1>9, LinkedConn DEF Linked
    <2>2. CASE sock[s] # k
        <3>1. conn'[sock[s]].down = conn[sock[s]].down \o <<Here(x)>>
            <4>1. LoginNews(k)[sock[s]] = <<Here(x)>>
                BY <1>2, <2>1, <2>2 DEF LoginNews, Here
            <4>. QED BY <1>6, <1>9, <2>1, <4>1
        <3>2. Here(x) \in ToShip /\ Here(x) # Accepted
            BY NewsApart, PacketTypes DEF Here
        <3>3. /\ \A t \in Ships : t \in listed' <=>
                    Here(x) = Here(t) \/ (t \in listed /\ Here(x) # Gone(t))
              /\ \A t \in Ships : Here(x) # Count(t)
            BY <1>1, <1>2, NewsApart
        <3>4. PICK now : now = listed'
            OBVIOUS
        <3>5. /\ Hears(hasKey[s], fleet[s], conn[sock[s]].down \o <<Here(x)>>,
                       conn[sock[s]].known, now)
              /\ InOrder(hasKey[s], fleet[s], conn[sock[s]].down \o <<Here(x)>>)
            BY <1>7, <1>9, <2>1, <3>2, <3>3, <3>4, MoreHeard
        <3>. QED BY <1>6, <2>1, <2>2, <3>1, <3>4, <3>5
    <2>3. CASE sock[s] = k
        <3>1. PICK q \in Seq(ToShip) : q = conn[k].down
            BY <2>1, <2>3, LinkedConn
        <3>2. PICK news \in Seq(ToShip) : news = LoginNews(k)[k]
            BY NewsList
        <3>3. conn'[k].down = q \o news /\ conn'[k].known
            BY <1>1, <1>6, <2>1, <2>3, <3>1, <3>2
        <3>4. PICK now : now = listed'
            OBVIOUS
        <3>5. ~conn[k].known
            BY <1>1, <1>7, <1>9 DEF Logins
        <3>6. PICK key \in BOOLEAN : key = hasKey[s]
            BY <1>1 DEF TypeOK
        <3>7. ~Keyed(key, q, Len(q)) /\ InOrder(key, fleet[s], q)
            BY <1>7, <1>9, <2>1, <2>3, <3>1, <3>5, <3>6 DEF View, Counts, Hears
        <3>8. fleet[s] = {}
            BY <3>6, <3>7 DEF Keyed, HeardInv, Keyless
        <3>9. Len(news) > 0 /\ news[1] = Accepted
            BY <3>2, NewsList
        <3>10. \A i \in 2 .. Len(news) : \E j \in ships :
                  (j = k \/ conn[j].known) /\ news[i] = Here(Owner(j))
            BY <3>2, NewsList
        <3>11. \A j \in ships : j = k \/ conn[j].known =>
                  \E i \in 2 .. Len(news) : news[i] = Here(Owner(j))
            BY <3>2, NewsList
        <3>12. \A j \in ships : Owner(j) \in Ships
            BY <1>1, Field DEF Owner, TypeOK
        <3>13. \A i \in 2 .. Len(news) : \E t \in Ships : news[i] = Here(t)
            BY <3>10, <3>12
        <3>14. \A t \in Ships : t \in now <=> \E j \in ships : /\ j = k \/ conn[j].known
                                                              /\ Owner(j) = t
            BY <1>1, <1>7, <1>9, <3>4 DEF RowsBacked, Logins
        <3>15. \A t \in Ships : t \in now <=> \E i \in 2 .. Len(news) : news[i] = Here(t)
            <4>1. ASSUME NEW t \in Ships, t \in now
                  PROVE  \E i \in 2 .. Len(news) : news[i] = Here(t)
                BY <3>11, <3>14, <4>1
            <4>2. ASSUME NEW t \in Ships, NEW i \in 2 .. Len(news), news[i] = Here(t)
                  PROVE  t \in now
                <5>1. PICK j \in ships : (j = k \/ conn[j].known) /\ news[i] = Here(Owner(j))
                    BY <3>10
                <5>2. Owner(j) = t
                    BY <4>2, <5>1, NewsApart
                <5>. QED BY <3>14, <5>1, <5>2
            <4>. QED BY <4>1, <4>2
        <3>16. Hears(key, {}, q \o news, TRUE, now) /\ InOrder(key, {}, q \o news)
            BY <3>7, <3>8, <3>9, <3>13, <3>15, NewsHears
        <3>17. Hears(key, {}, q \o news, conn'[k].known, now)
            BY <3>3, <3>16 DEF Hears
        <3>. QED BY <2>3, <3>3, <3>4, <3>6, <3>8, <3>16, <3>17
    <2>. QED BY <2>2, <2>3
<1>10. ASSUME ~lost, NEW s \in Ships, sock[s] # None
       PROVE  InOrder(hasKey[s], fleet[s], conn'[sock[s]].down)
    <2>1. CASE sock[s] \in ships
        BY <1>9, <1>10, <2>1
    <2>2. CASE sock[s] \notin ships
        <3>1. sock[s] \in Conns
            BY <1>1, <1>10 DEF TypeOK
        <3>. QED BY <1>6, <1>7, <1>10, <2>2, <3>1 DEF Counts
    <2>. QED BY <2>1, <2>2
<1>11. \A j \in Conns : Kept(conn'[j], conn[j])
    BY <1>6
<1>. QED BY <1>1, <1>8, <1>9, <1>10, <1>11, GateHeard

LEMMA GateReadsHeard ==
    ASSUME IInv, GhostInv, HeardInv, NEW k \in Conns, GateReads(k)
    PROVE  HeardInv'
<1>. DEFINE m == Head(conn[k].up)
<1>0. k \in ships /\ conn[k].up # <<>> /\ TypeOK /\ UNCHANGED <<sock, hasKey, fleet, lost>>
    BY DEF GateReads, shipVars, IInv
<1>1. PICK cn \in [Conns -> Conn] : cn = Popped(k)
    BY <1>0, PoppedFields
<1>2. \A j \in Conns : /\ Kept(cn[j], conn[j]) /\ cn[j].known = conn[j].known
                       /\ cn[j].down = conn[j].down
                       /\ cn[j].up = IF j = k THEN Tail(conn[k].up) ELSE conn[j].up
    BY <1>0, <1>1, PoppedFields
<1>3. \/ m = Login /\ (HandleLogin(k, cn) \/ LoginFails(k, cn))
      \/ m.type = "blklogin"  /\ HandleBlockLogin(k, m, cn)
      \/ m.type = "blklogout" /\ HandleBlockLogout(k, m, cn)
      \/ m.type = "bclients"  /\ HandleClients(k, m, cn)
      \/ m.type = "count"     /\ HandleCount(k, m, cn)
    BY <1>1 DEF GateReads, Popped
<1>4. m \in ToGate
    <2>1. conn[k].up \in Seq(ToGate)
        BY <1>0, Field DEF TypeOK
    <2>. QED BY <1>0, <2>1
<1>5. m # Login => (~lost => Owner(k) \in listed)
    <2>1. conn[k].up \in Seq(ToGate)
        BY <1>0, Field DEF TypeOK
    <2>2. m # Login => Speaks(conn[k].up)
        BY <1>0, <2>1, TailSpeaks
    <2>. QED BY <1>0, <2>2 DEF HeardInv, Logins
<1>. HIDE DEF m
<1>6. ASSUME UNCHANGED <<ships, listed>>, NEW p \in ToShip,
             p # Accepted, \A t : p # Here(t) /\ p # Gone(t),
             ~lost => \A t \in Ships : p = Count(t) => t \in listed,
             \A j \in Conns : /\ Kept(conn'[j], cn[j]) /\ conn'[j].known = cn[j].known
                              /\ conn'[j].up = cn[j].up
                              /\ \/ conn'[j].down = cn[j].down
                                 \/ j \in ships /\ conn'[j].down = cn[j].down \o <<p>>
      PROVE  HeardInv'
    <2>1. \A j \in Conns : /\ Kept(conn'[j], conn[j]) /\ conn'[j].known = conn[j].known
                           /\ conn'[j].up = IF j = k THEN Tail(conn[k].up) ELSE conn[j].up
        BY <1>2, <1>6 DEF Kept
    <2>2. \A j \in Conns : \/ conn'[j].down = conn[j].down
                           \/ j \in ships /\ conn'[j].down = conn[j].down \o <<p>>
        BY <1>2, <1>6
    <2>. QED BY <1>0, <1>6, <2>1, <2>2, TellHeard
<1>7. ASSUME UNCHANGED <<ships, listed>>, conn' = cn
      PROVE  HeardInv'
    <2>1. Refused \in ToShip /\ Refused.type = "refused"
        BY PacketTypes DEF Refused
    <2>2. Refused # Accepted /\ \A t : Refused # Count(t) /\ Refused # Here(t) /\ Refused # Gone(t)
        BY <2>1, OthersApart
    <2>3. \A j \in Conns : Kept(cn[j], cn[j])
        BY DEF Kept
    <2>. QED BY <1>6, <1>7, <2>1, <2>2, <2>3
<1>8. CASE m = Login /\ HandleLogin(k, cn)
    BY <1>0, <1>1, <1>8, LoginHeard
<1>9. CASE m = Login /\ LoginFails(k, cn)
    <2>1. PICK told : told = Told(cn, {k}, ToAll(Refused))
        OBVIOUS
    <2>2. ToAll(Refused) \in [Conns -> Seq(ToShip)] /\ ToAll(Refused)[k] = <<Refused>>
        BY ToAllType, PacketTypes DEF ToAll
    <2>3. told \in [Conns -> Conn]
        BY <1>1, <2>1, <2>2, ToldType DEF Alike
    <2>4. \A j \in Conns : /\ Kept(told[j], cn[j]) /\ told[j].known = cn[j].known
                           /\ told[j].up = cn[j].up
                           /\ told[j].down = IF cn[j].wire = "up" /\ j \in {k}
                                               THEN cn[j].down \o ToAll(Refused)[j]
                                               ELSE cn[j].down
        BY <1>1, <2>1, ToldFields
    <2>5. Disconnect(k, Known(told, k)) /\ Owner(k) \in listed
        BY <1>9, <2>1 DEF LoginFails, Known
    <2>6. PICK dn \in [Conns -> Conn] : dn = Known(told, k)
        BY <2>3, KnownFields
    <2>7. \A j \in Conns : /\ Kept(dn[j], told[j]) /\ dn[j].up = told[j].up
                           /\ dn[j].down = told[j].down
                           /\ j = k => dn[j].known
                           /\ j # k => dn[j].known = told[j].known
        <3> SUFFICES ASSUME NEW j \in Conns
                     PROVE  LET n == Known(told, k)[j] IN
                            /\ Kept(n, told[j]) /\ n.up = told[j].up
                            /\ n.down = told[j].down
                            /\ j = k => n.known
                            /\ j # k => n.known = told[j].known
            BY <2>6
        <3>. QED BY <2>3, KnownFields
    <2>8. \A j \in Conns : /\ Kept(dn[j], conn[j])
                           /\ j # k => /\ dn[j].known = conn[j].known
                                       /\ dn[j].up = conn[j].up
                                       /\ dn[j].down = conn[j].down
        BY <1>2, <2>4, <2>7 DEF Kept
    <2>9. dn[k].down \in {conn[k].down, conn[k].down \o <<Refused>>} /\ dn[k].known
        BY <1>2, <2>2, <2>4, <2>7
    <2>10. Disconnect(k, dn)
        BY <2>5, <2>6
    <2>. QED BY <1>0, <2>5, <2>8, <2>9, <2>10, DisconnectHeard
<1>10. CASE m.type = "blklogin" /\ HandleBlockLogin(k, m, cn)
    <2>1. UNCHANGED <<ships, listed>>
        BY <1>10 DEF HandleBlockLogin
    <2>2. CASE conn' = cn
        BY <1>7, <2>1, <2>2
    <2>3. CASE conn' # cn
        <3>1. conn' = Told(cn, {k}, ToAll(BLoginErr(m.card, m.block)))
            BY <1>10, <2>3 DEF HandleBlockLogin
        <3>2. PICK p \in ToShip : p = BLoginErr(m.card, m.block)
            BY <1>4, <1>10, GatePackets, PacketTypes
        <3>3. p.type = "bloginerr"
            BY <3>2 DEF BLoginErr
        <3>4. p # Accepted /\ \A t : p # Count(t) /\ p # Here(t) /\ p # Gone(t)
            BY <3>3, OthersApart
        <3>5. \A j \in Conns : ToAll(p)[j] = <<p>>
            BY DEF ToAll
        <3>6. \A j \in Conns : /\ Kept(conn'[j], cn[j]) /\ conn'[j].known = cn[j].known
                               /\ conn'[j].up = cn[j].up
                               /\ conn'[j].down = IF cn[j].wire = "up" /\ j \in {k}
                                                    THEN cn[j].down \o ToAll(p)[j]
                                                    ELSE cn[j].down
            BY <1>1, <3>1, <3>2, ToldFields
        <3>7. \A j \in Conns : \/ conn'[j].down = cn[j].down
                               \/ j \in ships /\ conn'[j].down = cn[j].down \o <<p>>
            BY <1>0, <3>5, <3>6
        <3>. QED BY <1>6, <2>1, <3>4, <3>6, <3>7
    <2>. QED BY <2>2, <2>3
<1>11. CASE m.type = "blklogout" /\ HandleBlockLogout(k, m, cn)
    BY <1>7, <1>11 DEF HandleBlockLogout
<1>12. CASE m.type = "bclients" /\ HandleClients(k, m, cn)
    BY <1>7, <1>12 DEF HandleClients
<1>13. CASE m.type = "count" /\ HandleCount(k, m, cn)
    <2>1. UNCHANGED <<ships, listed>> /\ conn' = Told(cn, ships, ToAll(Count(Owner(k))))
        BY <1>13 DEF HandleCount, gateVars
    <2>2. m # Login
        BY <1>13 DEF Login
    <2>3. PICK x \in Ships : x = Owner(k)
        BY <1>0, Field DEF Owner, TypeOK
    <2>4. Count(x) \in ToShip /\ Count(x) # Accepted /\ \A t : Count(x) # Here(t) /\ Count(x) # Gone(t)
        BY NewsApart, CountApart, PacketTypes
    <2>5. ~lost => \A t \in Ships : Count(x) = Count(t) => t \in listed
        BY <1>5, <2>2, <2>3, CountApart
    <2>6. PICK p \in ToShip : p = Count(x)
        BY <2>4
    <2>7. \A j \in Conns : ToAll(p)[j] = <<p>>
        BY DEF ToAll
    <2>8. \A j \in Conns : /\ Kept(conn'[j], cn[j]) /\ conn'[j].known = cn[j].known
                           /\ conn'[j].up = cn[j].up
                           /\ conn'[j].down = IF cn[j].wire = "up" /\ j \in ships
                                                THEN cn[j].down \o ToAll(p)[j]
                                                ELSE cn[j].down
        BY <1>1, <2>1, <2>3, <2>6, ToldFields
    <2>9. \A j \in Conns : \/ conn'[j].down = cn[j].down
                           \/ j \in ships /\ conn'[j].down = cn[j].down \o <<p>>
        BY <2>7, <2>8
    <2>10. p # Accepted /\ \A t : p # Here(t) /\ p # Gone(t)
        BY <2>4, <2>6
    <2>11. ~lost => \A t \in Ships : p = Count(t) => t \in listed
        BY <2>5, <2>6
    <2>. QED BY <1>6, <2>1, <2>8, <2>9, <2>10, <2>11
<1>. QED BY <1>3, <1>8, <1>9, <1>10, <1>11, <1>12, <1>13

LEMMA GateSweepsHeard ==
    ASSUME IInv, GhostInv, HeardInv, NEW k \in Conns, GateSweeps(k)
    PROVE  HeardInv'
<1>1. /\ k \in ships /\ Disconnect(k, conn) /\ conn \in [Conns -> Conn]
      /\ UNCHANGED <<sock, hasKey, fleet, lost>>
    BY DEF GateSweeps, shipVars, IInv, TypeOK
<1>2. \A j \in Conns : Kept(conn[j], conn[j])
    BY DEF Kept
<1>3. ~lost => (conn[k].known <=> Owner(k) \in listed)
    BY <1>1 DEF HeardInv, Logins
<1>. QED BY <1>1, <1>2, <1>3, DisconnectHeard

LEMMA GateRestartsHeard ==
    ASSUME IInv, GhostInv, HeardInv, GateRestarts
    PROVE  HeardInv'
<1>1. /\ ships' = {} /\ UNCHANGED <<sock, hasKey, fleet, lost>>
      /\ conn' = [k \in Conns |-> [conn[k] EXCEPT !.known = FALSE, !.up = <<>>]]
    BY DEF GateRestarts, shipVars
<1>2. \A k \in Conns : Kept(conn'[k], conn[k]) /\ conn'[k].down = conn[k].down
    <2>1. \A k \in Conns : conn[k] \in Conn
        BY DEF IInv, TypeOK
    <2>. QED BY <1>1, <2>1 DEF Kept, Conn
<1>3. ~lost => \A s \in Ships : sock[s] # None =>
         InOrder(hasKey[s], fleet[s], conn'[sock[s]].down)
    <2>1. \A s \in Ships : sock[s] # None => sock[s] \in Conns
        BY DEF IInv, TypeOK
    <2>. QED BY <1>2, <2>1 DEF HeardInv, Counts
<1>. QED BY <1>1, <1>2, <1>3, GateHeard

\* What the ships and their clients say does not change what ships know.
LEMMA SentHeard ==
    ASSUME IInv, GhostInv, HeardInv, NEW s \in Ships, NEW msgs \in Seq(ToGate),
           conn' = Sent(conn, s, msgs),
           UNCHANGED <<sock, hasKey, fleet, ships, listed, lost>>
    PROVE  HeardInv'
<1>1. TypeOK
    BY DEF IInv
<1>2. \A k \in Conns : /\ Kept(conn'[k], conn[k])
                       /\ conn'[k].known = conn[k].known
                       /\ conn'[k].down = conn[k].down
                       /\ \/ conn'[k].up = conn[k].up
                          \/ k = sock[s] /\ Linked(s) /\ hasKey[s]
    BY <1>1, SentFields
<1>. QED BY <1>2, SayHeard

LEMMA SilentHeard ==
    ASSUME IInv, GhostInv, HeardInv,
           UNCHANGED <<sock, hasKey, fleet, ships, listed, lost, conn>>
    PROVE  HeardInv'
<1>1. \A k \in Conns : Kept(conn'[k], conn[k])
    BY DEF Kept
<1>. QED BY <1>1, SayHeard

LEMMA ClientHeard ==
    ASSUME IInv, GhostInv, HeardInv, NEW c \in Clients,
           (\E p \in Places : Arrive(c, p)) \/ Announce(c) \/ Leave(c)
    PROVE  HeardInv'
<1>0. TypeOK
    BY DEF IInv
<1>1. ASSUME NEW p \in Places, Arrive(c, p)
      PROVE  HeardInv'
    <2>1. /\ p[1] \in Ships /\ <<Count(p[1])>> \in Seq(ToGate)
          /\ conn' = Sent(conn, p[1], <<Count(p[1])>>)
        BY <1>0, <1>1, Sayings DEF Arrive, Places
    <2>2. UNCHANGED <<sock, hasKey, fleet, ships, listed, lost>>
        BY <1>1 DEF Arrive, shipVars, gateVars
    <2>. QED BY <2>1, <2>2, SentHeard
<1>2. CASE Announce(c)
    <2>1. /\ at[c][1] \in Ships /\ <<BlkLogin(Account[c], at[c][2])>> \in Seq(ToGate)
          /\ conn' = Sent(conn, at[c][1], <<BlkLogin(Account[c], at[c][2])>>)
        BY <1>0, <1>2, Sayings DEF Announce
    <2>2. UNCHANGED <<sock, hasKey, fleet, ships, listed, lost>>
        BY <1>2 DEF Announce, shipVars, gateVars
    <2>. QED BY <2>1, <2>2, SentHeard
<1>3. CASE Leave(c)
    <2>. DEFINE out == IF named[c] \/ c \in BB THEN <<BlkLogout(Account[c])>> ELSE <<>>
    <2>1. at[c][1] \in Ships /\ <<Count(at[c][1])>> \in Seq(ToGate)
        BY <1>0, <1>3, Sayings DEF Leave
    <2>2. out \in Seq(ToGate)
        BY <1>0, Sayings
    <2>3. out \o <<Count(at[c][1])>> \in Seq(ToGate)
        BY <2>1, <2>2
    <2>4. conn' = Sent(conn, at[c][1], out \o <<Count(at[c][1])>>)
        BY <1>3 DEF Leave
    <2>5. UNCHANGED <<sock, hasKey, fleet, ships, listed, lost>>
        BY <1>3 DEF Leave, gateVars
    <2>. HIDE DEF out
    <2>. QED BY <2>1, <2>3, <2>4, <2>5, SentHeard
<1>. QED BY <1>1, <1>2, <1>3

LEMMA BurstsHeard ==
    ASSUME IInv, GhostInv, HeardInv, NEW s \in Ships, ShipLists(s) \/ ShipBursts(s)
    PROVE  HeardInv'
<1>1. UNCHANGED <<sock, hasKey, fleet, ships, listed, lost>>
    BY DEF ShipLists, ShipBursts, gateVars, netVars
<1>2. CASE ShipLists(s)
    BY <1>1, <1>2, SilentHeard DEF ShipLists, netVars
<1>3. CASE ShipBursts(s)
    <2>. DEFINE msgs == <<BClients(burst[s], entries[s])>>
    <2>1. burst[s] \in Blocks /\ entries[s] \subseteq Cards
        BY <1>3, BlockAfter DEF ShipBursts, IInv, TypeOK
    <2>2. msgs \in Seq(ToGate)
        BY <2>1, PacketTypes, OneList
    <2>3. conn' = Sent(conn, s, msgs)
        BY <1>3 DEF ShipBursts
    <2>. HIDE DEF msgs
    <2>. QED BY <1>1, <2>2, <2>3, SentHeard
<1>. QED BY <1>2, <1>3

LEMMA ShipReadsHeard ==
    ASSUME IInv, GhostInv, HeardInv, NEW s \in Ships, ShipReads(s)
    PROVE  HeardInv'
<1>. DEFINE m == Head(conn[sock[s]].down)
<1>0. /\ sock[s] # None /\ sock[s] \in Conns /\ conn[sock[s]].down # <<>> /\ TypeOK
      /\ UNCHANGED <<ships, listed, lost>>
    BY DEF ShipReads, IInv, TypeOK, gateVars
<1>1. /\ hasKey \in [Ships -> BOOLEAN] /\ fleet \in [Ships -> SUBSET Ships]
    BY <1>0 DEF TypeOK
<1>2. Accepted.type = "accepted" /\ Welcome.type = "welcome"
    BY DEF Accepted, Welcome
<1>3. ASSUME conn' = Read(s) \/ conn' = Answered(s), UNCHANGED <<sock, hasKey, fleet>>,
             m # Accepted, ~(hasKey[s] /\ m.type = "status")
      PROVE  HeardInv'
    BY <1>0, <1>1, <1>3, ReadHeard
<1>4. CASE /\ m = Welcome /\ ~hasKey[s]
           /\ conn' = IF Linked(s) THEN Answered(s) ELSE Read(s)
           /\ UNCHANGED shipVars
    BY <1>2, <1>3, <1>4 DEF shipVars
<1>5. CASE /\ m = Accepted
           /\ hasKey' = [hasKey EXCEPT ![s] = TRUE]
           /\ conn'   = Read(s)
           /\ UNCHANGED <<sock, fleet>>
    <2>1. /\ hasKey' \in [Ships -> BOOLEAN] /\ hasKey'[s]
          /\ \A t \in Ships : t # s => hasKey'[t] = hasKey[t] /\ fleet'[t] = fleet[t]
        BY <1>1, <1>5
    <2>2. m.type # "status"
        BY <1>2, <1>5
    <2>. QED BY <1>0, <1>5, <2>1, <2>2, ReadHeard
<1>6. CASE Hangup(s, Closed(sock[s]))
    <2>1. Len(conn[sock[s]].up) \in 0 .. Len(conn[sock[s]].up)
        BY <1>0, Field DEF TypeOK
    <2>2. Hangup(s, Cut(sock[s], "closed", Len(conn[sock[s]].up)))
        BY <1>6 DEF Closed
    <2>. QED BY <1>0, <2>1, <2>2, HangHeard
<1>7. CASE /\ m.type = "status" /\ hasKey[s]
           /\ fleet' = [fleet EXCEPT ![s] = FleetAfter(@, m)]
           /\ conn'  = Read(s)
           /\ UNCHANGED <<sock, hasKey>>
    <2>1. /\ fleet'[s] = FleetAfter(fleet[s], m)
          /\ \A t \in Ships : t # s => hasKey'[t] = hasKey[t] /\ fleet'[t] = fleet[t]
        BY <1>1, <1>7
    <2>2. m # Accepted
        BY <1>2, <1>7
    <2>. QED BY <1>0, <1>1, <1>7, <2>1, <2>2, ReadHeard
<1>8. CASE /\ m.type = "bloginerr"
           /\ conn' = Read(s)
           /\ UNCHANGED shipVars
    BY <1>2, <1>3, <1>8 DEF shipVars
<1>9. CASE /\ \/ m.type = "count"
              \/ ~hasKey[s] /\ m.type \in {"count", "status", "bloginerr"}
           /\ conn' = Read(s)
           /\ UNCHANGED shipVars
    BY <1>2, <1>3, <1>9 DEF shipVars
<1>. HIDE DEF m
<1>. QED BY <1>4, <1>5, <1>6, <1>7, <1>8, <1>9 DEF ShipReads, Answered, m

LEMMA EndHeard ==
    ASSUME IInv, GhostInv, HeardInv, NEW s \in Ships,
           ShipReadsEnd(s) \/ LinkBreaks(s) \/ ShipCrashes(s)
    PROVE  HeardInv'
<1>0. sock[s] # None /\ UNCHANGED <<ships, listed>> /\ sock[s] \in Conns
    BY DEF ShipReadsEnd, LinkBreaks, ShipCrashes, gateVars, IInv, TypeOK
<1>1. CASE ShipReadsEnd(s)
    <2>1. Len(conn[sock[s]].up) \in 0 .. Len(conn[sock[s]].up)
        BY <1>0, Field DEF IInv, TypeOK
    <2>2. /\ Hangup(s, Cut(sock[s], "closed", Len(conn[sock[s]].up)))
          /\ lost' <=> lost \/ "closed" = "dead"
        BY <1>1 DEF ShipReadsEnd, Closed
    <2>. QED BY <1>0, <2>1, <2>2, HangHeard
<1>2. CASE LinkBreaks(s) \/ ShipCrashes(s)
    <2>1. PICK w \in {"closed", "dead"}, n \in 0 .. Len(conn[sock[s]].up) :
             /\ Hangup(s, Cut(sock[s], w, n))
             /\ lost' = (lost \/ w = "dead")
        BY <1>2 DEF LinkBreaks, ShipCrashes, Break
    <2>. QED BY <1>0, <2>1, HangHeard
<1>. QED BY <1>1, <1>2

LEMMA HeardNext == IInv /\ GhostInv /\ HeardInv /\ [Next]_vars => HeardInv'
<1>. SUFFICES ASSUME IInv, GhostInv, HeardInv, [Next]_vars PROVE HeardInv'
    OBVIOUS
<1>1. ASSUME NEW s \in Ships, ShipStep(s) \/ LinkBreaks(s) \/ ShipCrashes(s)
      PROVE  HeardInv'
    BY <1>1, ConnectHeard, ShipReadsHeard, BurstsHeard, EndHeard DEF ShipStep
<1>2. ASSUME NEW c \in Clients,
             (\E p \in Places : Arrive(c, p)) \/ Announce(c) \/ Leave(c)
      PROVE  HeardInv'
    BY <1>2, ClientHeard
<1>3. ASSUME NEW k \in Conns, GateReads(k) \/ GateSweeps(k)
      PROVE  HeardInv'
    BY <1>3, GateReadsHeard, GateSweepsHeard
<1>4. CASE UNCHANGED vars
    <2>1. UNCHANGED <<sock, hasKey, fleet, ships, listed, lost, conn>>
        BY <1>4 DEF vars, shipVars, gateVars, netVars
    <2>. QED BY <2>1, SilentHeard
<1>. QED BY <1>1, <1>2, <1>3, <1>4, GateRestartsHeard DEF Next

LEMMA HeardAlways == Spec => [](IInv /\ GhostInv /\ HeardInv)
<1>1. Init => GhostInv
    BY DEF Init, GhostInv, Sockets, Silent, Reports, Rows, Linked
<1>2. Init => HeardInv
    BY DEF Init, HeardInv, Keyless, Single, Logins, View, Counts, Linked
<1>. QED BY <1>1, <1>2, InitCorrect, NextKeeps, GhostNext, HeardNext, PTL DEF Spec

\* As long as the gate hears of every link that ends, a ship that has heard
\* the gate out knows the ships that are listed: the news of its login tells
\* it of all that have logged in, each arrival and departure is told before
\* anything later, and a reconnected ship starts from nothing
\* (handle_shipgate_login6t, remove_ship, handle_sstatus).
THEOREM FleetsCorrect == Spec => []FleetsAgree
<1>1. IInv /\ GhostInv /\ HeardInv => FleetsAgree
    <2> SUFFICES ASSUME IInv, GhostInv, HeardInv, ~lost,
                        \A k \in ships : Quiet(Owner(k)),
                        NEW s \in Ships, hasKey[s], Linked(s)
                 PROVE  fleet[s] = listed
        BY DEF FleetsAgree
    <2>1. fleet[s] \in SUBSET Ships /\ listed \in SUBSET Ships
        BY DEF IInv, TypeOK
    <2>2. Owner(sock[s]) = s
        BY LinkedConn
    <2>3. conn[sock[s]].down = <<>>
        BY <2>2 DEF Linked, Quiet
    <2>4. Hears(hasKey[s], fleet[s], <<>>, conn[sock[s]].known, listed)
        BY <2>3 DEF HeardInv, View
    <2>5. Len(<<>>) = 0 /\ \A i : i \notin 1 .. 0
        OBVIOUS
    <2>6. \A t \in Ships : Knows(hasKey[s], fleet[s], <<>>, 0, t) <=> t \in fleet[s]
        BY <2>5 DEF Knows
    <2>7. Keyed(hasKey[s], <<>>, 0)
        BY DEF Keyed
    <2>8. \A t \in Ships : t \in listed <=> t \in fleet[s]
        BY <2>4, <2>5, <2>6, <2>7 DEF Hears
    <2>. QED BY <2>1, <2>8
<1>. QED BY <1>1, HeardAlways, PTL

\* ... and the player counts that a ship is told are of a ship it knows when
\* it comes to them: a ship's counts are passed on only after it has logged
\* in, and nothing that is on its way overtakes the news of that
\* (handle_count).
THEOREM CountsCorrect == Spec => []CountHeardInOrder
<1>1. IInv /\ GhostInv /\ HeardInv => CountHeardInOrder
    <2> SUFFICES ASSUME IInv, GhostInv, HeardInv, ~lost, NEW s \in Ships,
                        sock[s] # None, hasKey[s], conn[sock[s]].down # <<>>,
                        Head(conn[sock[s]].down).type = "count"
                 PROVE  Head(conn[sock[s]].down).ship \in fleet[s]
        BY DEF CountHeardInOrder, CountKnowsShip
    <2>1. sock[s] \in Conns
        BY DEF IInv, TypeOK
    <2>2. PICK q \in Seq(ToShip) : q = conn[sock[s]].down /\ q # <<>>
        BY <2>1, Field DEF IInv, TypeOK
    <2>3. 1 \in 1 .. Len(q) /\ Head(q) = q[1] /\ Head(q) \in ToShip
        BY <2>2, EmptySeq, HeadTailProperties
    <2>4. PICK t \in Ships : q[1] = Count(t)
        BY <2>2, <2>3 DEF ToShip, Welcome, Accepted, Refused, Count, Status, BLoginErr
    <2>5. Count(t).ship = t
        BY DEF Count
    <2>6. 1 - 1 = 0 /\ \A i : i \notin 1 .. 0
        OBVIOUS
    <2>7. Keyed(hasKey[s], q, 1 - 1)
        BY DEF Keyed
    <2>8. InOrder(hasKey[s], fleet[s], q)
        BY <2>2 DEF HeardInv, Counts
    <2>9. Knows(hasKey[s], fleet[s], q, 1 - 1, t)
        BY <2>3, <2>4, <2>7, <2>8 DEF InOrder
    <2>10. t \in fleet[s]
        BY <2>6, <2>9 DEF Knows
    <2>. QED BY <2>2, <2>3, <2>4, <2>5, <2>10
<1>. QED BY <1>1, HeardAlways, PTL
=============================================================================
