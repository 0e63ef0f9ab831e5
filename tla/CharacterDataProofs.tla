------------------------ MODULE CharacterDataProofs ------------------------
(***************************************************************************)
(* CharacterData for any accounts, ships, clients and items: type          *)
(* correctness; that a stored character is never lost to the zeroes of a   *)
(* client that has not loaded its own; that what a client left in order is *)
(* what is stored in the end; and that the next one finds it.              *)
(*                                                                         *)
(* For the last two the invariant says of every account how far the client *)
(* that plays on it has come in loading it, given what is on the way in    *)
(* both directions (Stage), and, when nobody plays on it, what the saves   *)
(* on the way will make of what is stored (Will).                          *)
(***************************************************************************)
EXTENDS CharacterData, SequenceTheorems, TLAPS

-----------------------------------------------------------------------------
(* What the operators return.                                              *)

LEMMA RequestType ==
    ASSUME NEW c \in Clients
    PROVE  Request("CREQ", c) \in Packet /\ Request("BBOPT_REQ", c) \in Packet
BY ConstantsAssumption DEF Request, Packet, Cleared, Data, Characters

LEMMA SaveType ==
    ASSUME TypeOK, NEW c \in Clients
    PROVE  Save("CDATA", c) \in Packet /\ Save("BBOPTS", c) \in Packet
<1>1. client[c].data \in Data
    BY DEF TypeOK, ClientRec
<1>. QED
    BY <1>1, ConstantsAssumption DEF Save, Request, Packet

LEMMA Single == \A T : \A x \in T : <<x>> \in Seq(T)
OBVIOUS

LEMMA Pair == \A T : \A x, y \in T : <<x, y>> \in Seq(T)
OBVIOUS

LEMMA SavePacketsType ==
    ASSUME TypeOK, NEW c \in Clients
    PROVE  SavePackets(c) \in Seq(Packet)
<1>1. <<Save("CDATA", c)>> \in Seq(Packet) /\ <<Save("BBOPTS", c)>> \in Seq(Packet)
    BY SaveType, Single
<1>2. <<>> \in Seq(Packet)
    OBVIOUS
<1>. QED
    BY <1>1, <1>2, ConcatProperties DEF SavePackets

\* Packets are sent to a link that works.
LEMMA SentType ==
    ASSUME TypeOK, NEW s \in Ships, NEW packets \in Seq(Packet)
    PROVE  /\ Sent(s, packets) \in [Ships -> Seq(Packet)]
           /\ \A r \in Ships : ~up[r] => Sent(s, packets)[r] = <<>>
<1>1. toGate[s] \o packets \in Seq(Packet)
    BY ConcatProperties DEF TypeOK
<1>. QED
    BY <1>1 DEF Sent, TypeOK

LEMMA OffType == Off \in ClientRec
BY DEF Off, ClientRec, Cleared, Data, Characters

-----------------------------------------------------------------------------
(* Types.                                                                  *)

LEMMA InitType == Init => TypeOK
<1>1. <<>> \in Seq(Packet)
    OBVIOUS
<1>2. [chr |-> Items, bank |-> {}, opts |-> TRUE] \in Data
    BY DEF Data, Characters
<1>. SUFFICES ASSUME Init PROVE TypeOK
    OBVIOUS
<1>3. store \in [Accounts -> Data] /\ left \in [Accounts -> SUBSET Data]
    BY <1>2 DEF Init
<1>4. toGate \in [Ships -> Seq(Packet)] /\ toShip \in [Ships -> Seq(Packet)]
    BY <1>1 DEF Init
<1>5. client \in [Clients -> ClientRec]
    BY OffType DEF Init
<1>. QED
    BY <1>3, <1>4, <1>5 DEF Init, TypeOK

LEMMA LoginType ==
    ASSUME TypeOK, NEW c \in Clients, Login(c)
    PROVE  TypeOK'
<1>1. <<Request("CREQ", c), Request("BBOPT_REQ", c)>> \in Seq(Packet)
    BY RequestType, Pair
<1>2. Home[c] \in Ships
    BY ConstantsAssumption
<1>3. toGate' \in [Ships -> Seq(Packet)] /\ \A r \in Ships : ~up[r] => toGate'[r] = <<>>
    BY <1>1, <1>2, SentType DEF Login
<1>4. client' \in [Clients -> ClientRec]
    BY OffType DEF Login, TypeOK, ClientRec, CleanLogin
<1>5. left' \in [Accounts -> SUBSET Data]
    BY DEF Login, TypeOK
<1>. QED
    BY <1>3, <1>4, <1>5 DEF Login, TypeOK

LEMMA SaveRoundType ==
    ASSUME TypeOK, NEW c \in Clients, SaveRound(c)
    PROVE  TypeOK'
<1>1. Home[c] \in Ships
    BY ConstantsAssumption
<1>2. toGate' \in [Ships -> Seq(Packet)] /\ \A r \in Ships : ~up[r] => toGate'[r] = <<>>
    BY <1>1, SavePacketsType, SentType DEF SaveRound
<1>3. client' \in [Clients -> ClientRec]
  <2>1. client[c].state = "waiting" \/ (client[c].dirty /\ Challenge(c)) \in BOOLEAN
      OBVIOUS
  <2>. QED
      BY <2>1 DEF SaveRound, TypeOK, ClientRec
<1>. QED
    BY <1>2, <1>3 DEF SaveRound, TypeOK

LEMMA LeaveType ==
    ASSUME TypeOK, NEW c \in Clients, Leave(c)
    PROVE  TypeOK'
<1>1. Home[c] \in Ships /\ Account[c] \in Accounts
    BY ConstantsAssumption
<1>2. toGate' \in [Ships -> Seq(Packet)] /\ \A r \in Ships : ~up[r] => toGate'[r] = <<>>
    BY <1>1, SavePacketsType, SentType DEF Leave, TypeOK
<1>3. client' \in [Clients -> ClientRec]
    BY OffType DEF Leave, TypeOK
<1>4. left' \in [Accounts -> SUBSET Data]
    BY <1>1 DEF Leave, TypeOK, ClientRec
<1>. QED
    BY <1>2, <1>3, <1>4 DEF Leave, TypeOK

LEMMA PlayType ==
    ASSUME TypeOK, NEW c \in Clients, UseBank(c) \/ ChangeHold(c)
    PROVE  TypeOK'
<1>1. client' \in [Clients -> ClientRec]
  <2>1. CASE UseBank(c)
    <3>1. client[c] \in ClientRec /\ client[c].data \in Data
        BY DEF TypeOK, ClientRec
    <3>2. client[c].data.chr \in SUBSET Items
        BY <2>1, <3>1 DEF UseBank, Plays, IsPacketEmpty, Data, Characters
    <3>. DEFINE Moved(chr, bank) ==
            [client[c] EXCEPT !.data.chr = chr, !.data.bank = bank, !.dirty = TRUE]
    <3>3. \A chr, bank \in SUBSET Items : Moved(chr, bank) \in ClientRec
        BY <3>1 DEF ClientRec, Data, Characters
    <3>4. client[c].data.bank \in SUBSET Items
        BY <3>1 DEF Data
    <3>5. PICK i \in Items :
            \/ client' = [client EXCEPT ![c] =
                 Moved(client[c].data.chr \ {i}, client[c].data.bank \cup {i})]
            \/ client' = [client EXCEPT ![c] =
                 Moved(client[c].data.chr \cup {i}, client[c].data.bank \ {i})]
        BY <2>1 DEF UseBank
    <3>6. /\ Moved(client[c].data.chr \ {i}, client[c].data.bank \cup {i}) \in ClientRec
          /\ Moved(client[c].data.chr \cup {i}, client[c].data.bank \ {i}) \in ClientRec
      <4>. HIDE DEF Moved
      <4>1. /\ client[c].data.chr \ {i} \in SUBSET Items
            /\ client[c].data.bank \cup {i} \in SUBSET Items
            /\ client[c].data.chr \cup {i} \in SUBSET Items
            /\ client[c].data.bank \ {i} \in SUBSET Items
          BY <3>2, <3>4
      <4>. QED BY <3>3, <4>1
    <3>. HIDE DEF Moved
    <3>. QED
        BY <3>5, <3>6 DEF TypeOK
  <2>2. CASE ChangeHold(c)
      BY <2>2 DEF ChangeHold, TypeOK, ClientRec
  <2>. QED BY <2>1, <2>2
<1>. QED
    BY <1>1 DEF UseBank, ChangeHold, TypeOK

LEMMA ShipReadType ==
    ASSUME TypeOK, NEW s \in Ships, ShipRead(s)
    PROVE  TypeOK'
<1>1. toShip[s] \in Seq(Packet) /\ toShip[s] # <<>>
    BY DEF ShipRead, TypeOK
<1>2. Head(toShip[s]) \in Packet /\ Tail(toShip[s]) \in Seq(Packet)
    BY <1>1
<1>3. toShip' \in [Ships -> Seq(Packet)] /\ \A r \in Ships : ~up[r] => toShip'[r] = <<>>
    BY <1>1, <1>2 DEF ShipRead, TypeOK
<1>4. client' \in [Clients -> ClientRec]
  <2>. DEFINE p == Head(toShip[s])
  <2>1. p.data \in Data
      BY <1>2 DEF Packet
  <2>. DEFINE WithChr(r)  == [r EXCEPT !.data.chr = p.data.chr]
              WithOpts(r) == [r EXCEPT !.data.bank = p.data.bank,
                                       !.data.opts = p.data.opts,
                                       !.state = "ready"]
  <2>4. \A r \in ClientRec : WithChr(r) \in ClientRec /\ WithOpts(r) \in ClientRec
      BY <2>1 DEF ClientRec, Data
  <2>2. CASE HandleCharReply(s, p)
    <3>1. \/ UNCHANGED client
          \/ \E c \in Clients : client' = [client EXCEPT ![c] = WithChr(client[c])]
        BY <2>2 DEF HandleCharReply, TypeOK
    <3>. HIDE DEF WithChr, WithOpts
    <3>. QED BY <2>4, <3>1 DEF TypeOK
  <2>3. CASE HandleBBOpts(s, p)
    <3>1. \/ UNCHANGED client
          \/ \E c \in Clients : client' = [client EXCEPT ![c] = WithOpts(client[c])]
        BY <2>3 DEF HandleBBOpts, TypeOK
    <3>. HIDE DEF WithChr, WithOpts
    <3>. QED BY <2>4, <3>1 DEF TypeOK
  <2>. QED BY <2>2, <2>3 DEF ShipRead
<1>. QED
    BY <1>3, <1>4 DEF ShipRead, TypeOK

LEMMA GateReadType ==
    ASSUME TypeOK, NEW s \in Ships, GateRead(s)
    PROVE  TypeOK'
<1>. DEFINE p == Head(toGate[s])
<1>1. toGate[s] \in Seq(Packet) /\ toGate[s] # <<>>
    BY DEF GateRead, TypeOK
<1>2. p \in Packet /\ Tail(toGate[s]) \in Seq(Packet) /\ up[s]
    BY <1>1 DEF TypeOK
<1>3. toGate' \in [Ships -> Seq(Packet)] /\ \A r \in Ships : ~up[r] => toGate'[r] = <<>>
    BY <1>2 DEF GateRead, TypeOK
<1>4. p.gc \in Accounts /\ p.data \in Data
    BY <1>2 DEF Packet
<1>5. store' \in [Accounts -> Data]
  <2>1. CASE HandleCharSave(p)
    <3>1. [store[p.gc] EXCEPT !.chr = p.data.chr] \in Data
        BY <1>4 DEF TypeOK, Data
    <3>. QED BY <1>4, <2>1, <3>1 DEF HandleCharSave, TypeOK
  <2>2. CASE HandleOptsSave(p)
    <3>. DEFINE bank == IF p.data.bank = {} THEN store[p.gc].bank ELSE p.data.bank
    <3>1. [store[p.gc] EXCEPT !.opts = p.data.opts, !.bank = bank] \in Data
        BY <1>4 DEF TypeOK, Data
    <3>2. store' = [store EXCEPT ![p.gc] =
                      [store[p.gc] EXCEPT !.opts = p.data.opts, !.bank = bank]]
        BY <1>4, <2>2 DEF HandleOptsSave, TypeOK
    <3>. QED BY <1>4, <3>1, <3>2 DEF TypeOK
  <2>3. CASE UNCHANGED store
      BY <2>3 DEF TypeOK
  <2>. QED BY <2>1, <2>2, <2>3 DEF GateRead
<1>6. toShip' \in [Ships -> Seq(Packet)] /\ \A r \in Ships : ~up[r] => toShip'[r] = <<>>
  <2>1. CASE Answer(s, p)
    <3>1. [p EXCEPT !.data = store[p.gc]] \in Packet
        BY <1>2, <1>4 DEF Packet, TypeOK
    <3>2. Append(toShip[s], [p EXCEPT !.data = store[p.gc]]) \in Seq(Packet)
        BY <3>1, AppendProperties DEF TypeOK
    <3>. QED BY <2>1, <1>2, <3>2 DEF Answer, TypeOK
  <2>2. CASE UNCHANGED toShip
      BY <2>2 DEF TypeOK
  <2>. QED BY <2>1, <2>2 DEF GateRead
<1>. QED
    BY <1>3, <1>5, <1>6 DEF GateRead, TypeOK

LEMMA BreakType ==
    ASSUME TypeOK, NEW s \in Ships, LinkLost(s) \/ Relink(s) \/ Crash(s)
    PROVE  TypeOK'
<1>1. <<>> \in Seq(Packet)
    OBVIOUS
<1>5. \A r \in ClientRec : [r EXCEPT !.clean = FALSE] \in ClientRec
    BY DEF ClientRec
<1>2. CASE LinkLost(s)
  <2>1. client' \in [Clients -> ClientRec]
      BY <1>2, <1>5 DEF LinkLost, TypeOK
  <2>2. left' \in [Accounts -> SUBSET Data]
      BY <1>2 DEF LinkLost, TypeOK
  <2>3. /\ toGate' \in [Ships -> Seq(Packet)] /\ toShip' \in [Ships -> Seq(Packet)]
        /\ \A r \in Ships : ~up'[r] => toGate'[r] = <<>> /\ toShip'[r] = <<>>
        /\ up' \in [Ships -> BOOLEAN]
      BY <1>1, <1>2 DEF LinkLost, TypeOK
  <2>. QED BY <1>2, <2>1, <2>2, <2>3 DEF LinkLost, TypeOK
<1>3. CASE Relink(s)
    BY <1>3 DEF Relink, TypeOK
<1>4. CASE Crash(s)
  <2>1. client' \in [Clients -> ClientRec]
      BY <1>4, <1>5, OffType DEF Crash, TypeOK
  <2>2. left' \in [Accounts -> SUBSET Data]
      BY <1>4 DEF Crash, TypeOK
  <2>3. /\ toGate' \in [Ships -> Seq(Packet)] /\ toShip' \in [Ships -> Seq(Packet)]
        /\ \A r \in Ships : ~up'[r] => toGate'[r] = <<>> /\ toShip'[r] = <<>>
        /\ up' \in [Ships -> BOOLEAN]
      BY <1>1, <1>4 DEF Crash, TypeOK
  <2>4. store' \in [Accounts -> Data] /\ faults' \in Nat
      BY <1>4 DEF Crash, TypeOK
  <2>. QED BY <2>1, <2>2, <2>3, <2>4 DEF TypeOK
<1>. QED BY <1>2, <1>3, <1>4

LEMMA NextType == TypeOK /\ [Next]_vars => TypeOK'
<1>. SUFFICES ASSUME TypeOK, [Next]_vars PROVE TypeOK'
    OBVIOUS
<1>1. ASSUME NEW c \in Clients,
             Login(c) \/ SaveRound(c) \/ Leave(c) \/ UseBank(c) \/ ChangeHold(c)
      PROVE  TypeOK'
    BY <1>1, LoginType, SaveRoundType, LeaveType, PlayType
<1>2. ASSUME NEW s \in Ships,
             ShipRead(s) \/ GateRead(s) \/ LinkLost(s) \/ Relink(s) \/ Crash(s)
      PROVE  TypeOK'
    BY <1>2, ShipReadType, GateReadType, BreakType
<1>3. CASE UNCHANGED vars
    BY <1>3 DEF vars, TypeOK
<1>. QED BY <1>1, <1>2, <1>3 DEF Next

\* Every variable keeps its type; what goes over a link is a packet of the
\* protocol (shipgate.c:3823-3868, 4469-4525), and nothing is on the way on a
\* link that is down (send_raw, shipgate.c:189).
THEOREM TypeCorrect == Spec => []TypeOK
BY InitType, NextType, PTL DEF Spec

-----------------------------------------------------------------------------
(* The stored character.                                                   *)

LEMMA InitKept == Init => CharacterKept
BY ConstantsAssumption DEF Init, CharacterKept

\* Only a character that is not empty is stored.
LEMMA NextKept == TypeOK /\ CharacterKept /\ [Next]_vars => CharacterKept'
<1>. SUFFICES ASSUME TypeOK, CharacterKept, [Next]_vars PROVE CharacterKept'
    OBVIOUS
<1>1. ASSUME NEW s \in Ships, GateRead(s) PROVE CharacterKept'
  <2>. DEFINE p == Head(toGate[s])
  <2>0. toGate[s] \in Seq(Packet) /\ toGate[s] # <<>>
      BY <1>1 DEF GateRead, TypeOK
  <2>5. p \in Packet
      BY <2>0
  <2>1. p.gc \in Accounts
      BY <2>5 DEF Packet
  <2>2. CASE HandleCharSave(p)
      BY <2>1, <2>2 DEF HandleCharSave, IsPacketEmpty, CharacterKept, TypeOK, Data
  <2>3. CASE HandleOptsSave(p)
      BY <2>1, <2>3 DEF HandleOptsSave, CharacterKept, TypeOK, Data
  <2>4. CASE UNCHANGED store
      BY <2>4 DEF CharacterKept
  <2>. QED BY <1>1, <2>2, <2>3, <2>4 DEF GateRead
<1>2. CASE UNCHANGED store
    BY <1>2 DEF CharacterKept
<1>. QED
    BY <1>1, <1>2 DEF Next, vars, Login, SaveRound, Leave, UseBank, ChangeHold,
                      ShipRead, LinkLost, Relink, Crash

\* No order of logins, saves, departures, lost links and crashes makes the
\* shipgate store the zeroes of a client that has not loaded its character
\* (check_bb_pl_data, handle_char_data_save).
THEOREM CharacterCorrect == Spec => []CharacterKept
<1>1. TypeOK /\ CharacterKept /\ [Next]_vars => (TypeOK /\ CharacterKept)'
    BY NextType, NextKept
<1>. QED
    BY <1>1, InitType, InitKept, PTL DEF Spec

-----------------------------------------------------------------------------
(* What is on the way of an account, on one link.                          *)

Only(q, a, P) == \A i \in Of(q, a) : q[i] \in P

Has(q, a, P) == \E i \in Of(q, a) : q[i] \in P

\* Which types follow which.
InOrder(q, a, R) ==
    \A i, j \in Of(q, a) : i < j => <<q[i].type, q[j].type>> \in R

\* The last one of T is in P.
Ends(q, a, T, P) ==
    \A i \in Of(q, a) :
        q[i] \in T => q[i] \in P \/ \E j \in Of(q, a) : i < j /\ q[j] \in T

OfType(t) == {p \in Packet : p.type = t}

CharSaves == OfType("CDATA")
OptsSaves == OfType("BBOPTS")
Saves == CharSaves \cup OptsSaves
CharReqs == OfType("CREQ")
OptsReqs(b) == {p \in OfType("BBOPT_REQ") : p.block = b}

SameRest(was, d) ==
    /\ d.opts = was.opts
    /\ was.bank # {} => d.bank = was.bank

WithChr(d) == {p \in Packet : p.data.chr = d.chr}
WithRest(d) == {p \in Packet : SameRest(d, p.data)}
OfRest(d) == {p \in Packet : p.data.bank = d.bank /\ p.data.opts = d.opts}

\* When the saves on the way have been read, what is stored is d.
Will(q, a, st, d) ==
    /\ Ends(q, a, CharSaves, WithChr(d))
    /\ Ends(q, a, OptsSaves, WithRest(d))
    /\ Has(q, a, CharSaves) \/ st.chr = d.chr
    /\ Has(q, a, OptsSaves) \/ SameRest(d, st)

-----------------------------------------------------------------------------
(* How far a client n of block b that logged in in order has come; q is    *)
(* what is on its way to the shipgate, r what is on the way back, st is    *)
(* stored, lf is what was left.                                            *)

SaveTypes == {"CDATA", "BBOPTS"}

AskOrder ==
    (SaveTypes \X (SaveTypes \cup {"CREQ", "BBOPT_REQ"})) \cup {<<"CREQ", "BBOPT_REQ">>}
AnswerOrder == {<<"CREQ", "BBOPT_REQ">>}
LoadOrder == {"CDATA", "BBOPTS", "BBOPT_REQ"} \X SaveTypes

NotLoaded(n) == n.state = "waiting" /\ n.data.chr = Blank /\ ~n.dirty

Stored(st, lf) == \A was \in lf : SameData(was, st)

\* Earlier saves are ahead of both requests.
Asked(q, r, a, b, n, st, lf) ==
    /\ NotLoaded(n)
    /\ Of(r, a) = {}
    /\ Only(q, a, Saves \cup CharReqs \cup OptsReqs(b))
    /\ InOrder(q, a, AskOrder)
    /\ Has(q, a, CharReqs) /\ Has(q, a, OptsReqs(b))
    /\ \A was \in lf : Will(q, a, st, was)

\* The first answer is on the way, the second request still is.
Half(q, r, a, b, n, st, lf) ==
    /\ NotLoaded(n)
    /\ Only(q, a, OptsReqs(b)) /\ InOrder(q, a, {}) /\ Has(q, a, OptsReqs(b))
    /\ Only(r, a, CharReqs \cap WithChr(st)) /\ InOrder(r, a, {}) /\ Has(r, a, CharReqs)
    /\ Stored(st, lf)

\* Both answers are.
Both(q, r, a, b, n, st, lf) ==
    /\ NotLoaded(n)
    /\ Of(q, a) = {}
    /\ Only(r, a, (CharReqs \cap WithChr(st)) \cup (OptsReqs(b) \cap OfRest(st)))
    /\ InOrder(r, a, AnswerOrder) /\ Has(r, a, CharReqs)
    /\ Stored(st, lf)

\* It has its character, and may save it, together with zeroes for the rest.
LoadedHalf(q, r, a, b, n, st, lf) ==
    /\ n.state = "waiting"
    /\ Of(r, a) = {}
    /\ Only(q, a, Saves \cup OptsReqs(b))
    /\ InOrder(q, a, LoadOrder)
    /\ Has(q, a, OptsReqs(b))
    /\ n.data.chr = st.chr
    /\ Stored(st, lf)
    /\ ~n.dirty => Only(q, a, OptsReqs(b))

LoadedBoth(q, r, a, b, n, st, lf) ==
    /\ n.state = "waiting"
    /\ Only(q, a, Saves)
    /\ Only(r, a, OptsReqs(b)) /\ InOrder(r, a, {})
    /\ \A was \in lf : n.data.chr = was.chr /\ Only(r, a, WithRest(was))
    /\ ~n.dirty => /\ Of(q, a) = {}
                   /\ n.data.chr = st.chr
                   /\ Only(r, a, OfRest(st))
                   /\ Stored(st, lf)

Ready(q, r, a, b, n, st, lf) ==
    /\ n.state = "ready"
    /\ Of(r, a) = {}
    /\ Only(q, a, Saves)
    /\ ~n.dirty => Will(q, a, st, n.data)

Stage(q, r, a, b, n, st, lf) ==
    \/ Asked(q, r, a, b, n, st, lf)
    \/ Half(q, r, a, b, n, st, lf)
    \/ Both(q, r, a, b, n, st, lf)
    \/ LoadedHalf(q, r, a, b, n, st, lf)
    \/ LoadedBoth(q, r, a, b, n, st, lf)
    \/ Ready(q, r, a, b, n, st, lf)

-----------------------------------------------------------------------------
(* The invariant, account by account.                                      *)

\* Nobody saves zeroes as its character.
Loaded == {p \in Packet : p.type = "CDATA" => p.data.chr # Blank}

SavesLoaded(a) == \A s \in Ships : Only(toGate[s], a, Loaded)

\* A client that logged in in order is alone with its account.
CleanAlone(c) ==
    LET a == Account[c]
        s == Home[c]
    IN  client[c].clean =>
          /\ On(c) /\ up[s]
          /\ \A d \in Clients : Account[d] = a /\ On(d) => d = c
          /\ \A t \in Ships : t # s => Of(toGate[t], a) = {} /\ Of(toShip[t], a) = {}
          /\ Stage(toGate[s], toShip[s], a, Block[c], client[c], store[a], left[a])

\* What was left will be stored, by saves that are on one link.
WillBeStored(a) ==
    \E s \in Ships :
        /\ \A t \in Ships : t # s => Of(toGate[t], a) = {}
        /\ \A was \in left[a] : Will(toGate[s], a, store[a], was)

\* When it is known what was left, then nobody plays on the account, or a
\* client that logged in in order.
LeftBy(a) ==
    left[a] # {} =>
        /\ \A c \in Clients : Account[c] = a /\ On(c) => client[c].clean
        /\ (\A c \in Clients : Account[c] = a => ~On(c)) => WillBeStored(a)

InvOf(a) ==
    /\ SavesLoaded(a)
    /\ LeftBy(a)
    /\ \A c \in Clients : Account[c] = a => CleanAlone(c)

StoredInv == \A a \in Accounts : InvOf(a)
LEMMA OfTail ==
    ASSUME NEW q \in Seq(Packet), NEW a, q # <<>>
    PROVE  /\ Head(q) \in Packet /\ Tail(q) \in Seq(Packet)
           /\ 1 \in Of(q, a) <=> Head(q).gc = a
           /\ q[1] = Head(q)
           /\ \A i \in Of(Tail(q), a) :
                i \in Nat /\ i >= 1 /\ i + 1 \in Of(q, a) /\ q[i + 1] = Tail(q)[i]
           /\ \A i \in Of(q, a) :
                /\ i \in Nat /\ i >= 1
                /\ i # 1 => i - 1 \in Of(Tail(q), a) /\ Tail(q)[i - 1] = q[i]
<1>1. /\ Head(q) \in Packet /\ Tail(q) \in Seq(Packet)
      /\ Len(q) \in Nat /\ Len(q) >= 1 /\ Len(Tail(q)) = Len(q) - 1
      /\ \A i \in 1 .. Len(Tail(q)) : Tail(q)[i] = q[i + 1]
      /\ Head(q) = q[1]
    BY HeadTailProperties, LenProperties, EmptySeq
<1>2. \A i \in 1 .. Len(q) : i # 1 => i - 1 \in 1 .. Len(Tail(q)) /\ (i - 1) + 1 = i
    BY <1>1
<1>3. \A i \in 1 .. Len(Tail(q)) : i + 1 \in 1 .. Len(q)
    BY <1>1
<1>4. 1 \in 1 .. Len(q)
    BY <1>1
<1>. QED BY <1>1, <1>2, <1>3, <1>4 DEF Of

LEMMA OfAppend ==
    ASSUME NEW q \in Seq(Packet), NEW p \in Packet, NEW a
    PROVE  /\ Append(q, p) \in Seq(Packet) /\ Len(q) \in Nat
           /\ \A i \in Of(q, a) : /\ i \in Nat /\ i < Len(q) + 1
                                  /\ i \in Of(Append(q, p), a)
                                  /\ Append(q, p)[i] = q[i]
           /\ \A i \in Of(Append(q, p), a) : i \in Of(q, a) \/ (i = Len(q) + 1 /\ p.gc = a)
           /\ p.gc = a => Len(q) + 1 \in Of(Append(q, p), a)
           /\ Append(q, p)[Len(q) + 1] = p
<1>1. /\ Append(q, p) \in Seq(Packet) /\ Len(q) \in Nat
      /\ Len(Append(q, p)) = Len(q) + 1
      /\ \A i \in 1 .. Len(q) : Append(q, p)[i] = q[i]
      /\ Append(q, p)[Len(q) + 1] = p
    BY AppendProperties, LenProperties
<1>2. \A i : i \in 1 .. Len(q) + 1 <=> i \in 1 .. Len(q) \/ i = Len(q) + 1
    BY <1>1
<1>3. \A i \in 1 .. Len(q) : i \in Nat /\ i < Len(q) + 1
    BY <1>1
<1>. QED BY <1>1, <1>2, <1>3 DEF Of

LEMMA TailToWhole ==
    ASSUME NEW q \in Seq(Packet), NEW a, q # <<>>
    PROVE  \A i \in Of(Tail(q), a) :
              i \in Nat /\ i >= 1 /\ i + 1 \in Of(q, a) /\ q[i + 1] = Tail(q)[i]
BY OfTail

LEMMA WholeToTail ==
    ASSUME NEW q \in Seq(Packet), NEW a, q # <<>>
    PROVE  \A i \in Of(q, a) :
              /\ i \in Nat /\ i >= 1
              /\ i # 1 => i - 1 \in Of(Tail(q), a) /\ Tail(q)[i - 1] = q[i]
BY OfTail

LEMMA WholeToLonger ==
    ASSUME NEW q \in Seq(Packet), NEW p \in Packet, NEW a
    PROVE  \A i \in Of(q, a) : /\ i \in Nat /\ i < Len(q) + 1
                               /\ i \in Of(Append(q, p), a)
                               /\ Append(q, p)[i] = q[i]
BY OfAppend

LEMMA OfInt == ASSUME NEW q \in Seq(Packet), NEW a PROVE Of(q, a) \subseteq Int
BY LenProperties DEF Of

\* The first packet of the account is read.
LEMMA TailMine ==
    ASSUME NEW q \in Seq(Packet), NEW a, q # <<>>, Head(q).gc = a
    PROVE  /\ Of(q, a) # {}
           /\ \A P : Only(q, a, P) => Head(q) \in P /\ Only(Tail(q), a, P)
           /\ \A P : Has(q, a, P) <=> Head(q) \in P \/ Has(Tail(q), a, P)
           /\ \A R : InOrder(q, a, R) =>
                /\ InOrder(Tail(q), a, R)
                /\ \A i \in Of(Tail(q), a) : <<Head(q).type, Tail(q)[i].type>> \in R
           /\ \A T, P : Ends(q, a, T, P) =>
                /\ Ends(Tail(q), a, T, P)
                /\ Head(q) \in T /\ ~Has(Tail(q), a, T) => Head(q) \in P
<1>. DEFINE t == Tail(q)
<1>a. 1 \in Of(q, a) /\ q[1] = Head(q)
    BY OfTail
<1>b. \A i \in Of(t, a) : i \in Nat /\ i >= 1 /\ i + 1 \in Of(q, a) /\ q[i + 1] = t[i]
    BY TailToWhole, Zenon
<1>c. \A i \in Of(q, a) :
        /\ i \in Nat /\ i >= 1
        /\ i # 1 => i - 1 \in Of(t, a) /\ t[i - 1] = q[i]
    BY WholeToTail, Zenon
<1>. HIDE DEF t
<1>1. /\ 1 \in Of(q, a) /\ q[1] = Head(q)
      /\ \A i \in Of(t, a) : i \in Nat /\ i >= 1 /\ i + 1 \in Of(q, a) /\ q[i + 1] = t[i]
      /\ \A i \in Of(q, a) :
           i \in Nat /\ i >= 1 /\ (i # 1 => i - 1 \in Of(t, a) /\ t[i - 1] = q[i])
    BY <1>a, <1>b, <1>c
<1>2. \A P : Only(q, a, P) => Head(q) \in P /\ Only(t, a, P)
    BY <1>1 DEF Only
<1>3. \A P : Has(q, a, P) <=> Head(q) \in P \/ Has(t, a, P)
    BY <1>1 DEF Has
<1>4. ASSUME NEW R, InOrder(q, a, R)
      PROVE  /\ InOrder(t, a, R)
             /\ \A i \in Of(t, a) : <<Head(q).type, t[i].type>> \in R
    <2>1. ASSUME NEW i \in Of(t, a), NEW j \in Of(t, a), i < j
          PROVE  <<t[i].type, t[j].type>> \in R
        <3>1. i + 1 < j + 1
            BY <1>1, <2>1
        <3>. QED BY <1>1, <1>4, <3>1 DEF InOrder
    <2>2. ASSUME NEW i \in Of(t, a) PROVE <<Head(q).type, t[i].type>> \in R
        <3>1. 1 < i + 1
            BY <1>1
        <3>. QED BY <1>1, <1>4, <3>1 DEF InOrder
    <2>. QED BY <2>1, <2>2 DEF InOrder
<1>5. ASSUME NEW T, NEW P, Ends(q, a, T, P)
      PROVE  /\ Ends(t, a, T, P)
             /\ Head(q) \in T /\ ~Has(t, a, T) => Head(q) \in P
    <2>1. ASSUME NEW i \in Of(t, a), t[i] \in T, t[i] \notin P
          PROVE  \E j \in Of(t, a) : i < j /\ t[j] \in T
        <3>1. PICK k \in Of(q, a) : i + 1 < k /\ q[k] \in T
            BY <1>1, <1>5, <2>1 DEF Ends
        <3>2. k \in Nat /\ k # 1 /\ i < k - 1
            BY <1>1, <3>1
        <3>. QED BY <1>1, <3>1, <3>2
    <2>2. ASSUME Head(q) \in T, ~Has(t, a, T), Head(q) \notin P PROVE FALSE
        <3>1. PICK k \in Of(q, a) : 1 < k /\ q[k] \in T
            BY <1>1, <1>5, <2>2 DEF Ends
        <3>2. k # 1
            BY <1>1, <3>1
        <3>. QED BY <1>1, <2>2, <3>1, <3>2 DEF Has
    <2>. QED BY <2>1, <2>2 DEF Ends
<1>. QED BY <1>1, <1>2, <1>3, <1>4, <1>5 DEF t

\* ... and is the only one.
LEMMA TailAlone ==
    ASSUME NEW q \in Seq(Packet), NEW a, q # <<>>, Head(q).gc = a, InOrder(q, a, {})
    PROVE  Of(Tail(q), a) = {}
<1>1. 1 \in Of(q, a)
    BY OfTail
<1>2. ASSUME NEW i \in Of(Tail(q), a) PROVE FALSE
    <2>1. i \in Nat /\ i >= 1 /\ i + 1 \in Of(q, a)
        BY TailToWhole, Zenon
    <2>2. 1 < i + 1
        BY <2>1
    <2>. QED BY <1>1, <2>1, <2>2 DEF InOrder
<1>. QED BY <1>2

\* Another one of the account is sent.
LEMMA AppendMine ==
    ASSUME NEW q \in Seq(Packet), NEW p \in Packet, NEW a, p.gc = a
    PROVE  /\ Of(Append(q, p), a) # {}
           /\ \A P : Only(Append(q, p), a, P) <=> Only(q, a, P) /\ p \in P
           /\ \A P : Has(Append(q, p), a, P) <=> Has(q, a, P) \/ p \in P
           /\ \A R : InOrder(q, a, R) /\ (\A i \in Of(q, a) : <<q[i].type, p.type>> \in R)
                => InOrder(Append(q, p), a, R)
           /\ \A T, P : (IF p \in T THEN p \in P ELSE Ends(q, a, T, P))
                => Ends(Append(q, p), a, T, P)
<1>. DEFINE t == Append(q, p)
            z == Len(q) + 1
<1>a. z \in Nat /\ z \in Of(t, a) /\ t[z] = p
    BY OfAppend
<1>b. \A i \in Of(q, a) : i \in Nat /\ i < z /\ i \in Of(t, a) /\ t[i] = q[i]
    BY WholeToLonger, Zenon
<1>c. \A i \in Of(t, a) : i \in Of(q, a) \/ i = z
    BY OfAppend
<1>. HIDE DEF t, z
<1>1. /\ z \in Nat /\ z \in Of(t, a) /\ t[z] = p
      /\ \A i \in Of(q, a) : i \in Nat /\ i < z /\ i \in Of(t, a) /\ t[i] = q[i]
      /\ \A i \in Of(t, a) : i \in Of(q, a) \/ i = z
    BY <1>a, <1>b, <1>c
<1>2. \A P : Only(t, a, P) <=> Only(q, a, P) /\ p \in P
    BY <1>1 DEF Only
<1>3. \A P : Has(t, a, P) <=> Has(q, a, P) \/ p \in P
    BY <1>1 DEF Has
<1>4. ASSUME NEW R, InOrder(q, a, R), \A i \in Of(q, a) : <<q[i].type, p.type>> \in R
      PROVE  InOrder(t, a, R)
    <2>1. ASSUME NEW i \in Of(t, a), NEW j \in Of(t, a), i < j
          PROVE  <<t[i].type, t[j].type>> \in R
        <3>1. i # z
            BY <1>1, <2>1
        <3>. QED BY <1>1, <1>4, <2>1, <3>1 DEF InOrder
    <2>. QED BY <2>1 DEF InOrder
<1>5. ASSUME NEW T, NEW P, IF p \in T THEN p \in P ELSE Ends(q, a, T, P)
      PROVE  Ends(t, a, T, P)
    <2>1. ASSUME NEW i \in Of(t, a), t[i] \in T, t[i] \notin P
          PROVE  \E j \in Of(t, a) : i < j /\ t[j] \in T
        <3>1. i # z
            BY <1>1, <1>5, <2>1
        <3>2. i \in Of(q, a) /\ i < z /\ q[i] = t[i]
            BY <1>1, <3>1
        <3>3. CASE p \in T
            BY <1>1, <3>2, <3>3
        <3>4. CASE p \notin T
            BY <1>1, <1>5, <2>1, <3>2, <3>4 DEF Ends
        <3>. QED BY <3>3, <3>4
    <2>. QED BY <2>1 DEF Ends
<1>. QED BY <1>1, <1>2, <1>3, <1>4, <1>5 DEF t

-----------------------------------------------------------------------------
(* Two queues that are alike for an account.                               *)

Alike(q2, q1, a) ==
    \E k \in Int :
        /\ \A i \in Of(q2, a) : i + k \in Of(q1, a) /\ q1[i + k] = q2[i]
        /\ \A i \in Of(q1, a) : i - k \in Of(q2, a) /\ q2[i - k] = q1[i]

LEMMA AlikeSame ==
    ASSUME NEW q \in Seq(Packet), NEW a
    PROVE  Alike(q, q, a)
<1>1. \A i \in Of(q, a) : i + 0 = i /\ i - 0 = i
    BY OfInt
<1>. QED BY <1>1 DEF Alike

LEMMA AlikeNone ==
    ASSUME NEW q1, NEW q2, NEW a, Of(q1, a) = {}, Of(q2, a) = {}
    PROVE  Alike(q2, q1, a)
BY DEF Alike

LEMMA AlikeTail ==
    ASSUME NEW q \in Seq(Packet), NEW a, q # <<>>, Head(q).gc # a
    PROVE  Alike(Tail(q), q, a)
<1>1. \A i \in Of(Tail(q), a) : i + 1 \in Of(q, a) /\ q[i + 1] = Tail(q)[i]
    BY TailToWhole, Zenon
<1>2. \A i \in Of(q, a) : i - 1 \in Of(Tail(q), a) /\ Tail(q)[i - 1] = q[i]
    <2>1. 1 \notin Of(q, a)
        BY OfTail
    <2>2. \A i \in Of(q, a) : i # 1 => i - 1 \in Of(Tail(q), a) /\ Tail(q)[i - 1] = q[i]
        BY WholeToTail, Zenon
    <2>. QED BY <2>1, <2>2
<1>3. 1 \in Int
    OBVIOUS
<1>. QED BY <1>1, <1>2, <1>3, Zenon DEF Alike

LEMMA AlikeAppend ==
    ASSUME NEW q \in Seq(Packet), NEW p \in Packet, NEW a, p.gc # a
    PROVE  Alike(Append(q, p), q, a)
<1>1. \A i \in Of(q, a) : i + 0 = i /\ i - 0 = i
    BY OfInt
<1>2. \A i \in Of(q, a) : i \in Of(Append(q, p), a) /\ Append(q, p)[i] = q[i]
    BY WholeToLonger, Zenon
<1>3. \A i \in Of(Append(q, p), a) : i \in Of(q, a)
    BY OfAppend
<1>4. \A i \in Of(Append(q, p), a) : i + 0 = i
    BY <1>1, <1>3
<1>5. 0 \in Int
    OBVIOUS
<1>. QED BY <1>1, <1>2, <1>3, <1>4, <1>5, Zenon DEF Alike

LEMMA AlikeTrans ==
    ASSUME NEW q1 \in Seq(Packet), NEW q2 \in Seq(Packet), NEW q3 \in Seq(Packet), NEW a,
           Alike(q2, q1, a), Alike(q3, q2, a)
    PROVE  Alike(q3, q1, a)
<1>1. PICK k \in Int :
        /\ \A i \in Of(q2, a) : i + k \in Of(q1, a) /\ q1[i + k] = q2[i]
        /\ \A i \in Of(q1, a) : i - k \in Of(q2, a) /\ q2[i - k] = q1[i]
    BY DEF Alike
<1>2. PICK m \in Int :
        /\ \A i \in Of(q3, a) : i + m \in Of(q2, a) /\ q2[i + m] = q3[i]
        /\ \A i \in Of(q2, a) : i - m \in Of(q3, a) /\ q3[i - m] = q2[i]
    BY DEF Alike
<1>3. m + k \in Int
    OBVIOUS
<1>4. /\ \A i \in Of(q3, a) : (i + m) + k = i + (m + k)
      /\ \A i \in Of(q1, a) : (i - k) - m = i - (m + k)
    BY OfInt
<1>5. \A i \in Of(q3, a) : i + (m + k) \in Of(q1, a) /\ q1[i + (m + k)] = q3[i]
    BY <1>1, <1>2, <1>4
<1>6. \A i \in Of(q1, a) : i - (m + k) \in Of(q3, a) /\ q3[i - (m + k)] = q1[i]
    BY <1>1, <1>2, <1>4
<1>. QED BY <1>3, <1>5, <1>6 DEF Alike

\* What is said of the packets of an account is true of both.
LEMMA AlikeKeeps ==
    ASSUME NEW q1 \in Seq(Packet), NEW q2 \in Seq(Packet), NEW a, Alike(q2, q1, a)
    PROVE  /\ Of(q1, a) = {} => Of(q2, a) = {}
           /\ \A P : Only(q1, a, P) => Only(q2, a, P)
           /\ \A P : Has(q1, a, P) <=> Has(q2, a, P)
           /\ \A R : InOrder(q1, a, R) => InOrder(q2, a, R)
           /\ \A T, P : Ends(q1, a, T, P) => Ends(q2, a, T, P)
<1>1. PICK k \in Int :
        /\ \A i \in Of(q2, a) : i + k \in Of(q1, a) /\ q1[i + k] = q2[i]
        /\ \A i \in Of(q1, a) : i - k \in Of(q2, a) /\ q2[i - k] = q1[i]
    BY DEF Alike
<1>2. /\ \A i, j \in Of(q2, a) : i \in Int /\ j \in Int
      /\ \A i, j \in Of(q1, a) : i \in Int /\ j \in Int
    BY OfInt
<1>3. \A P : Only(q1, a, P) => Only(q2, a, P)
    BY <1>1 DEF Only
<1>4. \A P : Has(q1, a, P) <=> Has(q2, a, P)
    BY <1>1 DEF Has
<1>5. ASSUME NEW R, InOrder(q1, a, R), NEW i \in Of(q2, a), NEW j \in Of(q2, a), i < j
      PROVE  <<q2[i].type, q2[j].type>> \in R
    <2>1. i + k < j + k
        BY <1>2, <1>5
    <2>. QED BY <1>1, <1>5, <2>1 DEF InOrder
<1>6. ASSUME NEW T, NEW P, Ends(q1, a, T, P), NEW i \in Of(q2, a), q2[i] \in T, q2[i] \notin P
      PROVE  \E j \in Of(q2, a) : i < j /\ q2[j] \in T
    <2>1. PICK j \in Of(q1, a) : i + k < j /\ q1[j] \in T
        BY <1>1, <1>6 DEF Ends
    <2>2. i < j - k
        BY <1>2, <2>1
    <2>. QED BY <1>1, <2>1, <2>2
<1>7. Of(q1, a) = {} => Of(q2, a) = {}
    BY <1>1
<1>. QED BY <1>3, <1>4, <1>5, <1>6, <1>7 DEF InOrder, Ends
-----------------------------------------------------------------------------
(* What will be stored.                                                    *)

LEMMA SameParts ==
    ASSUME NEW was, NEW d
    PROVE  SameData(was, d) <=> d.chr = was.chr /\ SameRest(was, d)
BY DEF SameData, SameRest

\* Nothing that is on the way changes it.
LEMMA WillNone ==
    ASSUME NEW q, NEW a, NEW st, NEW d, ~Has(q, a, CharSaves), ~Has(q, a, OptsSaves)
    PROVE  Will(q, a, st, d) <=> SameData(d, st)
<1>1. /\ Ends(q, a, CharSaves, WithChr(d))
      /\ Ends(q, a, OptsSaves, WithRest(d))
    BY DEF Has, Ends
<1>. QED BY <1>1, SameParts DEF Will

LEMMA PacketKinds ==
    ASSUME NEW p \in Packet
    PROVE  /\ p.type \in {"CREQ", "BBOPT_REQ", "CDATA", "BBOPTS"}
           /\ p.data \in Data
           /\ p \in CharSaves <=> p.type = "CDATA"
           /\ p \in OptsSaves <=> p.type = "BBOPTS"
           /\ p \in CharReqs <=> p.type = "CREQ"
           /\ p \in Saves <=> p.type \in SaveTypes
           /\ \A b : p \in OptsReqs(b) <=> p.type = "BBOPT_REQ" /\ p.block = b
           /\ \A d : p \in WithChr(d) <=> p.data.chr = d.chr
           /\ \A d : p \in WithRest(d) <=> SameRest(d, p.data)
           /\ \A d : p \in OfRest(d) <=> p.data.bank = d.bank /\ p.data.opts = d.opts
BY DEF Packet, CharSaves, OptsSaves, CharReqs, Saves, OptsReqs, WithChr, WithRest,
       OfRest, OfType, SaveTypes

\* handle_char_data_save.
LEMMA WillCharRead ==
    ASSUME NEW q \in Seq(Packet), NEW a, NEW st \in Data, NEW d,
           q # <<>>, Head(q).gc = a, Head(q).type = "CDATA", Will(q, a, st, d)
    PROVE  Will(Tail(q), a, [st EXCEPT !.chr = Head(q).data.chr], d)
<1>. DEFINE t == Tail(q)
            h == Head(q)
            s2 == [st EXCEPT !.chr = h.data.chr]
<1>1. h \in Packet
    BY OfTail
<1>2. h \in CharSaves /\ h \notin OptsSaves /\ (h \in WithChr(d) <=> h.data.chr = d.chr)
    BY <1>1, PacketKinds
<1>3. /\ Ends(t, a, CharSaves, WithChr(d))
      /\ Ends(t, a, OptsSaves, WithRest(d))
      /\ h \in CharSaves /\ ~Has(t, a, CharSaves) => h \in WithChr(d)
      /\ Has(q, a, OptsSaves) <=> h \in OptsSaves \/ Has(t, a, OptsSaves)
    BY TailMine DEF Will
<1>4. s2.chr = h.data.chr /\ (SameRest(d, s2) <=> SameRest(d, st))
    BY DEF Data, SameRest
<1>. HIDE DEF t, h, s2
<1>5. Will(t, a, s2, d)
    BY <1>2, <1>3, <1>4 DEF Will
<1>. QED BY <1>5 DEF t, h, s2

\* handle_bbopts of the shipgate.
LEMMA WillOptsRead ==
    ASSUME NEW q \in Seq(Packet), NEW a, NEW st \in Data, NEW s2 \in Data, NEW d,
           q # <<>>, Head(q).gc = a, Head(q).type = "BBOPTS", Will(q, a, st, d),
           s2.chr = st.chr, s2.opts = Head(q).data.opts,
           s2.bank = IF Head(q).data.bank = {} THEN st.bank ELSE Head(q).data.bank
    PROVE  Will(Tail(q), a, s2, d)
<1>. DEFINE t == Tail(q)
            h == Head(q)
<1>1. h \in Packet
    BY OfTail
<1>2. h \in OptsSaves /\ h \notin CharSaves /\ (h \in WithRest(d) <=> SameRest(d, h.data))
    BY <1>1, PacketKinds
<1>3. /\ Ends(t, a, CharSaves, WithChr(d))
      /\ Ends(t, a, OptsSaves, WithRest(d))
      /\ h \in OptsSaves /\ ~Has(t, a, OptsSaves) => h \in WithRest(d)
      /\ Has(q, a, CharSaves) <=> h \in CharSaves \/ Has(t, a, CharSaves)
    BY TailMine DEF Will
<1>4. SameRest(d, h.data) => SameRest(d, s2)
    BY DEF SameRest
<1>. HIDE DEF t, h
<1>5. Will(t, a, s2, d)
    BY <1>2, <1>3, <1>4 DEF Will
<1>. QED BY <1>5 DEF t

\* handle_char_data_req and handle_bbopt_req.
LEMMA WillReqRead ==
    ASSUME NEW q \in Seq(Packet), NEW a, NEW st, NEW d,
           q # <<>>, Head(q).gc = a, Head(q).type \in {"CREQ", "BBOPT_REQ"}
    PROVE  Will(q, a, st, d) => Will(Tail(q), a, st, d)
<1>. DEFINE t == Tail(q)
            h == Head(q)
<1>1. h \in Packet
    BY OfTail
<1>2. h \notin OptsSaves /\ h \notin CharSaves
    BY <1>1, PacketKinds
<1>3. /\ \A T, P : Ends(q, a, T, P) => Ends(t, a, T, P)
      /\ \A T : Has(q, a, T) <=> h \in T \/ Has(t, a, T)
    BY TailMine
<1>. HIDE DEF t, h
<1>5. Will(q, a, st, d) => Will(t, a, st, d)
    BY <1>2, <1>3 DEF Will
<1>. QED BY <1>5 DEF t

\* client_send_bb_data, of a client whose data is d.
LEMMA WillSaved ==
    ASSUME NEW q \in Seq(Packet), NEW a, NEW st, NEW d,
           NEW x \in Packet, x.gc = a, x.type = "CDATA", x.data = d,
           NEW y \in Packet, y.gc = a, y.type = "BBOPTS", y.data = d
    PROVE  Will(Append(Append(q, x), y), a, st, d)
<1>. DEFINE u == Append(q, x)
            w == Append(u, y)
<1>0. u \in Seq(Packet)
    BY OfAppend
<1>1. /\ x \in CharSaves /\ x \in WithChr(d) /\ y \notin CharSaves
      /\ y \in OptsSaves /\ y \in WithRest(d)
    BY PacketKinds DEF SameRest
<1>2. /\ \A T, P : (IF x \in T THEN x \in P ELSE Ends(q, a, T, P)) => Ends(u, a, T, P)
      /\ \A P : Has(u, a, P) <=> Has(q, a, P) \/ x \in P
    BY AppendMine
<1>. HIDE DEF u
<1>3. /\ \A T, P : (IF y \in T THEN y \in P ELSE Ends(u, a, T, P)) => Ends(w, a, T, P)
      /\ \A P : Has(w, a, P) <=> Has(u, a, P) \/ y \in P
    BY <1>0, AppendMine
<1>. HIDE DEF w
<1>4. Ends(u, a, CharSaves, WithChr(d)) /\ Has(u, a, CharSaves)
    BY <1>1, <1>2
<1>5. /\ Ends(w, a, CharSaves, WithChr(d)) /\ Has(w, a, CharSaves)
      /\ Ends(w, a, OptsSaves, WithRest(d)) /\ Has(w, a, OptsSaves)
    BY <1>1, <1>3, <1>4
<1>6. Will(w, a, st, d)
    BY <1>5 DEF Will
<1>. QED BY <1>6 DEF w, u

LEMMA WillOptsSaved ==
    ASSUME NEW q \in Seq(Packet), NEW a, NEW st, NEW d, Will(q, a, st, d),
           NEW y \in Packet, y.gc = a, y.type = "BBOPTS", y.data = d
    PROVE  Will(Append(q, y), a, st, d)
<1>. DEFINE w == Append(q, y)
<1>1. y \notin CharSaves /\ y \in OptsSaves /\ y \in WithRest(d)
    BY PacketKinds DEF SameRest
<1>3. /\ \A T, P : (IF y \in T THEN y \in P ELSE Ends(q, a, T, P)) => Ends(w, a, T, P)
      /\ \A P : Has(w, a, P) <=> Has(q, a, P) \/ y \in P
    BY AppendMine
<1>. HIDE DEF w
<1>5. /\ Ends(w, a, CharSaves, WithChr(d)) /\ (Has(w, a, CharSaves) <=> Has(q, a, CharSaves))
      /\ Ends(w, a, OptsSaves, WithRest(d)) /\ Has(w, a, OptsSaves)
    BY <1>1, <1>3 DEF Will
<1>6. Will(w, a, st, d)
    BY <1>5 DEF Will
<1>. QED BY <1>6 DEF w

LEMMA WillAsked ==
    ASSUME NEW q \in Seq(Packet), NEW a, NEW st, NEW d, Will(q, a, st, d),
           NEW y \in Packet, y.gc = a, y.type \in {"CREQ", "BBOPT_REQ"}
    PROVE  Will(Append(q, y), a, st, d)
<1>. DEFINE w == Append(q, y)
<1>1. y \notin CharSaves /\ y \notin OptsSaves
    BY PacketKinds
<1>3. /\ \A T, P : (IF y \in T THEN y \in P ELSE Ends(q, a, T, P)) => Ends(w, a, T, P)
      /\ \A P : Has(w, a, P) <=> Has(q, a, P) \/ y \in P
    BY AppendMine
<1>. HIDE DEF w
<1>6. Will(w, a, st, d)
    BY <1>1, <1>3 DEF Will
<1>. QED BY <1>6 DEF w

LEMMA WillAlike ==
    ASSUME NEW q1 \in Seq(Packet), NEW q2 \in Seq(Packet), NEW a, NEW st, NEW d,
           Alike(q2, q1, a), Will(q1, a, st, d)
    PROVE  Will(q2, a, st, d)
<1>1. /\ \A T, P : Ends(q1, a, T, P) => Ends(q2, a, T, P)
      /\ \A P : Has(q1, a, P) <=> Has(q2, a, P)
    BY AlikeKeeps
<1>. QED BY <1>1 DEF Will
-----------------------------------------------------------------------------
(* From stage to stage.                                                    *)

LEMMA OfPackets ==
    ASSUME NEW q \in Seq(Packet), NEW a
    PROVE  \A i \in Of(q, a) : q[i] \in Packet
BY LenProperties DEF Of

LEMMA Orders ==
    /\ \A t : <<"CREQ", t>> \in AskOrder <=> t = "BBOPT_REQ"
    /\ \A t : <<"BBOPT_REQ", t>> \notin AskOrder
    /\ \A t : <<"CREQ", t>> \in AnswerOrder <=> t = "BBOPT_REQ"
    /\ \A t : <<"BBOPT_REQ", t>> \notin AnswerOrder
    /\ \A t, u : <<t, u>> \in LoadOrder <=>
         t \in {"CDATA", "BBOPTS", "BBOPT_REQ"} /\ u \in SaveTypes
    /\ \A t \in SaveTypes : \A u \in SaveTypes \cup {"CREQ", "BBOPT_REQ"} :
         <<t, u>> \in AskOrder
    /\ SaveTypes = {"CDATA", "BBOPTS"}
BY DEF AskOrder, AnswerOrder, LoadOrder, SaveTypes

\* The facts about the packet of the account that is read.
LEMMA Read ==
    ASSUME NEW q \in Seq(Packet), NEW a, q # <<>>, Head(q).gc = a
    PROVE  /\ Head(q) \in Packet /\ Tail(q) \in Seq(Packet)
           /\ Of(q, a) # {}
           /\ \A i \in Of(Tail(q), a) : Tail(q)[i] \in Packet
           /\ \A P : Only(q, a, P) => Head(q) \in P /\ Only(Tail(q), a, P)
           /\ \A P : Has(q, a, P) <=> Head(q) \in P \/ Has(Tail(q), a, P)
           /\ \A R : InOrder(q, a, R) =>
                /\ InOrder(Tail(q), a, R)
                /\ \A i \in Of(Tail(q), a) : <<Head(q).type, Tail(q)[i].type>> \in R
<1>1. Head(q) \in Packet /\ Tail(q) \in Seq(Packet)
    BY OfTail
<1>. QED BY <1>1, TailMine, OfPackets

\* The shipgate reads a save.
LEMMA ReadSave ==
    ASSUME NEW q \in Seq(Packet), NEW r \in Seq(Packet), NEW a, NEW b, NEW n,
           NEW st, NEW s2, NEW lf,
           q # <<>>, Head(q).gc = a, Head(q).type \in SaveTypes,
           \A d : Will(q, a, st, d) => Will(Tail(q), a, s2, d),
           Stage(q, r, a, b, n, st, lf)
    PROVE  Stage(Tail(q), r, a, b, n, s2, lf)
<1>. DEFINE t == Tail(q)
            h == Head(q)
<1>1. /\ h \in Packet /\ t \in Seq(Packet) /\ Of(q, a) # {}
      /\ \A i \in Of(t, a) : t[i] \in Packet
      /\ \A P : Only(q, a, P) => h \in P /\ Only(t, a, P)
      /\ \A P : Has(q, a, P) <=> h \in P \/ Has(t, a, P)
      /\ \A R : InOrder(q, a, R) =>
           InOrder(t, a, R) /\ \A i \in Of(t, a) : <<h.type, t[i].type>> \in R
    BY Read
<1>2. /\ h \notin CharReqs /\ h \notin OptsReqs(b) /\ h \in Saves
      /\ h.type \in {"CDATA", "BBOPTS"}
    BY <1>1, PacketKinds DEF SaveTypes
<1>3. \A d : Will(q, a, st, d) => Will(t, a, s2, d)
    OBVIOUS
<1>. HIDE DEF t, h
<1>4. CASE Asked(q, r, a, b, n, st, lf)
    <2>1. Asked(t, r, a, b, n, s2, lf)
        BY <1>1, <1>2, <1>3, <1>4 DEF Asked
    <2>. QED BY <2>1 DEF Stage, t
<1>5. CASE Half(q, r, a, b, n, st, lf)
    BY <1>1, <1>2, <1>5 DEF Half
<1>6. CASE Both(q, r, a, b, n, st, lf)
    BY <1>1, <1>6 DEF Both
<1>7. CASE LoadedHalf(q, r, a, b, n, st, lf)
    <2>1. Has(t, a, OptsReqs(b))
        BY <1>1, <1>2, <1>7 DEF LoadedHalf
    <2>2. PICK i \in Of(t, a) : t[i] \in OptsReqs(b)
        BY <2>1 DEF Has
    <2>3. t[i].type = "BBOPT_REQ"
        BY <1>1, <2>2, PacketKinds
    <2>4. <<h.type, t[i].type>> \in LoadOrder
        BY <1>1, <1>7 DEF LoadedHalf
    <2>. QED BY <2>3, <2>4, Orders
<1>8. CASE LoadedBoth(q, r, a, b, n, st, lf)
    <2>1. LoadedBoth(t, r, a, b, n, s2, lf)
        BY <1>1, <1>8 DEF LoadedBoth
    <2>. QED BY <2>1 DEF Stage, t
<1>9. CASE Ready(q, r, a, b, n, st, lf)
    <2>1. Ready(t, r, a, b, n, s2, lf)
        BY <1>1, <1>3, <1>9 DEF Ready
    <2>. QED BY <2>1 DEF Stage, t
<1>. QED BY <1>4, <1>5, <1>6, <1>7, <1>8, <1>9 DEF Stage

\* It reads the first request, and answers it.
LEMMA ReadCharReq ==
    ASSUME NEW q \in Seq(Packet), NEW r \in Seq(Packet), NEW a, NEW b, NEW n,
           NEW st \in Data, NEW lf,
           q # <<>>, Head(q).gc = a, Head(q).type = "CREQ",
           NEW p \in Packet, p.gc = a, p.type = "CREQ", p.data = st,
           Stage(q, r, a, b, n, st, lf)
    PROVE  Stage(Tail(q), Append(r, p), a, b, n, st, lf)
<1>. DEFINE t == Tail(q)
            h == Head(q)
            u == Append(r, p)
<1>1. /\ h \in Packet /\ t \in Seq(Packet) /\ Of(q, a) # {}
      /\ \A i \in Of(t, a) : t[i] \in Packet
      /\ \A P : Only(q, a, P) => h \in P /\ Only(t, a, P)
      /\ \A P : Has(q, a, P) <=> h \in P \/ Has(t, a, P)
      /\ \A R : InOrder(q, a, R) =>
           InOrder(t, a, R) /\ \A i \in Of(t, a) : <<h.type, t[i].type>> \in R
    BY Read
<1>2. /\ h \notin OptsReqs(b) /\ h \notin Saves /\ h \in CharReqs
      /\ h \notin CharSaves /\ h \notin OptsSaves /\ h.type = "CREQ"
    BY <1>1, PacketKinds DEF SaveTypes
<1>3. p \in CharReqs /\ p \in WithChr(st)
    BY PacketKinds
<1>4. /\ \A P : Only(u, a, P) <=> Only(r, a, P) /\ p \in P
      /\ \A P : Has(u, a, P) <=> Has(r, a, P) \/ p \in P
      /\ \A R : InOrder(r, a, R) /\ (\A i \in Of(r, a) : <<r[i].type, p.type>> \in R)
           => InOrder(u, a, R)
    BY AppendMine
<1>. HIDE DEF t, h, u
<1>5. CASE Asked(q, r, a, b, n, st, lf)
    <2>1. \A i \in Of(t, a) : t[i].type = "BBOPT_REQ"
        BY <1>1, <1>2, <1>5, Orders DEF Asked
    <2>2. \A i \in Of(t, a) : t[i] \in OptsReqs(b)
        <3>1. \A i \in Of(t, a) : t[i] \in Saves \cup CharReqs \cup OptsReqs(b)
            BY <1>1, <1>5 DEF Asked, Only
        <3>2. \A i \in Of(t, a) : t[i] \notin Saves /\ t[i] \notin CharReqs
            BY <1>1, <2>1, PacketKinds, Orders
        <3>. QED BY <3>1, <3>2
    <2>3. InOrder(t, a, {})
        BY <1>1, <1>5, <2>1, Orders DEF Asked, InOrder
    <2>4. Has(t, a, OptsReqs(b))
        BY <1>1, <1>2, <1>5 DEF Asked
    <2>5. ~Has(t, a, CharSaves) /\ ~Has(t, a, OptsSaves)
        BY <1>1, <2>1, PacketKinds DEF Has
    <2>6. Stored(st, lf)
        BY <1>1, <1>2, <1>5, <2>5, WillNone DEF Asked, Stored
    <2>7. /\ Only(u, a, CharReqs \cap WithChr(st)) /\ InOrder(u, a, {})
          /\ Has(u, a, CharReqs)
        BY <1>3, <1>4, <1>5 DEF Asked, Only, InOrder
    <2>8. Half(t, u, a, b, n, st, lf)
        BY <1>5, <2>2, <2>3, <2>4, <2>6, <2>7 DEF Half, Asked, Only
    <2>. QED BY <2>8 DEF Stage, t, u
<1>6. CASE Half(q, r, a, b, n, st, lf) \/ Both(q, r, a, b, n, st, lf)
    BY <1>1, <1>2, <1>6 DEF Half, Both
<1>7. CASE LoadedHalf(q, r, a, b, n, st, lf)
    BY <1>1, <1>2, <1>7 DEF LoadedHalf
<1>8. CASE LoadedBoth(q, r, a, b, n, st, lf)
    BY <1>1, <1>2, <1>8 DEF LoadedBoth
<1>9. CASE Ready(q, r, a, b, n, st, lf)
    BY <1>1, <1>2, <1>9 DEF Ready
<1>. QED BY <1>5, <1>6, <1>7, <1>8, <1>9 DEF Stage

\* It reads the second request, and answers it.
LEMMA ReadOptsReq ==
    ASSUME NEW q \in Seq(Packet), NEW r \in Seq(Packet), NEW a, NEW b, NEW n,
           NEW st \in Data, NEW lf,
           q # <<>>, Head(q).gc = a, Head(q).type = "BBOPT_REQ",
           NEW p \in Packet, p.gc = a, p.type = "BBOPT_REQ", p.data = st,
           p.block = Head(q).block,
           Stage(q, r, a, b, n, st, lf)
    PROVE  Stage(Tail(q), Append(r, p), a, b, n, st, lf)
<1>. DEFINE t == Tail(q)
            h == Head(q)
            u == Append(r, p)
<1>1. /\ h \in Packet /\ t \in Seq(Packet) /\ Of(q, a) # {}
      /\ \A i \in Of(t, a) : t[i] \in Packet
      /\ \A P : Only(q, a, P) => h \in P /\ Only(t, a, P)
      /\ \A P : Has(q, a, P) <=> h \in P \/ Has(t, a, P)
      /\ \A R : InOrder(q, a, R) =>
           InOrder(t, a, R) /\ \A i \in Of(t, a) : <<h.type, t[i].type>> \in R
    BY Read
<1>2. /\ h \notin CharReqs /\ h \notin Saves /\ h.type = "BBOPT_REQ"
      /\ h \in OptsReqs(b) => p \in OptsReqs(b)
    BY <1>1, PacketKinds DEF SaveTypes
<1>3. p \in OfRest(st) /\ \A d : SameRest(d, st) => p \in WithRest(d)
    BY PacketKinds
<1>4. /\ \A P : Only(u, a, P) <=> Only(r, a, P) /\ p \in P
      /\ \A P : Has(u, a, P) <=> Has(r, a, P) \/ p \in P
      /\ \A R : InOrder(r, a, R) /\ (\A i \in Of(r, a) : <<r[i].type, p.type>> \in R)
           => InOrder(u, a, R)
    BY AppendMine
<1>7. \A i \in Of(r, a) : r[i] \in Packet
    BY OfPackets
<1>b. p.type = "BBOPT_REQ"
    OBVIOUS
<1>. HIDE DEF t, h, u
<1>5. CASE Asked(q, r, a, b, n, st, lf)
    <2>1. Has(t, a, CharReqs)
        BY <1>1, <1>2, <1>5 DEF Asked
    <2>2. PICK i \in Of(t, a) : t[i] \in CharReqs
        BY <2>1 DEF Has
    <2>3. <<h.type, t[i].type>> \in AskOrder
        BY <1>1, <1>5 DEF Asked
    <2>4. <<"BBOPT_REQ", t[i].type>> \in AskOrder
        BY <1>2, <2>3
    <2>. QED BY <2>4, Orders
<1>6. CASE Half(q, r, a, b, n, st, lf)
    <2>1. Of(t, a) = {}
        <3>1. InOrder(q, a, {})
            BY <1>6 DEF Half
        <3>. QED BY <3>1, TailAlone DEF t
    <2>2. p \in OptsReqs(b)
        BY <1>1, <1>2, <1>6 DEF Half
    <2>3. Only(u, a, (CharReqs \cap WithChr(st)) \cup (OptsReqs(b) \cap OfRest(st)))
        <3>1. Only(r, a, (CharReqs \cap WithChr(st)) \cup (OptsReqs(b) \cap OfRest(st)))
            BY <1>6 DEF Half, Only
        <3>. QED BY <1>3, <1>4, <2>2, <3>1
    <2>4. InOrder(u, a, AnswerOrder)
        <3>1. \A i \in Of(r, a) : r[i].type = "CREQ"
            BY <1>6, <1>7, PacketKinds DEF Half, Only
        <3>2. \A i \in Of(r, a) : <<r[i].type, p.type>> \in AnswerOrder
            BY <1>b, <3>1, Orders
        <3>3. InOrder(r, a, AnswerOrder)
            BY <1>6 DEF Half, InOrder
        <3>. QED BY <1>4, <3>2, <3>3
    <2>5. Has(u, a, CharReqs)
        BY <1>4, <1>6 DEF Half
    <2>6. Both(t, u, a, b, n, st, lf)
        BY <1>6, <2>1, <2>3, <2>4, <2>5 DEF Half, Both
    <2>. QED BY <2>6 DEF Stage, t, u
<1>c. CASE Both(q, r, a, b, n, st, lf)
    BY <1>1, <1>c DEF Both
<1>d. CASE LoadedHalf(q, r, a, b, n, st, lf)
    <2>1. \A i \in Of(t, a) : t[i].type \in SaveTypes
        BY <1>1, <1>2, <1>d, Orders DEF LoadedHalf
    <2>2. Only(t, a, Saves)
        BY <1>1, <2>1, PacketKinds DEF Only
    <2>3. p \in OptsReqs(b)
        BY <1>1, <1>2, <1>d DEF LoadedHalf
    <2>4. Only(u, a, OptsReqs(b)) /\ Only(u, a, OfRest(st)) /\ InOrder(u, a, {})
        BY <1>3, <1>4, <1>d, <2>3 DEF LoadedHalf, Only, InOrder
    <2>5. \A was \in lf : n.data.chr = was.chr /\ Only(u, a, WithRest(was))
        BY <1>3, <1>4, <1>d, SameParts DEF LoadedHalf, Stored, Only
    <2>6. ~n.dirty => Of(t, a) = {}
        <3>1. SUFFICES ASSUME ~n.dirty, NEW i \in Of(t, a) PROVE FALSE
            OBVIOUS
        <3>2. t[i] \in OptsReqs(b)
            BY <1>1, <1>d, <3>1 DEF LoadedHalf, Only
        <3>. QED BY <1>1, <2>1, <3>2, PacketKinds, Orders
    <2>7. LoadedBoth(t, u, a, b, n, st, lf)
        BY <1>d, <2>2, <2>4, <2>5, <2>6 DEF LoadedHalf, LoadedBoth
    <2>. QED BY <2>7 DEF Stage, t, u
<1>8. CASE LoadedBoth(q, r, a, b, n, st, lf)
    BY <1>1, <1>2, <1>8 DEF LoadedBoth
<1>9. CASE Ready(q, r, a, b, n, st, lf)
    BY <1>1, <1>2, <1>9 DEF Ready
<1>. QED BY <1>5, <1>6, <1>c, <1>d, <1>8, <1>9 DEF Stage
\* The ship reads the character.
LEMMA ReadCharAnswer ==
    ASSUME NEW q \in Seq(Packet), NEW r \in Seq(Packet), NEW a, NEW b, NEW n \in ClientRec,
           NEW st \in Data, NEW lf,
           r # <<>>, Head(r).gc = a, Head(r).type = "CREQ",
           Stage(q, r, a, b, n, st, lf)
    PROVE  /\ Head(r).data.chr = st.chr
           /\ Stage(q, Tail(r), a, b, [n EXCEPT !.data.chr = Head(r).data.chr], st, lf)
<1>. DEFINE t == Tail(r)
            h == Head(r)
            m == [n EXCEPT !.data.chr = Head(r).data.chr]
<1>1. /\ h \in Packet /\ t \in Seq(Packet) /\ Of(r, a) # {}
      /\ \A i \in Of(t, a) : t[i] \in Packet
      /\ \A P : Only(r, a, P) => h \in P /\ Only(t, a, P)
      /\ \A P : Has(r, a, P) <=> h \in P \/ Has(t, a, P)
      /\ \A R : InOrder(r, a, R) =>
           InOrder(t, a, R) /\ \A i \in Of(t, a) : <<h.type, t[i].type>> \in R
    BY Read
<1>2. /\ h \notin OptsReqs(b) /\ h \in CharReqs /\ h.type = "CREQ"
      /\ h \in WithChr(st) <=> h.data.chr = st.chr
    BY <1>1, PacketKinds
<1>3. /\ m.state = n.state /\ m.dirty = n.dirty /\ m.data.chr = h.data.chr
    BY DEF ClientRec, Data
<1>. HIDE DEF t, h, m
<1>4. CASE Asked(q, r, a, b, n, st, lf)
    BY <1>1, <1>4 DEF Asked
<1>5. CASE Half(q, r, a, b, n, st, lf)
    <2>1. h.data.chr = st.chr
        <3>1. Only(r, a, CharReqs \cap WithChr(st))
            BY <1>5 DEF Half
        <3>2. h \in CharReqs \cap WithChr(st)
            BY <1>1, <3>1
        <3>. QED BY <1>2, <3>2
    <2>2. Of(t, a) = {}
        <3>1. InOrder(r, a, {})
            BY <1>5 DEF Half
        <3>. QED BY <3>1, TailAlone DEF t
    <2>3. InOrder(q, a, LoadOrder) /\ Only(q, a, Saves \cup OptsReqs(b))
        <3>1. InOrder(q, a, {}) /\ Only(q, a, OptsReqs(b))
            BY <1>5 DEF Half
        <3>. QED BY <3>1 DEF InOrder, Only
    <2>4. LoadedHalf(q, t, a, b, m, st, lf)
        BY <1>3, <1>5, <2>1, <2>2, <2>3 DEF Half, LoadedHalf, NotLoaded
    <2>. QED BY <2>1, <2>4 DEF Stage, t, h, m
<1>6. CASE Both(q, r, a, b, n, st, lf)
    <2>1. h.data.chr = st.chr
        BY <1>1, <1>2, <1>6 DEF Both
    <2>2. \A i \in Of(t, a) : t[i].type = "BBOPT_REQ"
        BY <1>1, <1>2, <1>6, Orders DEF Both
    <2>3. \A i \in Of(t, a) : t[i] \in OptsReqs(b) /\ t[i] \in OfRest(st)
        <3>1. \A i \in Of(t, a) :
                t[i] \in (CharReqs \cap WithChr(st)) \cup (OptsReqs(b) \cap OfRest(st))
            BY <1>1, <1>6 DEF Both, Only
        <3>2. \A i \in Of(t, a) : t[i] \notin CharReqs
            BY <1>1, <2>2, PacketKinds
        <3>. QED BY <3>1, <3>2
    <2>4. InOrder(t, a, {})
        <3>1. InOrder(t, a, AnswerOrder)
            BY <1>1, <1>6 DEF Both
        <3>. QED BY <2>2, <3>1, Orders DEF InOrder
    <2>5. ASSUME NEW was \in lf PROVE m.data.chr = was.chr /\ Only(t, a, WithRest(was))
        <3>1. SameData(was, st)
            BY <1>6 DEF Both, Stored
        <3>2. st.chr = was.chr /\ SameRest(was, st)
            BY <3>1, SameParts
        <3>3. \A i \in Of(t, a) : t[i] \in WithRest(was)
            BY <1>1, <2>3, <3>2, PacketKinds DEF SameRest
        <3>. QED BY <1>3, <2>1, <3>2, <3>3 DEF Only
    <2>6. LoadedBoth(q, t, a, b, m, st, lf)
        BY <1>3, <1>6, <2>1, <2>3, <2>4, <2>5 DEF Both, LoadedBoth, NotLoaded, Only
    <2>. QED BY <2>1, <2>6 DEF Stage, t, h, m
<1>7. CASE LoadedHalf(q, r, a, b, n, st, lf)
    BY <1>1, <1>7 DEF LoadedHalf
<1>8. CASE LoadedBoth(q, r, a, b, n, st, lf)
    BY <1>1, <1>2, <1>8 DEF LoadedBoth
<1>9. CASE Ready(q, r, a, b, n, st, lf)
    BY <1>1, <1>9 DEF Ready
<1>. QED BY <1>4, <1>5, <1>6, <1>7, <1>8, <1>9 DEF Stage

\* The ship reads the rest, and moves the client on: it has what was left.
LEMMA ReadOptsAnswer ==
    ASSUME NEW q \in Seq(Packet), NEW r \in Seq(Packet), NEW a, NEW b, NEW n \in ClientRec,
           NEW st \in Data, NEW lf, NEW m,
           r # <<>>, Head(r).gc = a, Head(r).type = "BBOPT_REQ",
           m.state = "ready", m.dirty = n.dirty, m.data.chr = n.data.chr,
           m.data.bank = Head(r).data.bank, m.data.opts = Head(r).data.opts,
           Stage(q, r, a, b, n, st, lf)
    PROVE  /\ Head(r).block = b
           /\ \A was \in lf : SameData(was, m.data)
           /\ Stage(q, Tail(r), a, b, m, st, lf)
<1>. DEFINE t == Tail(r)
            h == Head(r)
<1>1. /\ h \in Packet /\ t \in Seq(Packet) /\ Of(r, a) # {}
      /\ \A i \in Of(t, a) : t[i] \in Packet
      /\ \A P : Only(r, a, P) => h \in P /\ Only(t, a, P)
      /\ \A P : Has(r, a, P) <=> h \in P \/ Has(t, a, P)
      /\ \A R : InOrder(r, a, R) =>
           InOrder(t, a, R) /\ \A i \in Of(t, a) : <<h.type, t[i].type>> \in R
    BY Read
<1>2. /\ h \notin CharReqs /\ h.type = "BBOPT_REQ"
      /\ h \in OptsReqs(b) <=> h.block = b
      /\ \A d : h \in WithRest(d) <=> SameRest(d, h.data)
      /\ \A d : h \in OfRest(d) <=> h.data.bank = d.bank /\ h.data.opts = d.opts
    BY <1>1, PacketKinds
<1>3. /\ m.state = "ready" /\ m.dirty = n.dirty /\ m.data.chr = n.data.chr
      /\ m.data.bank = h.data.bank /\ m.data.opts = h.data.opts
    OBVIOUS
<1>a. \A i \in Of(q, a) : q[i] \in Packet
    BY OfPackets
<1>. HIDE DEF t, h
<1>4. CASE Asked(q, r, a, b, n, st, lf)
    BY <1>1, <1>4 DEF Asked
<1>5. CASE Half(q, r, a, b, n, st, lf)
    BY <1>1, <1>2, <1>5 DEF Half
<1>6. CASE Both(q, r, a, b, n, st, lf)
    <2>1. Has(t, a, CharReqs)
        BY <1>1, <1>2, <1>6 DEF Both
    <2>2. PICK i \in Of(t, a) : t[i] \in CharReqs
        BY <2>1 DEF Has
    <2>3. <<h.type, t[i].type>> \in AnswerOrder
        BY <1>1, <1>6, <2>2 DEF Both
    <2>. QED BY <1>2, <2>3, Orders
<1>7. CASE LoadedHalf(q, r, a, b, n, st, lf)
    BY <1>1, <1>7 DEF LoadedHalf
<1>8. CASE LoadedBoth(q, r, a, b, n, st, lf)
    <2>1. h.block = b /\ Of(t, a) = {}
        BY <1>1, <1>2, <1>8 DEF LoadedBoth
    <2>2. ASSUME NEW was \in lf PROVE SameData(was, m.data)
        <3>1. n.data.chr = was.chr /\ SameRest(was, h.data)
            BY <1>1, <1>2, <1>8 DEF LoadedBoth
        <3>. QED BY <1>3, <3>1 DEF SameRest, SameData
    <2>3. ASSUME ~n.dirty PROVE Will(q, a, st, m.data)
        <3>1. Of(q, a) = {} /\ n.data.chr = st.chr /\ Only(r, a, OfRest(st))
            BY <1>8, <2>3 DEF LoadedBoth
        <3>2. h.data.bank = st.bank /\ h.data.opts = st.opts
            BY <1>1, <1>2, <3>1
        <3>3. SameData(m.data, st)
            BY <1>3, <3>1, <3>2 DEF SameData
        <3>4. ~Has(q, a, CharSaves) /\ ~Has(q, a, OptsSaves)
            BY <3>1 DEF Has
        <3>. QED BY <3>3, <3>4, WillNone
    <2>4. Only(q, a, Saves)
        BY <1>8 DEF LoadedBoth
    <2>5. Ready(q, t, a, b, m, st, lf)
        BY <1>3, <2>1, <2>3, <2>4 DEF Ready
    <2>. QED BY <2>1, <2>2, <2>5 DEF Stage, t, h
<1>9. CASE Ready(q, r, a, b, n, st, lf)
    BY <1>1, <1>9 DEF Ready
<1>. QED BY <1>4, <1>5, <1>6, <1>7, <1>8, <1>9 DEF Stage

\* A round of the block saves the client: both, or only the rest.
LEMMA SaveStage ==
    ASSUME NEW q \in Seq(Packet), NEW r \in Seq(Packet), NEW a, NEW b,
           NEW n \in ClientRec, NEW st \in Data, NEW lf, NEW m, NEW u \in Seq(Packet),
           n.data.chr # Blank, Stage(q, r, a, b, n, st, lf),
           m.state = n.state, m.data = n.data,
           n.state = "waiting" => m.dirty,
           Only(q, a, Saves) => Only(u, a, Saves),
           Only(q, a, Saves \cup OptsReqs(b)) => Only(u, a, Saves \cup OptsReqs(b)),
           Only(q, a, Saves \cup OptsReqs(b)) /\ InOrder(q, a, LoadOrder)
             => InOrder(u, a, LoadOrder),
           Has(q, a, OptsReqs(b)) => Has(u, a, OptsReqs(b)),
           n.state = "ready" /\ ~m.dirty /\ (~n.dirty => Will(q, a, st, n.data))
             => Will(u, a, st, n.data)
    PROVE  Stage(u, r, a, b, m, st, lf)
<1>1. CASE LoadedHalf(q, r, a, b, n, st, lf)
    <2>1. LoadedHalf(u, r, a, b, m, st, lf)
        BY <1>1 DEF LoadedHalf
    <2>. QED BY <2>1 DEF Stage
<1>2. CASE LoadedBoth(q, r, a, b, n, st, lf)
    <2>1. LoadedBoth(u, r, a, b, m, st, lf)
        BY <1>2 DEF LoadedBoth
    <2>. QED BY <2>1 DEF Stage
<1>3. CASE Ready(q, r, a, b, n, st, lf)
    <2>1. Ready(u, r, a, b, m, st, lf)
        BY <1>3 DEF Ready
    <2>. QED BY <2>1 DEF Stage
<1>. QED BY <1>1, <1>2, <1>3 DEF Stage, Asked, Half, Both, NotLoaded

\* One more save behind those of the account.
LEMMA SaveBehind ==
    ASSUME NEW q \in Seq(Packet), NEW a, NEW b,
           NEW x \in Packet, x.gc = a, x.type \in SaveTypes
    PROVE  /\ Append(q, x) \in Seq(Packet)
           /\ Only(q, a, Saves) => Only(Append(q, x), a, Saves)
           /\ Only(q, a, Saves \cup OptsReqs(b)) => Only(Append(q, x), a, Saves \cup OptsReqs(b))
           /\ Only(q, a, Saves \cup OptsReqs(b)) /\ InOrder(q, a, LoadOrder)
                => InOrder(Append(q, x), a, LoadOrder)
           /\ Has(q, a, OptsReqs(b)) => Has(Append(q, x), a, OptsReqs(b))
<1>. DEFINE u == Append(q, x)
<1>1. x \in Saves
    BY PacketKinds
<1>2. /\ u \in Seq(Packet)
      /\ \A P : Only(u, a, P) <=> Only(q, a, P) /\ x \in P
      /\ \A P : Has(u, a, P) <=> Has(q, a, P) \/ x \in P
      /\ \A R : InOrder(q, a, R) /\ (\A i \in Of(q, a) : <<q[i].type, x.type>> \in R)
           => InOrder(u, a, R)
    BY AppendMine, OfAppend
<1>3. \A i \in Of(q, a) : q[i] \in Packet
    BY OfPackets
<1>. HIDE DEF u
<1>4. ASSUME Only(q, a, Saves \cup OptsReqs(b)), InOrder(q, a, LoadOrder)
      PROVE  InOrder(u, a, LoadOrder)
    <2>1. \A i \in Of(q, a) : q[i].type \in {"CDATA", "BBOPTS", "BBOPT_REQ"}
        BY <1>3, <1>4, PacketKinds, Orders DEF Only
    <2>. QED BY <1>2, <1>4, <2>1, Orders
<1>. QED BY <1>1, <1>2, <1>4 DEF u

\* The player plays.
LEMMA PlayStage ==
    ASSUME NEW q, NEW r, NEW a, NEW b, NEW n, NEW st, NEW lf, NEW m,
           Stage(q, r, a, b, n, st, lf), n.state = "ready", m.state = "ready",
           m.dirty \/ (m.dirty = n.dirty /\ m.data = n.data)
    PROVE  Stage(q, r, a, b, m, st, lf)
<1>1. Ready(q, r, a, b, n, st, lf)
    BY DEF Stage, Asked, Half, Both, LoadedHalf, LoadedBoth, NotLoaded
<1>2. Ready(q, r, a, b, m, st, lf)
    BY <1>1 DEF Ready
<1>. QED BY <1>2 DEF Stage

\* A client leaves that was not moved on, and does not save anything.
LEMMA LeaveEarly ==
    ASSUME NEW q \in Seq(Packet), NEW r, NEW a, NEW b, NEW n, NEW st, NEW lf, NEW was \in lf,
           Stage(q, r, a, b, n, st, lf), n.state # "ready", ~n.dirty
    PROVE  Will(q, a, st, was)
<1>a. \A i \in Of(q, a) : q[i] \in Packet
    BY OfPackets
<1>b. ASSUME Only(q, a, OptsReqs(b)), Stored(st, lf) PROVE Will(q, a, st, was)
    <2>1. ~Has(q, a, CharSaves) /\ ~Has(q, a, OptsSaves)
        BY <1>a, <1>b, PacketKinds DEF Has, Only
    <2>. QED BY <1>b, <2>1, WillNone DEF Stored
<1>1. CASE Asked(q, r, a, b, n, st, lf)
    BY <1>1 DEF Asked
<1>2. CASE Half(q, r, a, b, n, st, lf)
    BY <1>2, <1>b DEF Half
<1>3. CASE Both(q, r, a, b, n, st, lf) \/ LoadedBoth(q, r, a, b, n, st, lf)
    <2>1. Only(q, a, OptsReqs(b)) /\ Stored(st, lf)
        BY <1>3 DEF Both, LoadedBoth, Only
    <2>. QED BY <2>1, <1>b
<1>4. CASE LoadedHalf(q, r, a, b, n, st, lf)
    BY <1>4, <1>b DEF LoadedHalf
<1>. QED BY <1>1, <1>2, <1>3, <1>4 DEF Stage, Ready

\* A client logs in in order.
LEMMA LoginStage ==
    ASSUME NEW q \in Seq(Packet), NEW r \in Seq(Packet), NEW a, NEW b,
           NEW n, NEW st \in Data, NEW lf,
           NEW x \in Packet, x.gc = a, x.type = "CREQ",
           NEW y \in Packet, y.gc = a, y.type = "BBOPT_REQ", y.block = b,
           NotLoaded(n), Of(r, a) = {}, Only(q, a, Saves),
           \A was \in lf : Will(q, a, st, was)
    PROVE  Stage(Append(Append(q, x), y), r, a, b, n, st, lf)
<1>. DEFINE u == Append(q, x)
            w == Append(u, y)
<1>1. u \in Seq(Packet)
    BY OfAppend
<1>2. \A was \in lf : Will(w, a, st, was)
    <2>1. \A was \in lf : Will(u, a, st, was)
        BY WillAsked
    <2>. HIDE DEF u
    <2>. QED BY <1>1, <2>1, WillAsked
<1>3. x \in CharReqs /\ y \in OptsReqs(b)
    BY PacketKinds
<1>4. \A i \in Of(q, a) : q[i] \in Packet /\ q[i].type \in SaveTypes
    BY OfPackets, PacketKinds DEF Only
<1>5. /\ \A P : Only(u, a, P) <=> Only(q, a, P) /\ x \in P
      /\ \A P : Has(u, a, P) <=> Has(q, a, P) \/ x \in P
      /\ \A R : InOrder(q, a, R) /\ (\A i \in Of(q, a) : <<q[i].type, x.type>> \in R)
           => InOrder(u, a, R)
    BY AppendMine
<1>6. InOrder(q, a, AskOrder)
    BY <1>4, Orders DEF InOrder
<1>7. InOrder(u, a, AskOrder)
    BY <1>4, <1>5, <1>6, Orders
<1>8. Only(u, a, Saves \cup CharReqs)
    BY <1>3, <1>5 DEF Only
<1>. HIDE DEF u
<1>9. \A i \in Of(u, a) : u[i].type \in SaveTypes \cup {"CREQ"}
    <2>1. \A i \in Of(u, a) : u[i] \in Packet /\ u[i] \in Saves \cup CharReqs
        BY <1>1, <1>8, OfPackets DEF Only
    <2>. QED BY <2>1, PacketKinds
<1>10. /\ \A P : Only(w, a, P) <=> Only(u, a, P) /\ y \in P
       /\ \A P : Has(w, a, P) <=> Has(u, a, P) \/ y \in P
       /\ \A R : InOrder(u, a, R) /\ (\A i \in Of(u, a) : <<u[i].type, y.type>> \in R)
            => InOrder(w, a, R)
    BY <1>1, AppendMine
<1>. HIDE DEF w
<1>11. InOrder(w, a, AskOrder)
    <2>1. \A i \in Of(u, a) : <<u[i].type, y.type>> \in AskOrder
        BY <1>9, Orders
    <2>. QED BY <1>7, <1>10, <2>1
<1>12. Only(w, a, Saves \cup CharReqs \cup OptsReqs(b))
    BY <1>3, <1>8, <1>10 DEF Only
<1>13. Has(w, a, CharReqs) /\ Has(w, a, OptsReqs(b))
    BY <1>3, <1>5, <1>10
<1>14. Asked(w, r, a, b, n, st, lf)
    BY <1>2, <1>11, <1>12, <1>13 DEF Asked
<1>. QED BY <1>14 DEF Stage, w, u

\* What is on the way of others does not matter.
LEMMA StageAlike ==
    ASSUME NEW q1 \in Seq(Packet), NEW q2 \in Seq(Packet),
           NEW r1 \in Seq(Packet), NEW r2 \in Seq(Packet), NEW a,
           NEW b, NEW n, NEW st, NEW lf,
           Alike(q2, q1, a), Alike(r2, r1, a), Stage(q1, r1, a, b, n, st, lf)
    PROVE  Stage(q2, r2, a, b, n, st, lf)
<1>1. /\ Of(q1, a) = {} => Of(q2, a) = {}
      /\ \A P : Only(q1, a, P) => Only(q2, a, P)
      /\ \A P : Has(q1, a, P) <=> Has(q2, a, P)
      /\ \A R : InOrder(q1, a, R) => InOrder(q2, a, R)
    BY AlikeKeeps
<1>2. /\ Of(r1, a) = {} => Of(r2, a) = {}
      /\ \A P : Only(r1, a, P) => Only(r2, a, P)
      /\ \A P : Has(r1, a, P) <=> Has(r2, a, P)
      /\ \A R : InOrder(r1, a, R) => InOrder(r2, a, R)
    BY AlikeKeeps
<1>3. \A d : Will(q1, a, st, d) => Will(q2, a, st, d)
    BY WillAlike
<1>4. CASE Asked(q1, r1, a, b, n, st, lf)
    <2>1. Asked(q2, r2, a, b, n, st, lf)
        BY <1>1, <1>2, <1>3, <1>4 DEF Asked
    <2>. QED BY <2>1 DEF Stage
<1>5. CASE Half(q1, r1, a, b, n, st, lf)
    <2>1. Half(q2, r2, a, b, n, st, lf)
        BY <1>1, <1>2, <1>5 DEF Half
    <2>. QED BY <2>1 DEF Stage
<1>6. CASE Both(q1, r1, a, b, n, st, lf)
    <2>1. Both(q2, r2, a, b, n, st, lf)
        BY <1>1, <1>2, <1>6 DEF Both
    <2>. QED BY <2>1 DEF Stage
<1>7. CASE LoadedHalf(q1, r1, a, b, n, st, lf)
    <2>1. LoadedHalf(q2, r2, a, b, n, st, lf)
        BY <1>1, <1>2, <1>7 DEF LoadedHalf
    <2>. QED BY <2>1 DEF Stage
<1>8. CASE LoadedBoth(q1, r1, a, b, n, st, lf)
    <2>1. LoadedBoth(q2, r2, a, b, n, st, lf)
        BY <1>1, <1>2, <1>8 DEF LoadedBoth
    <2>. QED BY <2>1 DEF Stage
<1>9. CASE Ready(q1, r1, a, b, n, st, lf)
    <2>1. Ready(q2, r2, a, b, n, st, lf)
        BY <1>1, <1>2, <1>3, <1>9 DEF Ready
    <2>. QED BY <2>1 DEF Stage
<1>. QED BY <1>4, <1>5, <1>6, <1>7, <1>8, <1>9 DEF Stage
-----------------------------------------------------------------------------
(* What a step leaves of an account.                                       *)

LEMMA Typed ==
    ASSUME TypeOK
    PROVE  /\ \A s \in Ships : toGate[s] \in Seq(Packet) /\ toShip[s] \in Seq(Packet)
           /\ \A c \in Clients : /\ client[c] \in ClientRec
                                 /\ Account[c] \in Accounts /\ Home[c] \in Ships
           /\ \A a \in Accounts : store[a] \in Data /\ left[a] \subseteq Data
BY ConstantsAssumption DEF TypeOK

LEMMA AloneNow ==
    ASSUME TypeOK, NEW a \in Accounts, InvOf(a),
           NEW c \in Clients, Account[c] = a, client[c].clean
    PROVE  /\ On(c) /\ up[Home[c]]
           /\ \A d \in Clients : Account[d] = a /\ d # c => ~On(d) /\ ~client[d].clean
           /\ \A t \in Ships : t # Home[c] => Of(toGate[t], a) = {} /\ Of(toShip[t], a) = {}
           /\ Stage(toGate[Home[c]], toShip[Home[c]], a, Block[c], client[c],
                    store[a], left[a])
BY DEF InvOf, CleanAlone

\* A client is alone with its account.
LEMMA AloneNext ==
    ASSUME NEW a \in Accounts, NEW c \in Clients, Account[c] = a,
           On(c)', client'[c].clean, up'[Home[c]],
           \A d \in Clients : Account[d] = a /\ d # c => ~On(d)' /\ ~client'[d].clean,
           \A t \in Ships : t # Home[c] => Of(toGate'[t], a) = {} /\ Of(toShip'[t], a) = {},
           SavesLoaded(a)',
           Stage(toGate'[Home[c]], toShip'[Home[c]], a, Block[c], client'[c],
                 store'[a], left'[a])
    PROVE  InvOf(a)'
<1>1. LeftBy(a)'
    BY DEF LeftBy
<1>2. ASSUME NEW d \in Clients, Account[d] = a PROVE CleanAlone(d)'
    <2>1. CASE d = c
        BY <2>1 DEF CleanAlone
    <2>2. CASE d # c
        BY <1>2, <2>2 DEF CleanAlone
    <2>. QED BY <2>1, <2>2
<1>. QED BY <1>1, <1>2 DEF InvOf

\* It is not known what was left.
LEMMA Forgotten ==
    ASSUME NEW a \in Accounts, left'[a] = {}, SavesLoaded(a)',
           \A c \in Clients : Account[c] = a => ~client'[c].clean
    PROVE  InvOf(a)'
BY DEF InvOf, LeftBy, CleanAlone

\* Nobody plays on the account.
LEMMA Absent ==
    ASSUME NEW a \in Accounts, SavesLoaded(a)', WillBeStored(a)',
           \A c \in Clients : Account[c] = a => ~On(c)' /\ ~client'[c].clean
    PROVE  InvOf(a)'
BY DEF InvOf, LeftBy, CleanAlone

\* With nobody who logged in in order, nobody plays or nothing is known.
LEMMA NobodyClean ==
    ASSUME NEW a \in Accounts, InvOf(a), left[a] # {},
           \A c \in Clients : Account[c] = a => ~client[c].clean
    PROVE  WillBeStored(a) /\ \A c \in Clients : Account[c] = a => ~On(c)
BY DEF InvOf, LeftBy

LEMMA LoadedAlike ==
    ASSUME TypeOK, TypeOK', NEW a \in Accounts, SavesLoaded(a),
           \A s \in Ships : Alike(toGate'[s], toGate[s], a)
    PROVE  SavesLoaded(a)'
<1>1. ASSUME NEW s \in Ships PROVE Only(toGate'[s], a, Loaded)
    <2>1. toGate[s] \in Seq(Packet) /\ toGate'[s] \in Seq(Packet) /\ Alike(toGate'[s], toGate[s], a)
        BY DEF TypeOK
    <2>2. Only(toGate[s], a, Loaded)
        BY DEF SavesLoaded
    <2>. QED BY <2>1, <2>2, AlikeKeeps
<1>. QED BY <1>1 DEF SavesLoaded

\* What concerns other accounts only.
LEMMA Untouched ==
    ASSUME TypeOK, TypeOK', NEW a \in Accounts, InvOf(a),
           \A s \in Ships : /\ Alike(toGate'[s], toGate[s], a)
                            /\ Alike(toShip'[s], toShip[s], a),
           store'[a] = store[a], left'[a] = left[a],
           \A c \in Clients : Account[c] = a =>
              IF On(c) THEN client'[c] = client[c] /\ (client[c].clean => up'[Home[c]])
              ELSE ~On(c)' /\ ~client'[c].clean
    PROVE  InvOf(a)'
<1>1. SavesLoaded(a)'
    BY LoadedAlike DEF InvOf
<1>a. \A s \in Ships : /\ toGate[s] \in Seq(Packet) /\ toGate'[s] \in Seq(Packet)
                       /\ toShip[s] \in Seq(Packet) /\ toShip'[s] \in Seq(Packet)
    BY DEF TypeOK
<1>b. \A s \in Ships : /\ Of(toGate[s], a) = {} => Of(toGate'[s], a) = {}
                       /\ Of(toShip[s], a) = {} => Of(toShip'[s], a) = {}
    BY <1>a, AlikeKeeps
<1>2. ASSUME NEW c \in Clients, Account[c] = a, client[c].clean PROVE InvOf(a)'
    <2>1. /\ On(c) /\ up[Home[c]]
          /\ \A d \in Clients : Account[d] = a /\ d # c => ~On(d) /\ ~client[d].clean
          /\ \A t \in Ships : t # Home[c] => Of(toGate[t], a) = {} /\ Of(toShip[t], a) = {}
        BY <1>2, AloneNow
    <2>2. Stage(toGate[Home[c]], toShip[Home[c]], a, Block[c], client[c], store[a], left[a])
        BY <1>2, AloneNow
    <2>3. Home[c] \in Ships
        BY Typed
    <2>4. Stage(toGate'[Home[c]], toShip'[Home[c]], a, Block[c], client[c],
                store[a], left[a])
        BY <1>a, <2>2, <2>3, StageAlike
    <2>5. client'[c] = client[c] /\ up'[Home[c]]
        BY <1>2, <2>1
    <2>6. Stage(toGate'[Home[c]], toShip'[Home[c]], a, Block[c], client'[c],
                store'[a], left'[a])
        BY <2>4, <2>5
    <2>7. On(c)' /\ client'[c].clean
        BY <1>2, <2>1, <2>5 DEF On
    <2>8. \A d \in Clients : Account[d] = a /\ d # c => ~On(d)' /\ ~client'[d].clean
        BY <2>1
    <2>9. \A t \in Ships : t # Home[c] => Of(toGate'[t], a) = {} /\ Of(toShip'[t], a) = {}
        BY <1>b, <2>1
    <2>. QED BY <1>1, <1>2, <2>5, <2>6, <2>7, <2>8, <2>9, AloneNext
<1>3. CASE left[a] = {} /\ \A c \in Clients : Account[c] = a => ~client[c].clean
    <2>1. \A c \in Clients : Account[c] = a => ~client'[c].clean
        BY <1>3
    <2>. QED BY <1>1, <1>3, <2>1, Forgotten
<1>4. CASE left[a] # {} /\ \A c \in Clients : Account[c] = a => ~client[c].clean
    <2>1. WillBeStored(a) /\ \A c \in Clients : Account[c] = a => ~On(c)
        BY <1>4, NobodyClean
    <2>2. PICK s \in Ships : /\ \A t \in Ships : t # s => Of(toGate[t], a) = {}
                             /\ \A was \in left[a] : Will(toGate[s], a, store[a], was)
        BY <2>1 DEF WillBeStored
    <2>3. \A was \in left[a] : Will(toGate'[s], a, store[a], was)
        BY <1>a, <2>2, WillAlike
    <2>4. WillBeStored(a)'
        BY <1>b, <2>2, <2>3 DEF WillBeStored
    <2>5. \A c \in Clients : Account[c] = a => ~On(c)' /\ ~client'[c].clean
        BY <2>1
    <2>. QED BY <1>1, <2>4, <2>5, Absent
<1>. QED BY <1>2, <1>3, <1>4

-----------------------------------------------------------------------------
(* What is sent.                                                           *)

LEMMA TwoBehind ==
    ASSUME NEW q \in Seq(Packet), NEW x \in Packet, NEW y \in Packet
    PROVE  /\ q \o <<x, y>> = Append(Append(q, x), y)
           /\ q \o (<<x>> \o <<y>>) = Append(Append(q, x), y)
           /\ q \o (<<>> \o <<y>>) = Append(q, y)
OBVIOUS

LEMMA RequestFacts ==
    ASSUME NEW c \in Clients, NEW t \in {"CREQ", "BBOPT_REQ", "CDATA", "BBOPTS"}
    PROVE  /\ Request(t, c).type = t /\ Request(t, c).gc = Account[c]
           /\ Request(t, c).block = Block[c]
           /\ Save(t, c).type = t /\ Save(t, c).gc = Account[c]
           /\ Save(t, c).data = client[c].data
BY DEF Request, Save

\* The two queues a save may be behind.
SavedQueue(q, c) ==
    IF Challenge(c) THEN Append(q, Save("BBOPTS", c))
    ELSE Append(Append(q, Save("CDATA", c)), Save("BBOPTS", c))

LEMMA SavedIs ==
    ASSUME TypeOK, NEW q \in Seq(Packet), NEW c \in Clients
    PROVE  /\ q \o SavePackets(c) = SavedQueue(q, c)
           /\ SavedQueue(q, c) \in Seq(Packet)
<1>1. Save("CDATA", c) \in Packet /\ Save("BBOPTS", c) \in Packet
    BY SaveType
<1>2. Append(q, Save("CDATA", c)) \in Seq(Packet) /\ Append(q, Save("BBOPTS", c)) \in Seq(Packet)
    BY <1>1, OfAppend
<1>3. Append(Append(q, Save("CDATA", c)), Save("BBOPTS", c)) \in Seq(Packet)
    BY <1>1, <1>2, OfAppend
<1>4. CASE Challenge(c)
    <2>1. SavePackets(c) = <<>> \o <<Save("BBOPTS", c)>>
        BY <1>4 DEF SavePackets
    <2>. QED BY <1>1, <1>2, <1>4, <2>1, TwoBehind DEF SavedQueue
<1>5. CASE ~Challenge(c)
    <2>1. SavePackets(c) = <<Save("CDATA", c)>> \o <<Save("BBOPTS", c)>>
        BY <1>5 DEF SavePackets
    <2>. QED BY <1>1, <1>3, <1>5, <2>1, TwoBehind DEF SavedQueue
<1>. QED BY <1>4, <1>5

\* Of others nothing is sent.
LEMMA SavedOthers ==
    ASSUME TypeOK, NEW q \in Seq(Packet), NEW c \in Clients, NEW a, Account[c] # a
    PROVE  Alike(SavedQueue(q, c), q, a)
<1>. DEFINE x == Save("CDATA", c)
            y == Save("BBOPTS", c)
<1>1. x \in Packet /\ y \in Packet /\ x.gc # a /\ y.gc # a
    BY SaveType, RequestFacts
<1>. HIDE DEF x, y
<1>2. Append(q, x) \in Seq(Packet) /\ Append(q, y) \in Seq(Packet)
      /\ Append(Append(q, x), y) \in Seq(Packet)
    BY <1>1
<1>3. Alike(Append(q, y), q, a) /\ Alike(Append(q, x), q, a)
    BY <1>1, AlikeAppend
<1>4. Alike(Append(Append(q, x), y), Append(q, x), a)
    BY <1>1, <1>2, AlikeAppend
<1>5. Alike(Append(Append(q, x), y), q, a)
    BY <1>2, <1>3, <1>4, AlikeTrans
<1>. QED BY <1>3, <1>5 DEF SavedQueue, x, y

LEMMA SavedLoaded ==
    ASSUME TypeOK, NEW q \in Seq(Packet), NEW c \in Clients, client[c].data.chr # Blank,
           Only(q, Account[c], Loaded)
    PROVE  Only(SavedQueue(q, c), Account[c], Loaded)
<1>. DEFINE x == Save("CDATA", c)
            y == Save("BBOPTS", c)
            a == Account[c]
<1>1. x \in Packet /\ y \in Packet /\ x.gc = a /\ y.gc = a
    BY SaveType, RequestFacts
<1>2. x \in Loaded /\ y \in Loaded
    BY <1>1, RequestFacts DEF Loaded
<1>. HIDE DEF x, y, a
<1>3. Append(q, x) \in Seq(Packet)
    BY <1>1
<1>4. Only(q, a, Loaded)
    BY DEF a
<1>5. Only(Append(q, x), a, Loaded) /\ Only(Append(q, y), a, Loaded)
    BY <1>1, <1>2, <1>4, AppendMine
<1>6. Only(Append(Append(q, x), y), a, Loaded)
    BY <1>1, <1>2, <1>3, <1>5, AppendMine
<1>. QED BY <1>5, <1>6 DEF SavedQueue, x, y, a
-----------------------------------------------------------------------------
(* The steps of clients.                                                   *)

LEMMA OffUnclean ==
    ASSUME NEW a \in Accounts, InvOf(a), NEW c \in Clients, Account[c] = a, ~On(c)
    PROVE  ~client[c].clean
BY DEF InvOf, CleanAlone

\* Somebody plays who did not log in in order.
LEMMA Unclean ==
    ASSUME TypeOK, NEW a \in Accounts, InvOf(a),
           NEW c \in Clients, Account[c] = a, On(c), ~client[c].clean
    PROVE  left[a] = {} /\ \A d \in Clients : Account[d] = a => ~client[d].clean
<1>1. left[a] = {}
    BY DEF InvOf, LeftBy
<1>2. ASSUME NEW d \in Clients, Account[d] = a, client[d].clean PROVE FALSE
    BY <1>2, AloneNow
<1>. QED BY <1>1, <1>2

LEMMA LoginStep ==
    ASSUME TypeOK, TypeOK', StoredInv, NEW c \in Clients, Login(c)
    PROVE  StoredInv'
<1>. DEFINE k == Account[c]
            s == Home[c]
            q == toGate[s]
            x == Request("CREQ", c)
            y == Request("BBOPT_REQ", c)
            u == Append(q, x)
            w == Append(u, y)
<1>1. /\ k \in Accounts /\ s \in Ships /\ q \in Seq(Packet)
      /\ x \in Packet /\ y \in Packet
    BY Typed, RequestType
<1>2. /\ x.gc = k /\ x.type = "CREQ" /\ x.block = Block[c]
      /\ y.gc = k /\ y.type = "BBOPT_REQ" /\ y.block = Block[c]
    BY RequestFacts
<1>3. /\ toGate'[s] = IF up[s] THEN w ELSE q
      /\ \A t \in Ships : t # s => toGate'[t] = toGate[t]
    <2>1. q \o <<x, y>> = w
        BY <1>1, TwoBehind
    <2>. QED BY <1>1, <2>1 DEF Login, Sent, TypeOK
<1>4. store' = store /\ up' = up /\ toShip' = toShip
    BY DEF Login
<1>5. u \in Seq(Packet) /\ w \in Seq(Packet)
    BY <1>1
<1>6. ASSUME NEW a \in Accounts, a # k PROVE InvOf(a)'
    <2>1. InvOf(a)
        BY DEF StoredInv
    <2>2. Alike(w, q, a)
        <3>. HIDE DEF x, y, u, w
        <3>1. Alike(u, q, a)
            BY <1>1, <1>2, <1>6, AlikeAppend DEF u
        <3>2. Alike(w, u, a)
            BY <1>1, <1>2, <1>5, <1>6, AlikeAppend DEF w
        <3>. QED BY <1>1, <1>5, <3>1, <3>2, AlikeTrans
    <2>3. \A t \in Ships : /\ Alike(toGate'[t], toGate[t], a)
                           /\ Alike(toShip'[t], toShip[t], a)
        <3>. HIDE DEF w
        <3>1. \A t \in Ships : /\ Alike(toGate[t], toGate[t], a)
                               /\ Alike(toShip[t], toShip[t], a)
            BY Typed, AlikeSame
        <3>. QED BY <1>3, <1>4, <2>2, <3>1
    <2>4. left'[a] = left[a]
        BY <1>1, <1>6 DEF Login, TypeOK
    <2>5. \A d \in Clients : Account[d] = a => client'[d] = client[d]
        BY <1>6 DEF Login
    <2>6. \A d \in Clients : Account[d] = a =>
            IF On(d) THEN client'[d] = client[d] /\ (client[d].clean => up'[Home[d]])
            ELSE ~On(d)' /\ ~client'[d].clean
        <3>1. ASSUME NEW d \in Clients, Account[d] = a, client[d].clean PROVE up[Home[d]]
            BY <2>1, <3>1, AloneNow
        <3>2. ASSUME NEW d \in Clients, Account[d] = a, ~On(d) PROVE ~client[d].clean
            BY <2>1, <3>2, OffUnclean
        <3>. QED BY <1>4, <2>5, <3>1, <3>2 DEF On
    <2>. QED BY <1>4, <2>1, <2>3, <2>4, <2>6, Untouched
<1>7. SavesLoaded(k)'
    <2>1. x \in Loaded /\ y \in Loaded
        BY <1>1, <1>2 DEF Loaded
    <2>2. \A t \in Ships : Only(toGate[t], k, Loaded)
        BY <1>1 DEF StoredInv, InvOf, SavesLoaded
    <2>3. Only(w, k, Loaded)
        <3>. HIDE DEF x, y, u, w
        <3>1. Only(u, k, Loaded)
            BY <1>1, <1>2, <2>1, <2>2, AppendMine DEF u
        <3>. QED BY <1>1, <1>2, <1>5, <2>1, <3>1, AppendMine DEF w
    <2>. HIDE DEF w
    <2>. QED BY <1>3, <2>2, <2>3 DEF SavesLoaded
<1>8. CASE CleanLogin(c)
    <2>. DEFINE n == [Off EXCEPT !.state = "waiting", !.clean = TRUE]
    <2>1. /\ up[s]
          /\ \A d \in Clients : Account[d] = k => ~On(d)
          /\ \A t \in Ships : Of(toShip[t], k) = {}
          /\ \A t \in Ships : t # s => Of(toGate[t], k) = {}
          /\ \A i \in Of(q, k) : q[i].type \in {"CDATA", "BBOPTS"}
        BY <1>1, <1>8 DEF CleanLogin
    <2>2. client'[c] = n /\ left' = left
        BY <1>8 DEF Login
    <2>3. \A d \in Clients : Account[d] = k /\ d # c => ~On(d)' /\ ~client'[d].clean
        BY <2>1 DEF Login, On, TypeOK, ClientRec
    <2>4. NotLoaded(n) /\ n.clean /\ n.state # "off"
        BY DEF NotLoaded, Off, Cleared
    <2>5. Only(q, k, Saves)
        BY <1>1, <2>1, OfPackets, PacketKinds DEF Only, SaveTypes
    <2>6. \A was \in left[k] : Will(q, k, store[k], was)
        <3>1. SUFFICES ASSUME NEW was \in left[k] PROVE Will(q, k, store[k], was)
            OBVIOUS
        <3>2. WillBeStored(k)
            BY <1>1, <2>1, <3>1 DEF StoredInv, InvOf, LeftBy
        <3>3. PICK z \in Ships :
                /\ \A t \in Ships : t # z => Of(toGate[t], k) = {}
                /\ \A v \in left[k] : Will(toGate[z], k, store[k], v)
            BY <3>2 DEF WillBeStored
        <3>4. CASE z = s
            BY <3>3, <3>4
        <3>5. CASE z # s
            <4>1. Of(toGate[z], k) = {} /\ Of(q, k) = {}
                BY <1>1, <2>1, <3>3, <3>5
            <4>2. Will(toGate[z], k, store[k], was)
                BY <3>3
            <4>3. SameData(was, store[k])
                BY <4>1, <4>2, WillNone DEF Has
            <4>. QED BY <4>1, <4>3, WillNone DEF Has
        <3>. QED BY <3>4, <3>5
    <2>7. store[k] \in Data /\ toShip[s] \in Seq(Packet) /\ Of(toShip[s], k) = {}
        BY <1>1, <2>1, Typed
    <2>8. Stage(w, toShip[s], k, Block[c], n, store[k], left[k])
        <3>. HIDE DEF k, s, q, x, y, n
        <3>. QED BY <1>1, <1>2, <2>4, <2>5, <2>6, <2>7, LoginStage
    <2>9. Stage(toGate'[s], toShip'[s], k, Block[c], client'[c], store'[k], left'[k])
        <3>. HIDE DEF w, n
        <3>. QED BY <1>3, <1>4, <2>1, <2>2, <2>8
    <2>10. InvOf(k)'
        <3>1. \A t \in Ships : t # s => Of(toGate'[t], k) = {} /\ Of(toShip'[t], k) = {}
            BY <1>3, <1>4, <2>1
        <3>2. On(c)' /\ client'[c].clean /\ up'[s]
            BY <1>4, <2>1, <2>2, <2>4 DEF On
        <3>. QED BY <1>1, <1>7, <2>3, <2>9, <3>1, <3>2, AloneNext
    <2>. QED BY <1>6, <2>10 DEF StoredInv
<1>9. CASE ~CleanLogin(c)
    <2>1. left'[k] = {}
        BY <1>1, <1>9 DEF Login, TypeOK
    <2>2. \A d \in Clients : Account[d] = k => ~client'[d].clean
        BY <1>9 DEF Login, Off, TypeOK, ClientRec
    <2>3. InvOf(k)'
        BY <1>1, <1>7, <2>1, <2>2, Forgotten
    <2>. QED BY <1>6, <2>3 DEF StoredInv
<1>. QED BY <1>8, <1>9
\* What a client sends when it is saved.
LEMMA SavesSent ==
    ASSUME TypeOK, NEW c \in Clients, toGate' = Sent(Home[c], SavePackets(c))
    PROVE  /\ toGate'[Home[c]] = IF up[Home[c]] THEN SavedQueue(toGate[Home[c]], c)
                                 ELSE toGate[Home[c]]
           /\ \A t \in Ships : t # Home[c] => toGate'[t] = toGate[t]
<1>1. Home[c] \in Ships /\ toGate[Home[c]] \in Seq(Packet)
    BY Typed
<1>2. toGate[Home[c]] \o SavePackets(c) = SavedQueue(toGate[Home[c]], c)
    BY <1>1, SavedIs
<1>. QED BY <1>1, <1>2 DEF Sent, TypeOK

\* What c does, and sends, about its account does not concern the others.
LEMMA OthersKept ==
    ASSUME TypeOK, TypeOK', NEW c \in Clients, NEW a \in Accounts, a # Account[c], InvOf(a),
           \/ toGate' = toGate
           \/ toGate' = Sent(Home[c], SavePackets(c)),
           up' = up, toShip' = toShip, store' = store, left'[a] = left[a],
           \A d \in Clients : d # c => client'[d] = client[d]
    PROVE  InvOf(a)'
<1>1. Home[c] \in Ships /\ \A t \in Ships : toGate[t] \in Seq(Packet) /\ toShip[t] \in Seq(Packet)
    BY Typed
<1>2. \A t \in Ships : Alike(toGate[t], toGate[t], a) /\ Alike(toShip[t], toShip[t], a)
    BY <1>1, AlikeSame
<1>3. \A t \in Ships : Alike(toGate'[t], toGate[t], a)
    <2>1. CASE toGate' = Sent(Home[c], SavePackets(c))
        <3>1. Alike(SavedQueue(toGate[Home[c]], c), toGate[Home[c]], a)
            BY <1>1, SavedOthers
        <3>2. /\ toGate'[Home[c]] = IF up[Home[c]] THEN SavedQueue(toGate[Home[c]], c)
                                    ELSE toGate[Home[c]]
              /\ \A t \in Ships : t # Home[c] => toGate'[t] = toGate[t]
            BY <2>1, SavesSent
        <3>. QED BY <1>2, <3>1, <3>2
    <2>2. CASE toGate' = toGate
        BY <1>2, <2>2
    <2>. QED BY <2>1, <2>2
<1>4. \A d \in Clients : Account[d] = a =>
        IF On(d) THEN client'[d] = client[d] /\ (client[d].clean => up'[Home[d]])
        ELSE ~On(d)' /\ ~client'[d].clean
    <2>1. ASSUME NEW d \in Clients, Account[d] = a, client[d].clean PROVE up[Home[d]]
        BY <2>1, AloneNow
    <2>2. ASSUME NEW d \in Clients, Account[d] = a, ~On(d) PROVE ~client[d].clean
        BY <2>2, OffUnclean
    <2>. QED BY <2>1, <2>2 DEF On
<1>. QED BY <1>2, <1>3, <1>4, Untouched

\* A save is of a character that was loaded.
LEMMA SavedKeeps ==
    ASSUME TypeOK, NEW c \in Clients, InvOf(Account[c]), client[c].data.chr # Blank,
           toGate' = Sent(Home[c], SavePackets(c))
    PROVE  SavesLoaded(Account[c])'
<1>1. Home[c] \in Ships /\ \A t \in Ships : toGate[t] \in Seq(Packet)
    BY Typed
<1>2. \A t \in Ships : Only(toGate[t], Account[c], Loaded)
    BY DEF InvOf, SavesLoaded
<1>3. Only(SavedQueue(toGate[Home[c]], c), Account[c], Loaded)
    BY <1>1, <1>2, SavedLoaded
<1>4. /\ toGate'[Home[c]] = IF up[Home[c]] THEN SavedQueue(toGate[Home[c]], c)
                            ELSE toGate[Home[c]]
      /\ \A t \in Ships : t # Home[c] => toGate'[t] = toGate[t]
    BY SavesSent
<1>5. \A t \in Ships : Only(toGate'[t], Account[c], Loaded)
    BY <1>2, <1>3, <1>4
<1>. QED BY <1>5 DEF SavesLoaded

\* The stage of a client after a round has saved it.
LEMMA RoundStage ==
    ASSUME TypeOK, NEW c \in Clients, NEW r \in Seq(Packet), NEW q \in Seq(Packet), NEW lf,
           NEW st \in Data, NEW m, client[c].data.chr # Blank,
           m.state = client[c].state, m.data = client[c].data,
           m.dirty = (client[c].state = "waiting" \/ (client[c].dirty /\ Challenge(c))),
           Stage(q, r, Account[c], Block[c], client[c], st, lf)
    PROVE  Stage(SavedQueue(q, c), r, Account[c], Block[c], m, st, lf)
<1>. DEFINE x == Save("CDATA", c)
            y == Save("BBOPTS", c)
            k == Account[c]
            b == Block[c]
            n == client[c]
            v == Append(q, y)
            u == Append(q, x)
            w == Append(u, y)
<1>1. /\ x \in Packet /\ x.gc = k /\ x.type = "CDATA" /\ x.data = n.data
      /\ y \in Packet /\ y.gc = k /\ y.type = "BBOPTS" /\ y.data = n.data
      /\ n \in ClientRec
    BY SaveType, RequestFacts, Typed
<1>2. x.type \in SaveTypes /\ y.type \in SaveTypes
    BY <1>1 DEF SaveTypes
<1>3. /\ m.state = n.state /\ m.data = n.data /\ n.data.chr # Blank
      /\ n.state = "waiting" => m.dirty
      /\ ~Challenge(c) \/ (m.dirty \/ ~n.dirty)
    OBVIOUS
<1>4. Stage(q, r, k, b, n, st, lf)
    OBVIOUS
<1>. HIDE DEF x, y, k, b, n
<1>5. /\ v \in Seq(Packet)
      /\ Only(q, k, Saves) => Only(v, k, Saves)
      /\ Only(q, k, Saves \cup OptsReqs(b)) => Only(v, k, Saves \cup OptsReqs(b))
      /\ Only(q, k, Saves \cup OptsReqs(b)) /\ InOrder(q, k, LoadOrder)
           => InOrder(v, k, LoadOrder)
      /\ Has(q, k, OptsReqs(b)) => Has(v, k, OptsReqs(b))
    BY <1>1, <1>2, SaveBehind
<1>6. /\ u \in Seq(Packet)
      /\ Only(q, k, Saves) => Only(u, k, Saves)
      /\ Only(q, k, Saves \cup OptsReqs(b)) => Only(u, k, Saves \cup OptsReqs(b))
      /\ Only(q, k, Saves \cup OptsReqs(b)) /\ InOrder(q, k, LoadOrder)
           => InOrder(u, k, LoadOrder)
      /\ Has(q, k, OptsReqs(b)) => Has(u, k, OptsReqs(b))
    BY <1>1, <1>2, SaveBehind
<1>7. /\ w \in Seq(Packet)
      /\ Only(u, k, Saves) => Only(w, k, Saves)
      /\ Only(u, k, Saves \cup OptsReqs(b)) => Only(w, k, Saves \cup OptsReqs(b))
      /\ Only(u, k, Saves \cup OptsReqs(b)) /\ InOrder(u, k, LoadOrder)
           => InOrder(w, k, LoadOrder)
      /\ Has(u, k, OptsReqs(b)) => Has(w, k, OptsReqs(b))
    <2>. HIDE DEF u
    <2>. QED BY <1>1, <1>2, <1>6, SaveBehind
<1>8. Will(w, k, st, n.data)
    BY <1>1, WillSaved
<1>9. Will(q, k, st, n.data) => Will(v, k, st, n.data)
    BY <1>1, WillOptsSaved
<1>. HIDE DEF u, v, w
<1>10. CASE Challenge(c)
    <2>1. Stage(v, r, k, b, m, st, lf)
        BY <1>1, <1>3, <1>4, <1>5, <1>9, <1>10, SaveStage
    <2>. QED BY <1>10, <2>1 DEF SavedQueue, v, y, k, b
<1>11. CASE ~Challenge(c)
    <2>1. Stage(w, r, k, b, m, st, lf)
        BY <1>1, <1>3, <1>4, <1>6, <1>7, <1>8, SaveStage
    <2>. QED BY <1>11, <2>1 DEF SavedQueue, w, u, x, y, k, b
<1>. QED BY <1>10, <1>11

LEMMA SaveRoundStep ==
    ASSUME TypeOK, TypeOK', StoredInv, NEW c \in Clients, SaveRound(c)
    PROVE  StoredInv'
<1>. DEFINE k == Account[c]
            s == Home[c]
<1>1. /\ k \in Accounts /\ s \in Ships /\ InvOf(k)
      /\ \A t \in Ships : toGate[t] \in Seq(Packet) /\ toShip[t] \in Seq(Packet)
      /\ store[k] \in Data
    BY Typed DEF StoredInv
<1>2. /\ On(c) /\ client[c].data.chr # Blank
      /\ toGate' = Sent(s, SavePackets(c))
      /\ up' = up /\ toShip' = toShip /\ store' = store /\ left' = left
    BY DEF SaveRound, MaySave, IsPacketEmpty
<1>3. /\ client'[c].state = client[c].state /\ client'[c].data = client[c].data
      /\ client'[c].clean = client[c].clean
      /\ client'[c].dirty = (client[c].state = "waiting" \/ (client[c].dirty /\ Challenge(c)))
      /\ \A d \in Clients : d # c => client'[d] = client[d]
    BY DEF SaveRound, TypeOK, ClientRec
<1>4. ASSUME NEW a \in Accounts, a # k PROVE InvOf(a)'
    BY <1>2, <1>3, <1>4, OthersKept DEF StoredInv
<1>5. SavesLoaded(k)'
    BY <1>1, <1>2, SavedKeeps
<1>6. CASE client[c].clean
    <2>1. /\ up[s]
          /\ \A d \in Clients : Account[d] = k /\ d # c => ~On(d) /\ ~client[d].clean
          /\ \A t \in Ships : t # s => Of(toGate[t], k) = {} /\ Of(toShip[t], k) = {}
          /\ Stage(toGate[s], toShip[s], k, Block[c], client[c], store[k], left[k])
        BY <1>1, <1>6, AloneNow
    <2>2. Stage(SavedQueue(toGate[s], c), toShip[s], k, Block[c], client'[c], store[k], left[k])
        BY <1>1, <1>2, <1>3, <2>1, RoundStage
    <2>3. /\ toGate'[s] = SavedQueue(toGate[s], c)
          /\ \A t \in Ships : t # s => toGate'[t] = toGate[t]
        BY <1>2, <2>1, SavesSent
    <2>4. Stage(toGate'[s], toShip'[s], k, Block[c], client'[c], store'[k], left'[k])
        BY <1>2, <2>2, <2>3
    <2>5. On(c)' /\ client'[c].clean /\ up'[s]
        BY <1>2, <1>3, <1>6, <2>1 DEF On
    <2>6. \A d \in Clients : Account[d] = k /\ d # c => ~On(d)' /\ ~client'[d].clean
        BY <1>3, <2>1 DEF On
    <2>7. \A t \in Ships : t # s => Of(toGate'[t], k) = {} /\ Of(toShip'[t], k) = {}
        BY <1>2, <2>1, <2>3
    <2>8. InvOf(k)'
        BY <1>1, <1>5, <2>4, <2>5, <2>6, <2>7, AloneNext
    <2>. QED BY <1>4, <2>8 DEF StoredInv
<1>7. CASE ~client[c].clean
    <2>1. left[k] = {} /\ \A d \in Clients : Account[d] = k => ~client[d].clean
        BY <1>1, <1>2, <1>7, Unclean
    <2>2. \A d \in Clients : Account[d] = k => ~client'[d].clean
        BY <1>3, <2>1
    <2>3. InvOf(k)'
        BY <1>1, <1>2, <1>5, <2>1, <2>2, Forgotten
    <2>. QED BY <1>4, <2>3 DEF StoredInv
<1>. QED BY <1>6, <1>7

LEMMA PlaysStep ==
    ASSUME TypeOK, TypeOK', StoredInv, NEW c \in Clients, UseBank(c) \/ ChangeHold(c)
    PROVE  StoredInv'
<1>. DEFINE k == Account[c]
            s == Home[c]
<1>1. /\ k \in Accounts /\ s \in Ships /\ InvOf(k)
      /\ \A t \in Ships : toGate[t] \in Seq(Packet) /\ toShip[t] \in Seq(Packet)
    BY Typed DEF StoredInv
<1>2. /\ client[c].state = "ready" /\ On(c)
      /\ toGate' = toGate /\ up' = up /\ toShip' = toShip /\ store' = store /\ left' = left
    BY DEF UseBank, ChangeHold, Plays, On
<1>3. /\ client'[c].state = client[c].state /\ client'[c].clean = client[c].clean
      /\ client'[c].dirty
           \/ (client'[c].data = client[c].data /\ client'[c].dirty = client[c].dirty)
      /\ \A d \in Clients : d # c => client'[d] = client[d]
    <2>1. CASE UseBank(c)
        <3>. DEFINE Moved(chr, bank) ==
                [client[c] EXCEPT !.data.chr = chr, !.data.bank = bank, !.dirty = TRUE]
        <3>1. client[c] \in ClientRec
            BY DEF TypeOK
        <3>2. \A chr, bank : /\ Moved(chr, bank).dirty = TRUE
                            /\ Moved(chr, bank).state = client[c].state
                            /\ Moved(chr, bank).clean = client[c].clean
            BY <3>1 DEF ClientRec
        <3>3. PICK i \in Items :
                \/ client' = [client EXCEPT ![c] =
                     Moved(client[c].data.chr \ {i}, client[c].data.bank \cup {i})]
                \/ client' = [client EXCEPT ![c] =
                     Moved(client[c].data.chr \cup {i}, client[c].data.bank \ {i})]
            BY <2>1 DEF UseBank
        <3>. HIDE DEF Moved
        <3>4. \/ client'[c] = Moved(client[c].data.chr \ {i}, client[c].data.bank \cup {i})
              \/ client'[c] = Moved(client[c].data.chr \cup {i}, client[c].data.bank \ {i})
            BY <3>3 DEF TypeOK
        <3>. QED BY <3>2, <3>3, <3>4 DEF TypeOK
    <2>2. CASE ChangeHold(c)
        BY <2>2 DEF ChangeHold, TypeOK, ClientRec
    <2>. QED BY <2>1, <2>2
<1>4. ASSUME NEW a \in Accounts, a # k PROVE InvOf(a)'
    BY <1>2, <1>3, <1>4, OthersKept DEF StoredInv
<1>5. SavesLoaded(k)'
    BY <1>1, <1>2 DEF InvOf, SavesLoaded
<1>6. CASE client[c].clean
    <2>1. /\ up[s]
          /\ \A d \in Clients : Account[d] = k /\ d # c => ~On(d) /\ ~client[d].clean
          /\ \A t \in Ships : t # s => Of(toGate[t], k) = {} /\ Of(toShip[t], k) = {}
          /\ Stage(toGate[s], toShip[s], k, Block[c], client[c], store[k], left[k])
        BY <1>1, <1>6, AloneNow
    <2>2. Stage(toGate[s], toShip[s], k, Block[c], client'[c], store[k], left[k])
        BY <1>2, <1>3, <2>1, PlayStage
    <2>4. Stage(toGate'[s], toShip'[s], k, Block[c], client'[c], store'[k], left'[k])
        BY <1>2, <2>2
    <2>5. On(c)' /\ client'[c].clean /\ up'[s]
        BY <1>2, <1>3, <1>6, <2>1 DEF On
    <2>6. \A d \in Clients : Account[d] = k /\ d # c => ~On(d)' /\ ~client'[d].clean
        BY <1>3, <2>1 DEF On
    <2>7. \A t \in Ships : t # s => Of(toGate'[t], k) = {} /\ Of(toShip'[t], k) = {}
        BY <1>2, <2>1
    <2>8. InvOf(k)'
        BY <1>1, <1>5, <2>4, <2>5, <2>6, <2>7, AloneNext
    <2>. QED BY <1>4, <2>8 DEF StoredInv
<1>7. CASE ~client[c].clean
    <2>1. left[k] = {} /\ \A d \in Clients : Account[d] = k => ~client[d].clean
        BY <1>1, <1>2, <1>7, Unclean
    <2>2. \A d \in Clients : Account[d] = k => ~client'[d].clean
        BY <1>3, <2>1
    <2>3. InvOf(k)'
        BY <1>1, <1>2, <1>5, <2>1, <2>2, Forgotten
    <2>. QED BY <1>4, <2>3 DEF StoredInv
<1>. QED BY <1>6, <1>7
\* What is sent for a client stores what the client has.
LEMMA SavedWill ==
    ASSUME TypeOK, NEW c \in Clients, NEW q \in Seq(Packet), NEW st,
           ~Challenge(c) \/ Will(q, Account[c], st, client[c].data)
    PROVE  Will(SavedQueue(q, c), Account[c], st, client[c].data)
<1>1. /\ Save("CDATA", c) \in Packet /\ Save("CDATA", c).gc = Account[c]
      /\ Save("CDATA", c).type = "CDATA" /\ Save("CDATA", c).data = client[c].data
      /\ Save("BBOPTS", c) \in Packet /\ Save("BBOPTS", c).gc = Account[c]
      /\ Save("BBOPTS", c).type = "BBOPTS" /\ Save("BBOPTS", c).data = client[c].data
    BY SaveType, RequestFacts
<1>2. CASE Challenge(c)
    <2>1. Will(Append(q, Save("BBOPTS", c)), Account[c], st, client[c].data)
        BY <1>1, <1>2, WillOptsSaved
    <2>. QED BY <1>2, <2>1 DEF SavedQueue
<1>3. CASE ~Challenge(c)
    <2>1. Will(Append(Append(q, Save("CDATA", c)), Save("BBOPTS", c)), Account[c], st,
               client[c].data)
        BY <1>1, WillSaved
    <2>. QED BY <1>3, <2>1 DEF SavedQueue
<1>. QED BY <1>2, <1>3

LEMMA LeaveStep ==
    ASSUME TypeOK, TypeOK', StoredInv, NEW c \in Clients, Leave(c)
    PROVE  StoredInv'
<1>. DEFINE k == Account[c]
            s == Home[c]
            saves == client[c].hold # "burst" /\ client[c].data.chr # Blank
            gone == \/ ~client[c].clean
                    \/ client[c].dirty /\ (~saves \/ Challenge(c))
                    \/ client[c].state # "ready" /\ saves
<1>1. /\ k \in Accounts /\ s \in Ships /\ InvOf(k)
      /\ \A t \in Ships : toGate[t] \in Seq(Packet) /\ toShip[t] \in Seq(Packet)
      /\ store[k] \in Data
    BY Typed DEF StoredInv
<1>2. /\ On(c)
      /\ saves => toGate' = Sent(s, SavePackets(c))
      /\ ~saves => toGate' = toGate
      /\ up' = up /\ toShip' = toShip /\ store' = store
    BY DEF Leave, IsPacketEmpty
<1>3. /\ client'[c] = Off
      /\ \A d \in Clients : d # c => client'[d] = client[d]
    BY DEF Leave, TypeOK
<1>4. /\ gone => left'[k] = {}
      /\ ~gone /\ client[c].state = "ready" => left'[k] = {client[c].data}
      /\ ~gone /\ client[c].state # "ready" => left'[k] = left[k]
      /\ \A a \in Accounts : a # k => left'[a] = left[a]
    BY <1>1 DEF Leave, IsPacketEmpty, TypeOK
<1>5. ASSUME NEW a \in Accounts, a # k PROVE InvOf(a)'
    <2>1. toGate' = toGate \/ toGate' = Sent(s, SavePackets(c))
        BY <1>2
    <2>2. left'[a] = left[a] /\ InvOf(a)
        BY <1>4, <1>5 DEF StoredInv
    <2>. HIDE DEF saves, gone
    <2>. QED BY <1>2, <1>3, <1>5, <2>1, <2>2, OthersKept
<1>6. SavesLoaded(k)'
    <2>1. CASE saves
        BY <1>1, <1>2, <2>1, SavedKeeps
    <2>2. CASE ~saves
        BY <1>1, <1>2, <2>2 DEF InvOf, SavesLoaded
    <2>. QED BY <2>1, <2>2
<1>7. \A d \in Clients : Account[d] = k => ~client'[d].clean
    <2>1. CASE client[c].clean
        <3>1. \A d \in Clients : Account[d] = k /\ d # c => ~client[d].clean
            BY <1>1, <2>1, AloneNow
        <3>. QED BY <1>3, <3>1 DEF Off
    <2>2. CASE ~client[c].clean
        <3>1. \A d \in Clients : Account[d] = k => ~client[d].clean
            BY <1>1, <1>2, <2>2, Unclean
        <3>. QED BY <1>3, <3>1 DEF Off
    <2>. QED BY <2>1, <2>2
<1>8. CASE gone
    <2>1. InvOf(k)'
        <3>. HIDE DEF gone
        <3>. QED BY <1>1, <1>4, <1>6, <1>7, <1>8, Forgotten
    <2>. QED BY <1>5, <2>1 DEF StoredInv
<1>9. CASE ~gone
    <2>1. /\ client[c].clean
          /\ client[c].dirty => saves /\ ~Challenge(c)
          /\ saves => client[c].state = "ready"
        BY <1>9
    <2>. HIDE DEF gone, saves
    <2>2. /\ up[s]
          /\ \A d \in Clients : Account[d] = k /\ d # c => ~On(d) /\ ~client[d].clean
          /\ \A t \in Ships : t # s => Of(toGate[t], k) = {} /\ Of(toShip[t], k) = {}
          /\ Stage(toGate[s], toShip[s], k, Block[c], client[c], store[k], left[k])
        BY <1>1, <2>1, AloneNow
    <2>3. \A t \in Ships : t # s => toGate'[t] = toGate[t]
        BY <1>2, SavesSent
    <2>4. saves => toGate'[s] = SavedQueue(toGate[s], c)
        BY <1>2, <2>2, SavesSent
    <2>5. \A was \in left'[k] : Will(toGate'[s], k, store[k], was)
        <3>1. CASE client[c].state = "ready"
            <4>1. ~client[c].dirty => Will(toGate[s], k, store[k], client[c].data)
                <5>1. Ready(toGate[s], toShip[s], k, Block[c], client[c], store[k], left[k])
                    BY <2>2, <3>1 DEF Stage, Asked, Half, Both, LoadedHalf, LoadedBoth, NotLoaded
                <5>. QED BY <5>1 DEF Ready
            <4>2. CASE saves
                <5>1. ~Challenge(c) \/ Will(toGate[s], k, store[k], client[c].data)
                    BY <2>1, <4>1
                <5>2. Will(SavedQueue(toGate[s], c), k, store[k], client[c].data)
                    BY <1>1, <5>1, SavedWill
                <5>. QED BY <1>4, <1>9, <2>4, <3>1, <4>2, <5>2
            <4>3. CASE ~saves
                BY <1>2, <1>4, <1>9, <2>1, <3>1, <4>1, <4>3
            <4>. QED BY <4>2, <4>3
        <3>2. CASE client[c].state # "ready"
            <4>1. ~saves /\ ~client[c].dirty
                BY <2>1, <3>2
            <4>2. \A was \in left[k] : Will(toGate[s], k, store[k], was)
                BY <1>1, <2>2, <3>2, <4>1, LeaveEarly
            <4>. QED BY <1>2, <1>4, <1>9, <3>2, <4>1, <4>2
        <3>. QED BY <3>1, <3>2
    <2>6. WillBeStored(k)'
        <3>1. \A t \in Ships : t # s => Of(toGate'[t], k) = {}
            BY <2>2, <2>3
        <3>. QED BY <1>1, <1>2, <2>5, <3>1 DEF WillBeStored
    <2>7. \A d \in Clients : Account[d] = k => ~On(d)' /\ ~client'[d].clean
        BY <1>3, <1>7, <2>2 DEF On, Off
    <2>8. InvOf(k)'
        BY <1>1, <1>6, <2>6, <2>7, Absent
    <2>. QED BY <1>5, <2>8 DEF StoredInv
<1>. QED BY <1>8, <1>9

-----------------------------------------------------------------------------
(* The shipgate reads.                                                     *)

\* What it reads does what was expected of it.
LEMMA GateReads ==
    ASSUME TypeOK, TypeOK', NEW s \in Ships, GateRead(s), NEW k, k = Head(toGate[s]).gc,
           Only(toGate[s], k, Loaded)
    PROVE  /\ \A d : Will(toGate[s], k, store[k], d) => Will(toGate'[s], k, store'[k], d)
           /\ \A b, n, lf : Stage(toGate[s], toShip[s], k, b, n, store[k], lf)
                => Stage(toGate'[s], toShip'[s], k, b, n, store'[k], lf)
<1>. DEFINE q == toGate[s]
            p == Head(q)
            ans == [p EXCEPT !.data = store[k]]
<1>1. q \in Seq(Packet) /\ q # <<>> /\ toShip[s] \in Seq(Packet)
    BY DEF GateRead, TypeOK
<1>2. p \in Packet /\ p.gc = k /\ toGate'[s] = Tail(q)
    BY <1>1 DEF GateRead, TypeOK
<1>3. k \in Accounts /\ p.data \in Data
    BY <1>2 DEF Packet
<1>4. store[k] \in Data /\ store'[k] \in Data
    BY <1>3 DEF TypeOK
<1>5. CASE p.type = "CDATA"
    <2>1. p.data.chr # Blank
        <3>1. p \in Loaded
            BY <1>1, <1>2, TailMine
        <3>. QED BY <1>5, <3>1 DEF Loaded
    <2>2. store'[k] = [store[k] EXCEPT !.chr = p.data.chr] /\ toShip' = toShip
        BY <1>2, <1>3, <1>5, <2>1 DEF GateRead, HandleCharSave, IsPacketEmpty, TypeOK
    <2>3. p.type \in SaveTypes
        BY <1>5 DEF SaveTypes
    <2>. HIDE DEF q, p, ans
    <2>4. \A d : Will(q, k, store[k], d) => Will(Tail(q), k, store'[k], d)
        BY <1>1, <1>2, <1>4, <1>5, <2>2, WillCharRead DEF p
    <2>5. ASSUME NEW b, NEW n, NEW lf, Stage(q, toShip[s], k, b, n, store[k], lf)
          PROVE  Stage(Tail(q), toShip[s], k, b, n, store'[k], lf)
        BY <1>1, <1>2, <2>3, <2>4, <2>5, ReadSave DEF p
    <2>. QED BY <1>2, <2>2, <2>4, <2>5 DEF q
<1>6. CASE p.type = "BBOPTS"
    <2>2. /\ store'[k].chr = store[k].chr /\ store'[k].opts = p.data.opts
          /\ store'[k].bank = IF p.data.bank = {} THEN store[k].bank ELSE p.data.bank
          /\ toShip' = toShip
        <3>. DEFINE bank == IF p.data.bank = {} THEN store[k].bank ELSE p.data.bank
        <3>1. HandleOptsSave(p) /\ toShip' = toShip
            BY <1>6 DEF GateRead
        <3>2. store' = [store EXCEPT ![k] = [store[k] EXCEPT !.opts = p.data.opts,
                                                            !.bank = bank]]
            BY <1>2, <1>3, <3>1 DEF HandleOptsSave, TypeOK
        <3>3. store'[k] = [store[k] EXCEPT !.opts = p.data.opts, !.bank = bank]
            BY <1>3, <3>2 DEF TypeOK
        <3>. QED BY <1>4, <3>1, <3>3 DEF Data
    <2>3. p.type \in SaveTypes
        BY <1>6 DEF SaveTypes
    <2>. HIDE DEF q, p, ans
    <2>4. \A d : Will(q, k, store[k], d) => Will(Tail(q), k, store'[k], d)
        BY <1>1, <1>2, <1>4, <1>6, <2>2, WillOptsRead DEF p
    <2>5. ASSUME NEW b, NEW n, NEW lf, Stage(q, toShip[s], k, b, n, store[k], lf)
          PROVE  Stage(Tail(q), toShip[s], k, b, n, store'[k], lf)
        BY <1>1, <1>2, <2>3, <2>4, <2>5, ReadSave DEF p
    <2>. QED BY <1>2, <2>2, <2>4, <2>5 DEF q
<1>7. CASE p.type \in {"CREQ", "BBOPT_REQ"}
    <2>1. store' = store /\ toShip'[s] = Append(toShip[s], ans)
        BY <1>2, <1>7 DEF GateRead, Answer, TypeOK
    <2>2. /\ ans \in Packet /\ ans.gc = k /\ ans.type = p.type
          /\ ans.data = store[k] /\ ans.block = p.block
        BY <1>2, <1>3, <1>4 DEF Packet
    <2>. HIDE DEF q, p, ans
    <2>4. \A d : Will(q, k, store[k], d) => Will(Tail(q), k, store[k], d)
        BY <1>1, <1>2, <1>7, WillReqRead DEF p
    <2>5. ASSUME NEW b, NEW n, NEW lf, Stage(q, toShip[s], k, b, n, store[k], lf)
          PROVE  Stage(Tail(q), Append(toShip[s], ans), k, b, n, store[k], lf)
        <3>1. CASE p.type = "CREQ"
            BY <1>1, <1>2, <1>4, <2>2, <2>5, <3>1, ReadCharReq DEF p
        <3>2. CASE p.type = "BBOPT_REQ"
            BY <1>1, <1>2, <1>4, <2>2, <2>5, <3>2, ReadOptsReq DEF p
        <3>. QED BY <1>7, <3>1, <3>2
    <2>. QED BY <1>2, <2>1, <2>4, <2>5 DEF q
<1>. QED BY <1>2, <1>5, <1>6, <1>7 DEF Packet

\* What it reads of one account is nothing to the others.
LEMMA GateReadsOthers ==
    ASSUME TypeOK, TypeOK', NEW s \in Ships, GateRead(s),
           NEW a \in Accounts, a # Head(toGate[s]).gc, InvOf(a)
    PROVE  InvOf(a)'
<1>. DEFINE q == toGate[s]
            p == Head(q)
            ans == [p EXCEPT !.data = store[p.gc]]
<1>1. q \in Seq(Packet) /\ q # <<>> /\ toShip[s] \in Seq(Packet)
    BY DEF GateRead, TypeOK
<1>2. p \in Packet /\ toGate' = [toGate EXCEPT ![s] = Tail(q)]
    BY <1>1 DEF GateRead, TypeOK
<1>3. p.gc \in Accounts /\ p.data \in Data
    BY <1>2 DEF Packet
<1>4. /\ client' = client /\ up' = up /\ left' = left
      /\ store'[a] = store[a]
    BY <1>3 DEF GateRead, HandleCharSave, HandleOptsSave, TypeOK
<1>5. toShip' = toShip \/ toShip' = [toShip EXCEPT ![s] = Append(toShip[s], ans)]
    BY DEF GateRead, Answer
<1>6. ans \in Packet /\ ans.gc = p.gc
    BY <1>2, <1>3 DEF Packet, TypeOK
<1>7. \A t \in Ships : Alike(toGate'[t], toGate[t], a)
    <2>1. Alike(Tail(q), q, a)
        BY <1>1, AlikeTail
    <2>2. \A t \in Ships : t # s => Alike(toGate[t], toGate[t], a)
        BY AlikeSame DEF TypeOK
    <2>. QED BY <1>2, <2>1, <2>2 DEF TypeOK
<1>8. \A t \in Ships : Alike(toShip'[t], toShip[t], a)
    <2>. HIDE DEF p, ans
    <2>1. Alike(Append(toShip[s], ans), toShip[s], a)
        BY <1>1, <1>6, AlikeAppend DEF p, q
    <2>2. \A t \in Ships : Alike(toShip[t], toShip[t], a)
        BY AlikeSame DEF TypeOK
    <2>. QED BY <1>5, <2>1, <2>2 DEF TypeOK
<1>9. \A c \in Clients : Account[c] = a =>
        IF On(c) THEN client'[c] = client[c] /\ (client[c].clean => up'[Home[c]])
        ELSE ~On(c)' /\ ~client'[c].clean
    BY <1>4, OffUnclean, AloneNow DEF On
<1>. QED BY <1>4, <1>7, <1>8, <1>9, Untouched

LEMMA GateReadStep ==
    ASSUME TypeOK, TypeOK', StoredInv, NEW s \in Ships, GateRead(s)
    PROVE  StoredInv'
<1>1. toGate[s] \in Seq(Packet) /\ toGate[s] # <<>>
    BY DEF GateRead, TypeOK
<1>2. PICK k \in Accounts : Head(toGate[s]).gc = k
    <2>1. Head(toGate[s]) \in Packet
        BY <1>1
    <2>. QED BY <2>1 DEF Packet
<1>3. InvOf(k) /\ Only(toGate[s], k, Loaded)
    BY <1>2 DEF StoredInv, InvOf, SavesLoaded
<1>4. /\ client' = client /\ up' = up /\ left' = left
      /\ toGate'[s] = Tail(toGate[s])
      /\ \A t \in Ships : t # s => toGate'[t] = toGate[t] /\ toShip'[t] = toShip[t]
    BY DEF GateRead, Answer, TypeOK
<1>5. Of(toGate[s], k) # {}
    BY <1>1, <1>2, TailMine
<1>6. \A a \in Accounts : a # k => InvOf(a)'
    BY <1>2, GateReadsOthers DEF StoredInv
<1>7. SavesLoaded(k)'
    <2>1. Only(toGate'[s], k, Loaded)
        <3>1. Only(Tail(toGate[s]), k, Loaded)
            BY <1>1, <1>2, <1>3, TailMine
        <3>. QED BY <1>4, <3>1
    <2>2. \A t \in Ships : t # s => Only(toGate'[t], k, Loaded)
        BY <1>3, <1>4 DEF InvOf, SavesLoaded
    <2>. QED BY <2>1, <2>2 DEF SavesLoaded
<1>8. /\ \A d : Will(toGate[s], k, store[k], d) => Will(toGate'[s], k, store'[k], d)
      /\ \A b, n, lf : Stage(toGate[s], toShip[s], k, b, n, store[k], lf)
           => Stage(toGate'[s], toShip'[s], k, b, n, store'[k], lf)
    BY <1>2, <1>3, GateReads
<1>9. ASSUME NEW c \in Clients, Account[c] = k, client[c].clean PROVE InvOf(k)'
    <2>1. /\ On(c) /\ up[Home[c]]
          /\ \A d \in Clients : Account[d] = k /\ d # c => ~On(d) /\ ~client[d].clean
          /\ \A t \in Ships : t # Home[c] => Of(toGate[t], k) = {} /\ Of(toShip[t], k) = {}
        BY <1>2, <1>3, <1>9, AloneNow
    <2>2. Stage(toGate[Home[c]], toShip[Home[c]], k, Block[c], client[c], store[k], left[k])
        BY <1>2, <1>3, <1>9, AloneNow
    <2>3. Home[c] = s
        BY <1>5, <2>1
    <2>4. Stage(toGate'[s], toShip'[s], k, Block[c], client'[c], store'[k], left'[k])
        BY <1>4, <1>8, <2>2, <2>3
    <2>5. /\ On(c)' /\ client'[c].clean /\ up'[Home[c]]
          /\ \A d \in Clients : Account[d] = k /\ d # c => ~On(d)' /\ ~client'[d].clean
          /\ \A t \in Ships : t # Home[c] => Of(toGate'[t], k) = {} /\ Of(toShip'[t], k) = {}
        BY <1>4, <1>9, <2>1, <2>3 DEF On
    <2>. QED BY <1>2, <1>7, <1>9, <2>3, <2>4, <2>5, AloneNext
<1>10. ASSUME \A c \in Clients : Account[c] = k => ~client[c].clean PROVE InvOf(k)'
    <2>1. CASE left[k] = {}
        BY <1>2, <1>4, <1>7, <1>10, <2>1, Forgotten
    <2>2. CASE left[k] # {}
        <3>1. WillBeStored(k) /\ \A c \in Clients : Account[c] = k => ~On(c)
            BY <1>2, <1>3, <1>10, <2>2, NobodyClean
        <3>2. PICK t \in Ships : /\ \A u \in Ships : u # t => Of(toGate[u], k) = {}
                                 /\ \A was \in left[k] : Will(toGate[t], k, store[k], was)
            BY <3>1 DEF WillBeStored
        <3>3. t = s
            BY <1>5, <3>2
        <3>4. /\ \A u \in Ships : u # s => Of(toGate'[u], k) = {}
              /\ \A was \in left'[k] : Will(toGate'[s], k, store'[k], was)
            BY <1>4, <1>8, <3>2, <3>3
        <3>5. WillBeStored(k)'
            BY <3>4 DEF WillBeStored
        <3>6. \A c \in Clients : Account[c] = k => ~On(c)' /\ ~client'[c].clean
            BY <1>4, <1>10, <3>1 DEF On
        <3>. QED BY <1>2, <1>7, <3>5, <3>6, Absent
    <2>. QED BY <2>1, <2>2
<1>11. InvOf(k)'
    BY <1>9, <1>10
<1>. QED BY <1>6, <1>11 DEF StoredInv

-----------------------------------------------------------------------------
(* What breaks.                                                            *)

LEMMA BreakStep ==
    ASSUME TypeOK, TypeOK', StoredInv, NEW s \in Ships, LinkLost(s) \/ Crash(s)
    PROVE  StoredInv'
<1>1. /\ store' = store
      /\ \A t \in Ships : t # s => /\ up'[t] = up[t] /\ toGate'[t] = toGate[t]
                                   /\ toShip'[t] = toShip[t]
      /\ toGate'[s] = <<>> /\ toShip'[s] = <<>>
      /\ \A a \in Accounts : left'[a] = IF a \in Involved(s) THEN {} ELSE left[a]
    BY DEF LinkLost, Crash, TypeOK
<1>2. \A c \in Clients :
        \/ client'[c] = Off /\ Home[c] = s
        \/ /\ Account[c] \in Involved(s)
           /\ client'[c] = [client[c] EXCEPT !.clean = FALSE]
        \/ Account[c] \notin Involved(s) /\ client'[c] = client[c]
    BY DEF LinkLost, Crash
<1>3. \A a : Of(<<>>, a) = {}
    BY DEF Of
<1>4. ASSUME NEW a \in Accounts, a \in Involved(s) PROVE InvOf(a)'
    <2>1. \A c \in Clients : Account[c] = a => ~client'[c].clean
        BY <1>2, <1>4 DEF Off, TypeOK, ClientRec
    <2>2. SavesLoaded(a)'
        <3>1. \A t \in Ships : Only(toGate[t], a, Loaded)
            BY DEF StoredInv, InvOf, SavesLoaded
        <3>2. Only(<<>>, a, Loaded)
            BY <1>3 DEF Only
        <3>. QED BY <1>1, <3>1, <3>2 DEF SavesLoaded
    <2>. QED BY <1>1, <1>4, <2>1, <2>2, Forgotten
<1>5. ASSUME NEW a \in Accounts, a \notin Involved(s) PROVE InvOf(a)'
    <2>1. /\ Of(toGate[s], a) = {} /\ Of(toShip[s], a) = {}
          /\ \A c \in Clients : Home[c] = s /\ On(c) => Account[c] # a
        BY <1>5 DEF Involved
    <2>2. Alike(<<>>, toGate[s], a) /\ Alike(<<>>, toShip[s], a)
        BY <1>3, <2>1, AlikeNone
    <2>3. \A t \in Ships : Alike(toGate[t], toGate[t], a) /\ Alike(toShip[t], toShip[t], a)
        BY AlikeSame DEF TypeOK
    <2>4. \A t \in Ships : Alike(toGate'[t], toGate[t], a) /\ Alike(toShip'[t], toShip[t], a)
        BY <1>1, <2>2, <2>3
    <2>5. InvOf(a)
        BY DEF StoredInv
    <2>6. ASSUME NEW c \in Clients, Account[c] = a, On(c)
          PROVE  client'[c] = client[c] /\ (client[c].clean => up'[Home[c]])
        <3>1. Home[c] # s /\ client'[c] = client[c]
            BY <1>2, <1>5, <2>1, <2>6
        <3>2. client[c].clean => up[Home[c]]
            BY <2>5, <2>6, AloneNow
        <3>3. Home[c] \in Ships
            BY Typed
        <3>. QED BY <1>1, <3>1, <3>2, <3>3
    <2>7. ASSUME NEW c \in Clients, Account[c] = a, ~On(c)
          PROVE  ~On(c)' /\ ~client'[c].clean
        <3>1. ~client[c].clean
            BY <2>5, <2>7, OffUnclean
        <3>2. client'[c] = Off \/ client'[c] = client[c]
            BY <1>2, <1>5, <2>7
        <3>. QED BY <2>7, <3>1, <3>2 DEF On, Off
    <2>. QED BY <1>1, <1>5, <2>4, <2>5, <2>6, <2>7, Untouched
<1>. QED BY <1>4, <1>5 DEF StoredInv

LEMMA RelinkStep ==
    ASSUME TypeOK, TypeOK', StoredInv, NEW s \in Ships, Relink(s)
    PROVE  StoredInv'
<1>1. /\ client' = client /\ store' = store /\ toGate' = toGate
      /\ toShip' = toShip /\ left' = left
      /\ \A t \in Ships : up[t] => up'[t]
    BY DEF Relink, TypeOK
<1>2. ASSUME NEW a \in Accounts PROVE InvOf(a)'
    <2>1. InvOf(a)
        BY DEF StoredInv
    <2>2. \A t \in Ships : Alike(toGate[t], toGate[t], a) /\ Alike(toShip[t], toShip[t], a)
        BY AlikeSame DEF TypeOK
    <2>3. \A c \in Clients : Account[c] = a =>
            IF On(c) THEN client'[c] = client[c] /\ (client[c].clean => up'[Home[c]])
            ELSE ~On(c)' /\ ~client'[c].clean
        BY <1>1, <2>1, Typed, OffUnclean, AloneNow DEF On
    <2>. QED BY <1>1, <2>1, <2>2, <2>3, Untouched
<1>. QED BY <1>2 DEF StoredInv

-----------------------------------------------------------------------------
(* The ship reads.                                                         *)

\* A client with its character, and with the rest.
GivenChr(n, p) == [n EXCEPT !.data.chr = p.data.chr]
GivenRest(n, p) == [n EXCEPT !.data.bank = p.data.bank,
                             !.data.opts = p.data.opts, !.state = "ready"]

\* Whom an answer is for.
CharFor(s, p) == {c \in Clients : Home[c] = s /\ On(c) /\ Account[c] = p.gc}
RestFor(s, p) == {c \in CharFor(s, p) : Block[c] = p.block}

LEMMA Given ==
    ASSUME NEW n \in ClientRec, NEW p \in Packet
    PROVE  /\ GivenChr(n, p).state = n.state /\ GivenChr(n, p).clean = n.clean
           /\ GivenRest(n, p).state = "ready" /\ GivenRest(n, p).clean = n.clean
BY DEF GivenChr, GivenRest, ClientRec

\* An answer goes to one client, and to that only.
LEMMA ShipReads ==
    ASSUME TypeOK, NEW s \in Ships, ShipRead(s), NEW p, p = Head(toShip[s])
    PROVE  \/ /\ client' = client
              /\ IF p.type = "CREQ" THEN CharFor(s, p) = {} \/ p.data.chr = Blank
                 ELSE RestFor(s, p) = {}
           \/ /\ p.type = "CREQ"
              /\ \E c \in CharFor(s, p) :
                   client' = [client EXCEPT ![c] = GivenChr(client[c], p)]
           \/ /\ p.type # "CREQ"
              /\ \E c \in RestFor(s, p) :
                   client' = [client EXCEPT ![c] = GivenRest(client[c], p)]
<1>1. CASE p.type = "CREQ"
    <2>1. HandleCharReply(s, p)
        BY <1>1 DEF ShipRead
    <2>2. \/ client' = client /\ (CharFor(s, p) = {} \/ p.data.chr = Blank)
          \/ \E c \in CharFor(s, p) : client' = [client EXCEPT ![c].data.chr = p.data.chr]
        BY <2>1 DEF HandleCharReply, CharFor, IsPacketEmpty
    <2>3. \A c \in Clients : [client EXCEPT ![c].data.chr = p.data.chr]
                             = [client EXCEPT ![c] = GivenChr(client[c], p)]
        BY DEF GivenChr, TypeOK
    <2>. QED BY <1>1, <2>2, <2>3 DEF CharFor
<1>2. CASE p.type # "CREQ"
    <2>1. HandleBBOpts(s, p)
        BY <1>2 DEF ShipRead
    <2>2. \/ client' = client /\ RestFor(s, p) = {}
          \/ \E c \in RestFor(s, p) :
               client' = [client EXCEPT ![c].data.bank = p.data.bank,
                                        ![c].data.opts = p.data.opts,
                                        ![c].state = "ready"]
        BY <2>1 DEF HandleBBOpts, CharFor, RestFor
    <2>3. \A c \in Clients : [client EXCEPT ![c].data.bank = p.data.bank,
                                            ![c].data.opts = p.data.opts,
                                            ![c].state = "ready"]
                             = [client EXCEPT ![c] = GivenRest(client[c], p)]
        BY DEF GivenRest, TypeOK
    <2>. QED BY <1>2, <2>2, <2>3 DEF CharFor, RestFor
<1>. QED BY <1>1, <1>2

\* Nothing comes back to the ship but the answers.
LEMMA StageHead ==
    ASSUME NEW q, NEW r \in Seq(Packet), NEW a, NEW b, NEW n, NEW st, NEW lf,
           r # <<>>, Head(r).gc = a, Stage(q, r, a, b, n, st, lf)
    PROVE  Head(r).type \in {"CREQ", "BBOPT_REQ"}
<1>1. Of(r, a) # {} /\ Head(r) \in Packet
    BY TailMine
<1>2. \A P : Only(r, a, P) => Head(r) \in P
    BY TailMine
<1>3. \/ Only(r, a, CharReqs \cap WithChr(st))
      \/ Only(r, a, (CharReqs \cap WithChr(st)) \cup (OptsReqs(b) \cap OfRest(st)))
      \/ Only(r, a, OptsReqs(b))
    BY <1>1 DEF Stage, Asked, Half, Both, LoadedHalf, LoadedBoth, Ready
<1>4. Head(r) \in CharReqs \/ Head(r) \in OptsReqs(b)
    BY <1>2, <1>3
<1>. QED BY <1>1, <1>4, PacketKinds

LEMMA RestAnswer ==
    ASSUME NEW q \in Seq(Packet), NEW r \in Seq(Packet), NEW a, NEW b, NEW n \in ClientRec,
           NEW st \in Data, NEW lf,
           r # <<>>, Head(r).gc = a, Head(r).type = "BBOPT_REQ",
           Stage(q, r, a, b, n, st, lf)
    PROVE  /\ Head(r).block = b
           /\ \A was \in lf : SameData(was, GivenRest(n, Head(r)).data)
           /\ Stage(q, Tail(r), a, b, GivenRest(n, Head(r)), st, lf)
<1>1. PICK m : m = GivenRest(n, Head(r))
    OBVIOUS
<1>2. /\ m.state = "ready" /\ m.dirty = n.dirty /\ m.data.chr = n.data.chr
      /\ m.data.bank = Head(r).data.bank /\ m.data.opts = Head(r).data.opts
    BY <1>1 DEF GivenRest, ClientRec, Data
<1>3. /\ Head(r).block = b
      /\ \A was \in lf : SameData(was, m.data)
      /\ Stage(q, Tail(r), a, b, m, st, lf)
    BY <1>2, ReadOptsAnswer
<1>. QED BY <1>1, <1>3

\* A client that logged in in order gets what the answer brings it.
LEMMA AnswerFor ==
    ASSUME TypeOK, CharacterKept, NEW s \in Ships, ShipRead(s),
           NEW k \in Accounts, Head(toShip[s]).gc = k, InvOf(k),
           NEW c \in Clients, Account[c] = k, client[c].clean
    PROVE  /\ Home[c] = s
           /\ \A d \in Clients : d # c => client'[d] = client[d]
           /\ client'[c].clean /\ client'[c].state # "off"
           /\ Stage(toGate[s], Tail(toShip[s]), k, Block[c], client'[c], store[k], left[k])
           /\ client[c].state # "ready" /\ client'[c].state = "ready"
                => \A was \in left[k] : SameData(was, client'[c].data)
<1>1. toShip[s] \in Seq(Packet) /\ toShip[s] # <<>> /\ toGate[s] \in Seq(Packet)
    BY DEF ShipRead, TypeOK
<1>2. /\ On(c)
      /\ \A d \in Clients : Account[d] = k /\ d # c => ~On(d)
      /\ \A t \in Ships : t # Home[c] => Of(toShip[t], k) = {}
    BY AloneNow
<1>3. Stage(toGate[Home[c]], toShip[Home[c]], k, Block[c], client[c], store[k], left[k])
    BY AloneNow
<1>4. Home[c] = s
    BY <1>1, <1>2, TailMine
<1>5. PICK p \in Packet : p = Head(toShip[s])
    BY <1>1
<1>6. client[c] \in ClientRec /\ store[k] \in Data
    BY Typed
<1>7. p.type \in {"CREQ", "BBOPT_REQ"}
    BY <1>1, <1>3, <1>4, <1>5, StageHead
<1>8. CharFor(s, p) = {c}
    BY <1>2, <1>4, <1>5 DEF CharFor
<1>b. Stage(toGate[s], toShip[s], k, Block[c], client[c], store[k], left[k])
    BY <1>3, <1>4
<1>9. CASE p.type = "CREQ"
    <2>0. /\ p.data.chr = store[k].chr
          /\ Stage(toGate[s], Tail(toShip[s]), k, Block[c],
                   [client[c] EXCEPT !.data.chr = p.data.chr], store[k], left[k])
        <3>1. Head(toShip[s]).type = "CREQ"
            BY <1>5, <1>9
        <3>2. /\ Head(toShip[s]).data.chr = store[k].chr
              /\ Stage(toGate[s], Tail(toShip[s]), k, Block[c],
                       [client[c] EXCEPT !.data.chr = Head(toShip[s]).data.chr],
                       store[k], left[k])
            BY <1>1, <1>b, <1>6, <3>1, ReadCharAnswer
        <3>. QED BY <1>5, <3>2
    <2>1. p.data.chr = store[k].chr
        BY <2>0
    <2>2. Stage(toGate[s], Tail(toShip[s]), k, Block[c], GivenChr(client[c], p),
                store[k], left[k])
        BY <2>0 DEF GivenChr
    <2>3. p.data.chr # Blank
        BY <2>1 DEF CharacterKept
    <2>4. client' = [client EXCEPT ![c] = GivenChr(client[c], p)]
        BY <1>5, <1>8, <1>9, <2>3, ShipReads
    <2>5. /\ client'[c] = GivenChr(client[c], p)
          /\ \A d \in Clients : d # c => client'[d] = client[d]
        BY <2>4 DEF TypeOK
    <2>. QED BY <1>2, <1>4, <1>6, <2>2, <2>5, Given DEF On
<1>10. CASE p.type = "BBOPT_REQ"
    <2>a. Head(toShip[s]).type = "BBOPT_REQ"
        BY <1>5, <1>10
    <2>b. /\ Head(toShip[s]).block = Block[c]
          /\ \A was \in left[k] : SameData(was, GivenRest(client[c], Head(toShip[s])).data)
          /\ Stage(toGate[s], Tail(toShip[s]), k, Block[c],
                   GivenRest(client[c], Head(toShip[s])), store[k], left[k])
        BY <1>1, <1>b, <1>6, <2>a, RestAnswer
    <2>1. p.block = Block[c]
        BY <1>5, <2>b
    <2>2. \A was \in left[k] : SameData(was, GivenRest(client[c], p).data)
        BY <1>5, <2>b
    <2>3. Stage(toGate[s], Tail(toShip[s]), k, Block[c], GivenRest(client[c], p),
                store[k], left[k])
        BY <1>5, <2>b
    <2>4. RestFor(s, p) = {c}
        BY <1>8, <2>1 DEF RestFor
    <2>5. client' = [client EXCEPT ![c] = GivenRest(client[c], p)]
        BY <1>5, <1>10, <2>4, ShipReads
    <2>6. /\ client'[c] = GivenRest(client[c], p)
          /\ \A d \in Clients : d # c => client'[d] = client[d]
        BY <2>5 DEF TypeOK
    <2>. QED BY <1>2, <1>4, <1>6, <2>2, <2>3, <2>6, Given DEF On
<1>. QED BY <1>7, <1>9, <1>10

LEMMA ShipReadStep ==
    ASSUME TypeOK, TypeOK', CharacterKept, StoredInv, NEW s \in Ships, ShipRead(s)
    PROVE  StoredInv'
<1>1. toShip[s] \in Seq(Packet) /\ toShip[s] # <<>>
    BY DEF ShipRead, TypeOK
<1>2. PICK p \in Packet : p = Head(toShip[s])
    BY <1>1
<1>3. PICK k \in Accounts : p.gc = k
    BY <1>2 DEF Packet
<1>4. /\ toGate' = toGate /\ up' = up /\ store' = store /\ left' = left
      /\ toShip'[s] = Tail(toShip[s])
      /\ \A t \in Ships : t # s => toShip'[t] = toShip[t]
    BY DEF ShipRead, TypeOK
<1>5. InvOf(k)
    BY <1>3 DEF StoredInv
<1>6. /\ \A d \in Clients : client'[d].clean = client[d].clean
      /\ \A d \in Clients : Account[d] # k => client'[d] = client[d]
      /\ (\A d \in Clients : Account[d] = k => ~On(d)) => client' = client
    <2>1. \A d \in Clients : client[d] \in ClientRec
        BY Typed
    <2>2. \A d \in CharFor(s, p) : d \in Clients /\ Account[d] = k /\ On(d)
        BY <1>3 DEF CharFor
    <2>3. RestFor(s, p) \subseteq CharFor(s, p)
        BY DEF RestFor
    <2>4. \/ client' = client
          \/ \E d \in CharFor(s, p) :
               \/ client' = [client EXCEPT ![d] = GivenChr(client[d], p)]
               \/ client' = [client EXCEPT ![d] = GivenRest(client[d], p)]
        BY <1>2, <2>3, ShipReads
    <2>5. CASE client' = client
        BY <2>5
    <2>6. ASSUME NEW d \in CharFor(s, p),
                 \/ client' = [client EXCEPT ![d] = GivenChr(client[d], p)]
                 \/ client' = [client EXCEPT ![d] = GivenRest(client[d], p)]
          PROVE  /\ \A e \in Clients : client'[e].clean = client[e].clean
                 /\ \A e \in Clients : Account[e] # k => client'[e] = client[e]
                 /\ (\A e \in Clients : Account[e] = k => ~On(e)) => client' = client
        <3>1. d \in Clients /\ Account[d] = k /\ On(d)
            BY <2>2, <2>6
        <3>2. GivenChr(client[d], p).clean = client[d].clean
              /\ GivenRest(client[d], p).clean = client[d].clean
            BY <1>2, <2>1, <3>1, Given
        <3>3. /\ client'[d].clean = client[d].clean
              /\ \A e \in Clients : e # d => client'[e] = client[e]
            BY <2>6, <3>1, <3>2 DEF TypeOK
        <3>. QED BY <3>1, <3>3
    <2>. QED BY <2>4, <2>5, <2>6
<1>7. ASSUME NEW a \in Accounts, a # k PROVE InvOf(a)'
    <2>1. Alike(Tail(toShip[s]), toShip[s], a)
        BY <1>1, <1>2, <1>3, <1>7, AlikeTail
    <2>2. \A t \in Ships : Alike(toShip[t], toShip[t], a) /\ Alike(toGate[t], toGate[t], a)
        BY AlikeSame DEF TypeOK
    <2>3. \A t \in Ships : Alike(toShip'[t], toShip[t], a) /\ Alike(toGate'[t], toGate[t], a)
        BY <1>4, <2>1, <2>2
    <2>4. InvOf(a)
        BY DEF StoredInv
    <2>5. \A c \in Clients : Account[c] = a =>
            IF On(c) THEN client'[c] = client[c] /\ (client[c].clean => up'[Home[c]])
            ELSE ~On(c)' /\ ~client'[c].clean
        BY <1>4, <1>6, <1>7, <2>4, OffUnclean, AloneNow DEF On
    <2>. QED BY <1>4, <2>3, <2>4, <2>5, Untouched
<1>8. SavesLoaded(k)'
    BY <1>4, <1>5 DEF InvOf, SavesLoaded
<1>9. ASSUME NEW c \in Clients, Account[c] = k, client[c].clean PROVE InvOf(k)'
    <2>1. /\ up[Home[c]]
          /\ \A d \in Clients : Account[d] = k /\ d # c => ~On(d) /\ ~client[d].clean
          /\ \A t \in Ships : t # Home[c] => Of(toGate[t], k) = {} /\ Of(toShip[t], k) = {}
        BY <1>5, <1>9, AloneNow
    <2>2. /\ Home[c] = s
          /\ \A d \in Clients : d # c => client'[d] = client[d]
          /\ client'[c].clean /\ client'[c].state # "off"
          /\ Stage(toGate[s], Tail(toShip[s]), k, Block[c], client'[c], store[k], left[k])
        BY <1>2, <1>3, <1>5, <1>9, AnswerFor
    <2>3. Stage(toGate'[s], toShip'[s], k, Block[c], client'[c], store'[k], left'[k])
        BY <1>4, <2>2
    <2>4. /\ On(c)' /\ up'[Home[c]]
          /\ \A d \in Clients : Account[d] = k /\ d # c => ~On(d)' /\ ~client'[d].clean
          /\ \A t \in Ships : t # Home[c] => Of(toGate'[t], k) = {} /\ Of(toShip'[t], k) = {}
        BY <1>4, <2>1, <2>2 DEF On
    <2>. QED BY <1>8, <1>9, <2>2, <2>3, <2>4, AloneNext
<1>10. ASSUME \A c \in Clients : Account[c] = k => ~client[c].clean PROVE InvOf(k)'
    <2>1. CASE left[k] = {}
        BY <1>4, <1>6, <1>8, <1>10, <2>1, Forgotten
    <2>2. CASE left[k] # {}
        <3>1. WillBeStored(k) /\ \A c \in Clients : Account[c] = k => ~On(c)
            BY <1>5, <1>10, <2>2, NobodyClean
        <3>2. client' = client
            BY <1>6, <3>1
        <3>3. WillBeStored(k)'
            BY <1>4, <3>1 DEF WillBeStored
        <3>4. \A c \in Clients : Account[c] = k => ~On(c)' /\ ~client'[c].clean
            BY <1>10, <3>1, <3>2 DEF On
        <3>. QED BY <1>8, <3>3, <3>4, Absent
    <2>. QED BY <2>1, <2>2
<1>11. InvOf(k)'
    BY <1>9, <1>10
<1>. QED BY <1>7, <1>11 DEF StoredInv

-----------------------------------------------------------------------------
(* The theorems.                                                           *)

\* Without a ship there is no client, and nothing happens.
LeftInv ==
    IF Ships = {} THEN \A a \in Accounts : left[a] = {store[a]} ELSE StoredInv

LEMMA InitLeft == Init => LeftInv
<1>. SUFFICES ASSUME Init PROVE LeftInv
    OBVIOUS
<1>1. /\ \A c \in Clients : client[c] = Off
      /\ \A s \in Ships : toGate[s] = <<>>
      /\ \A a \in Accounts : left[a] = {store[a]}
    BY DEF Init
<1>2. CASE Ships # {}
    <2>1. ASSUME NEW a \in Accounts PROVE InvOf(a)
        <3>1. \A s \in Ships : Of(toGate[s], a) = {}
            BY <1>1 DEF Of
        <3>2. SavesLoaded(a)
            BY <3>1 DEF SavesLoaded, Only
        <3>3. \A c \in Clients : CleanAlone(c)
            BY <1>1 DEF CleanAlone, Off
        <3>4. \A was \in left[a] : SameData(was, store[a])
            BY <1>1 DEF SameData
        <3>5. \A s \in Ships : ~Has(toGate[s], a, CharSaves) /\ ~Has(toGate[s], a, OptsSaves)
            BY <3>1 DEF Has
        <3>6. \A s \in Ships : \A was \in left[a] : Will(toGate[s], a, store[a], was)
            BY <3>4, <3>5, WillNone
        <3>7. WillBeStored(a)
            BY <1>2, <3>1, <3>6 DEF WillBeStored
        <3>8. \A c \in Clients : ~On(c)
            BY <1>1 DEF On, Off
        <3>. QED BY <3>2, <3>3, <3>7, <3>8 DEF InvOf, LeftBy
    <2>. QED BY <1>2, <2>1 DEF LeftInv, StoredInv
<1>. QED BY <1>1, <1>2 DEF LeftInv

LEMMA NextStored ==
    TypeOK /\ TypeOK' /\ CharacterKept /\ StoredInv /\ [Next]_vars => StoredInv'
<1>. SUFFICES ASSUME TypeOK, TypeOK', CharacterKept, StoredInv, [Next]_vars
              PROVE  StoredInv'
    OBVIOUS
<1>1. ASSUME NEW c \in Clients,
             Login(c) \/ SaveRound(c) \/ Leave(c) \/ UseBank(c) \/ ChangeHold(c)
      PROVE  StoredInv'
    BY <1>1, LoginStep, SaveRoundStep, LeaveStep, PlaysStep
<1>2. ASSUME NEW s \in Ships,
             ShipRead(s) \/ GateRead(s) \/ LinkLost(s) \/ Relink(s) \/ Crash(s)
      PROVE  StoredInv'
    BY <1>2, ShipReadStep, GateReadStep, BreakStep, RelinkStep
<1>3. CASE UNCHANGED vars
    BY <1>3 DEF vars, StoredInv, InvOf, SavesLoaded, LeftBy, CleanAlone, WillBeStored, On
<1>. QED BY <1>1, <1>2, <1>3 DEF Next

LEMMA NextLeft ==
    TypeOK /\ TypeOK' /\ CharacterKept /\ LeftInv /\ [Next]_vars => LeftInv'
<1>. SUFFICES ASSUME TypeOK, TypeOK', CharacterKept, LeftInv, [Next]_vars PROVE LeftInv'
    OBVIOUS
<1>1. CASE Ships # {}
    BY <1>1, NextStored DEF LeftInv
<1>2. CASE Ships = {}
    <2>1. Clients = {}
        BY <1>2, ConstantsAssumption
    <2>2. UNCHANGED vars
        BY <1>2, <2>1 DEF Next
    <2>. QED BY <1>2, <2>2 DEF LeftInv, vars
<1>. QED BY <1>1, <1>2

\* Once all of an account's packets have been read and nobody plays on it,
\* what was on its way has been stored.
LEMMA LeftSettled == TypeOK /\ LeftInv => LeftIsStored
<1>. SUFFICES ASSUME TypeOK, LeftInv, NEW a \in Accounts, Quiet(a), NEW was \in left[a]
              PROVE  SameData(was, store[a])
    BY DEF LeftIsStored
<1>1. CASE Ships = {}
    BY <1>1 DEF LeftInv, SameData
<1>2. CASE Ships # {}
    <2>1. InvOf(a)
        BY <1>2 DEF LeftInv, StoredInv
    <2>2. \A c \in Clients : Account[c] = a => ~On(c)
        BY DEF Quiet
    <2>3. WillBeStored(a)
        BY <2>1, <2>2 DEF InvOf, LeftBy
    <2>4. PICK s \in Ships : Will(toGate[s], a, store[a], was)
        BY <2>3 DEF WillBeStored
    <2>5. Of(toGate[s], a) = {}
        BY DEF Quiet, Settled
    <2>6. ~Has(toGate[s], a, CharSaves) /\ ~Has(toGate[s], a, OptsSaves)
        BY <2>5 DEF Has
    <2>. QED BY <2>4, <2>6, WillNone
<1>. QED BY <1>1, <1>2

\* A client that logged in in order is moved on by the answer with the bank
\* and the options, and then has what was left.
LEMMA NextFound ==
    TypeOK /\ CharacterKept /\ LeftInv /\ [Next]_vars =>
      \A c \in Clients :
         /\ client[c].state = "waiting" /\ client'[c].state = "ready"
         /\ client[c].clean
         => \A was \in left[Account[c]] : SameData(was, client'[c].data)
<1>. SUFFICES ASSUME TypeOK, CharacterKept, LeftInv, [Next]_vars, NEW c \in Clients,
                     client[c].state = "waiting", client'[c].state = "ready",
                     client[c].clean
              PROVE  \A was \in left[Account[c]] : SameData(was, client'[c].data)
    OBVIOUS
<1>1. PICK k \in Accounts : Account[c] = k
    BY Typed
<1>2. InvOf(k)
    BY ConstantsAssumption DEF LeftInv, StoredInv
<1>3. ASSUME NEW s \in Ships, ShipRead(s)
      PROVE  \A was \in left[k] : SameData(was, client'[c].data)
    <2>1. toShip[s] \in Seq(Packet) /\ toShip[s] # <<>>
        BY <1>3 DEF ShipRead, TypeOK
    <2>2. PICK p \in Packet : p = Head(toShip[s])
        BY <2>1
    <2>3. PICK d \in CharFor(s, p) :
             \/ client' = [client EXCEPT ![d] = GivenChr(client[d], p)]
             \/ client' = [client EXCEPT ![d] = GivenRest(client[d], p)]
        <3>1. RestFor(s, p) \subseteq CharFor(s, p)
            BY DEF RestFor
        <3>. QED BY <1>3, <2>2, <3>1, ShipReads
    <2>4. d = c
        <3>1. d \in Clients
            BY <2>3 DEF CharFor
        <3>. QED BY <2>3, <3>1 DEF TypeOK
    <2>5. Head(toShip[s]).gc = k
        BY <1>1, <2>2, <2>3, <2>4 DEF CharFor
    <2>. QED BY <1>1, <1>2, <1>3, <2>5, AnswerFor
<1>4. \A d \in Clients : Login(d) \/ SaveRound(d) \/ Leave(d) \/ UseBank(d) \/ ChangeHold(d)
                           => client'[c].state # "ready"
    <2>1. ASSUME NEW d \in Clients, Login(d) PROVE client'[c].state # "ready"
        BY <2>1 DEF Login, Off, TypeOK, ClientRec
    <2>2. ASSUME NEW d \in Clients, SaveRound(d) \/ Leave(d) PROVE client'[c].state # "ready"
        <3>1. CASE d # c
            BY <2>2, <3>1 DEF SaveRound, Leave, TypeOK
        <3>2. CASE d = c
            <4>1. CASE SaveRound(c)
                <5>1. PICK dirty : client' = [client EXCEPT ![c].dirty = dirty]
                    BY <4>1 DEF SaveRound
                <5>. QED BY <5>1 DEF TypeOK, ClientRec
            <4>2. CASE Leave(c)
                <5>1. client'[c] = Off
                    BY <4>2 DEF Leave, TypeOK
                <5>. QED BY <5>1 DEF Off
            <4>. QED BY <2>2, <3>2, <4>1, <4>2
        <3>. QED BY <3>1, <3>2
    <2>3. ASSUME NEW d \in Clients, UseBank(d) PROVE client'[c].state # "ready"
        <3>1. client[d].state = "ready" /\ d # c
            BY <2>3 DEF UseBank, Plays
        <3>2. client'[c] = client[c]
            BY <2>3, <3>1 DEF UseBank, TypeOK
        <3>. QED BY <3>2
    <2>4. ASSUME NEW d \in Clients, ChangeHold(d) PROVE client'[c].state # "ready"
        <3>1. client[d].state = "ready" /\ d # c
            BY <2>4 DEF ChangeHold
        <3>2. client'[c] = client[c]
            BY <2>4, <3>1 DEF ChangeHold, TypeOK
        <3>. QED BY <3>2
    <2>. QED BY <2>1, <2>2, <2>3, <2>4
<1>5. \A s \in Ships : LinkLost(s) \/ Crash(s) => client'[c].state # "ready"
    <2>1. ASSUME NEW s \in Ships, LinkLost(s) \/ Crash(s)
          PROVE  client'[c].state \in {"off", client[c].state}
        <3>1. CASE client'[c] = client[c]
            BY <3>1
        <3>2. CASE client'[c] = Off
            BY <3>2 DEF Off
        <3>3. CASE client'[c] = [client[c] EXCEPT !.clean = FALSE]
            BY <3>3 DEF TypeOK, ClientRec
        <3>. QED BY <2>1, <3>1, <3>2, <3>3 DEF LinkLost, Crash
    <2>. QED BY <2>1
<1>6. UNCHANGED client => client'[c].state # "ready"
    OBVIOUS
<1>. QED BY <1>1, <1>3, <1>4, <1>5, <1>6 DEF Next, vars, GateRead, Relink

\* Whatever is lost or comes late, and however many ships, blocks and
\* connections an account is used from, what a client had that logged in and
\* left in order is what the database has once its packets have been read
\* (client_send_bb_data, clients.c:545-591; handle_char_data_save and
\* handle_bbopts, ship.c of the shipgate).
THEOREM LeftStored == Spec => []LeftIsStored
<1>1. TypeOK /\ CharacterKept /\ LeftInv /\ [Next]_vars
        => (TypeOK /\ CharacterKept /\ LeftInv)'
    BY NextType, NextKept, NextLeft
<1>2. Init => TypeOK /\ CharacterKept /\ LeftInv
    BY InitType, InitKept, InitLeft
<1>. QED BY <1>1, <1>2, LeftSettled, PTL DEF Spec

\* A player that logs in in order finds, when it is sent to the lobbies, what
\* the last client of its account left (handle_char_data_req and
\* handle_bbopts, shipgate.c of the ship), also when that was not yet saved
\* when it connected.
THEOREM FoundLeft == Spec => FoundAsLeft
<1>1. TypeOK /\ CharacterKept /\ LeftInv /\ [Next]_vars
        => (TypeOK /\ CharacterKept /\ LeftInv)'
    BY NextType, NextKept, NextLeft
<1>2. Init => TypeOK /\ CharacterKept /\ LeftInv
    BY InitType, InitKept, InitLeft
<1>. QED BY <1>1, <1>2, NextFound, PTL DEF Spec, FoundAsLeft
=============================================================================
