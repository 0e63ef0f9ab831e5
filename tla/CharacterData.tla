--------------------------- MODULE CharacterData ---------------------------
(***************************************************************************)
(* Loading and saving of Blue Burst characters: the blocks of the ships,   *)
(* their links to the shipgate and the database behind it (clients.c,      *)
(* block_bb.c and shipgate.c of the ship; ship.c of the shipgate).         *)
(*                                                                         *)
(* An account has a character and, in another table, what all of its       *)
(* characters share: a bank and the player's options.  A client asks for   *)
(* both when it logs in, works on copies in the ship's memory, and has     *)
(* them saved by two packets in every round of its block and when it       *)
(* leaves.  Nothing is acknowledged.                                       *)
(*                                                                         *)
(* Items stand for everything that moves between a character and the bank; *)
(* what a player does with them is GameItems.                              *)
(***************************************************************************)
EXTENDS Integers, FiniteSets, Sequences

CONSTANTS
    Accounts,   \* guild card numbers
    Ships,
    Clients,    \* connections
    Account,    \* client -> the account it logs in to
    Home,       \* client -> the ship it is on
    Block,      \* client -> the block of that ship
    Items,
    Blank,      \* character data of zeroes: nothing was loaded
    MaxQueue,   \* bound on the packets in flight on a link, each way
    MaxFaults   \* bound on the links that are lost and the ships that crash

ASSUME ConstantsAssumption ==
    /\ Account \in [Clients -> Accounts]
    /\ Home \in [Clients -> Ships]
    /\ Block \in [Clients -> Nat]
    /\ \A chr \in SUBSET Items : chr # Blank
    /\ MaxQueue \in Nat /\ MaxFaults \in Nat

VARIABLES
    client,   \* connection -> the ship_client_t
    store,    \* account -> what the database has
    up,       \* ship -> its link to the shipgate works
    toGate,   \* ship -> packets on their way to the shipgate
    toShip,   \* ship -> packets on their way back
    left,     \* account -> what its last client left in order; {}: unknown
    faults

vars == <<client, store, up, toGate, toShip, left, faults>>

-----------------------------------------------------------------------------
(* The structures.                                                         *)

\* Character data.  isPacketEmpty looks at gc_string, which every character
\* has.
Characters == {Blank} \cup SUBSET Items

\* Mutant: no data is recognised as empty.
IsPacketEmpty_Never(chr) == FALSE

IsPacketEmpty(chr) == chr = Blank

\* A character, a bank, and whether the options are the player's own.
Data == [chr : Characters, bank : SUBSET Items, opts : BOOLEAN]

\* client_create_connection clears everything.
Cleared == [chr |-> Blank, bank |-> {}, opts |-> FALSE]

\* ship_client_t.  waiting: logged in and not yet sent to the lobby list.
\* hold: what keeps it from being saved in full: CLIENT_FLAG_BURSTING; a game
\* with LOBBY_FLAG_SINGLEPLAYER, whose bit the code takes for the lobby's
\* burst; or c->mode, a challenge, which keeps back the character alone.
\* clean and dirty belong to the properties: it logged in when nothing else
\* touched the account; what it has differs from what it last sent.
ClientRec ==
    [state : {"off", "waiting", "ready"}, data : Data,
     hold : {"no", "burst", "solo", "challenge"},
     clean : BOOLEAN, dirty : BOOLEAN]

Off == [state |-> "off", data |-> Cleared, hold |-> "no",
        clean |-> FALSE, dirty |-> FALSE]

\* The packets.  Only BBOPT_REQ and its answer name a block.
Packet ==
    [type : {"CREQ", "BBOPT_REQ", "CDATA", "BBOPTS"}, gc : Accounts,
     block : Nat, data : Data]

Request(type, c) ==
    [type |-> type, gc |-> Account[c], block |-> Block[c], data |-> Cleared]

Save(type, c) == [Request(type, c) EXCEPT !.data = client[c].data]

Init ==
    /\ client = [c \in Clients |-> Off]
    /\ store = [a \in Accounts |-> [chr |-> Items, bank |-> {}, opts |-> TRUE]]
    /\ up = [s \in Ships |-> TRUE]
    /\ toGate = [s \in Ships |-> <<>>]
    /\ toShip = [s \in Ships |-> <<>>]
    /\ left = [a \in Accounts |-> {store[a]}]
    /\ faults = 0

On(c) == client[c].state # "off"

\* The packets of account a in a queue.
Of(queue, a) == {i \in 1 .. Len(queue) : queue[i].gc = a}

\* Nothing of account a is on its way.
Settled(a) == \A s \in Ships : Of(toGate[s], a) = {} /\ Of(toShip[s], a) = {}

Quiet(a) == Settled(a) /\ \A c \in Clients : Account[c] = a => ~On(c)

\* c's requests will be answered with what was last saved: nobody else plays
\* on the account, no answers to an earlier client are on their way, and the
\* saves that are, are ahead of the requests on the same link.
CleanLogin(c) ==
    LET a == Account[c]
    IN  /\ up[Home[c]]
        /\ \A d \in Clients : Account[d] = a => ~On(d)
        /\ \A s \in Ships :
             /\ Of(toShip[s], a) = {}
             /\ s # Home[c] => Of(toGate[s], a) = {}
             /\ \A i \in Of(toGate[s], a) : toGate[s][i].type \in {"CDATA", "BBOPTS"}

-----------------------------------------------------------------------------
(* The ship.                                                               *)

\* Mutant: the link is not looked at.
Sent_Anyway(s, packets) == [toGate EXCEPT ![s] = @ \o packets]

\* send_crypt: without a link the packets are dropped, and nobody is told.
Sent(s, packets) ==
    IF up[s] THEN [toGate EXCEPT ![s] = @ \o packets] ELSE toGate

\* bb_process_login, from a client that has just connected.
Login(c) ==
    LET a  == Account[c]
        ok == CleanLogin(c)
    IN  /\ ~On(c)
        /\ Len(toGate[Home[c]]) + 2 <= MaxQueue
        /\ client' = [d \in Clients |->
             IF d = c THEN [Off EXCEPT !.state = "waiting", !.clean = ok]
             ELSE IF Account[d] = a THEN [client[d] EXCEPT !.clean = FALSE]
             ELSE client[d]]
        /\ left' = IF ok THEN left ELSE [left EXCEPT ![a] = {}]
        /\ toGate' = Sent(Home[c], <<Request("CREQ", c), Request("BBOPT_REQ", c)>>)
        /\ UNCHANGED <<store, up, toShip, faults>>

\* check_bb_pl_data.
MaySave(c) == client[c].hold \in {"no", "challenge"} /\ ~IsPacketEmpty(client[c].data.chr)

Challenge(c) == client[c].hold = "challenge"

\* Mutant: what the characters of an account share is not saved.
SavePackets_NoOptions(c) ==
    IF Challenge(c) THEN <<>> ELSE <<Save("CDATA", c)>>

\* The packets client_send_bb_data sends.
SavePackets(c) ==
    (IF Challenge(c) THEN <<>> ELSE <<Save("CDATA", c)>>) \o <<Save("BBOPTS", c)>>

\* The block's round saves every client it has something to send to.
SaveRound(c) ==
    /\ On(c)
    /\ MaySave(c)
    /\ Len(toGate[Home[c]]) + 2 <= MaxQueue
    /\ toGate' = Sent(Home[c], SavePackets(c))
    /\ client' = [client EXCEPT ![c].dirty =
                    client[c].state = "waiting" \/ (@ /\ Challenge(c))]
    /\ UNCHANGED <<store, up, toShip, left, faults>>

\* The sweep: the client leaves its lobby, and client_destroy_connection
\* saves it.  Leaving the lobby ends "solo", not CLIENT_FLAG_BURSTING.
\* It leaves in order if it has everything and all of it is or was sent.
Leave(c) ==
    LET a       == Account[c]
        saves   == client[c].hold # "burst" /\ ~IsPacketEmpty(client[c].data.chr)
        unsaved == client[c].dirty /\ (~saves \/ Challenge(c))
        ready   == client[c].state = "ready"
        early   == ~ready /\ saves
    IN  /\ On(c)
        /\ Len(toGate[Home[c]]) + 2 <= MaxQueue
        /\ client' = [client EXCEPT ![c] = Off]
        /\ toGate' = IF saves THEN Sent(Home[c], SavePackets(c)) ELSE toGate
        /\ left' = [left EXCEPT ![a] =
                      IF ~client[c].clean \/ unsaved \/ early THEN {}
                      ELSE IF ready THEN {client[c].data} ELSE @]
        /\ UNCHANGED <<store, up, toShip, faults>>

\* Mutant: the client is moved on when it has its character.
HandleCharReply_MovesOn(s, p) ==
    LET found == {c \in Clients : Home[c] = s /\ On(c) /\ Account[c] = p.gc}
    IN  IF found = {}
          THEN UNCHANGED client
          ELSE \E c \in found :
                 client' = [client EXCEPT ![c].data.chr = p.data.chr,
                                          ![c].state = "ready"]

\* handle_char_data_req: the first client with the guild card, in the order
\* of the blocks.  Of two in one block it is the one that came first: either.
HandleCharReply(s, p) ==
    LET found == {c \in Clients : Home[c] = s /\ On(c) /\ Account[c] = p.gc}
    IN  IF found = {} \/ IsPacketEmpty(p.data.chr)
          THEN UNCHANGED client
          ELSE \E c \in found :
                 /\ \A d \in found : Block[c] <= Block[d]
                 /\ client' = [client EXCEPT ![c].data.chr = p.data.chr]

\* handle_bbopts: the client gets the rest and is moved on.
HandleBBOpts(s, p) ==
    LET found == {c \in Clients : /\ Home[c] = s /\ On(c)
                                  /\ Account[c] = p.gc /\ Block[c] = p.block}
    IN  IF found = {}
          THEN UNCHANGED client
          ELSE \E c \in found :
                 client' = [client EXCEPT ![c].data.bank = p.data.bank,
                                          ![c].data.opts = p.data.opts,
                                          ![c].state = "ready"]

ShipRead(s) ==
    /\ toShip[s] # <<>>
    /\ LET p == Head(toShip[s])
       IN  IF p.type = "CREQ" THEN HandleCharReply(s, p) ELSE HandleBBOpts(s, p)
    /\ toShip' = [toShip EXCEPT ![s] = Tail(@)]
    /\ UNCHANGED <<store, up, toGate, left, faults>>

-----------------------------------------------------------------------------
(* What the player does.                                                   *)

Plays(c) ==
    /\ client[c].state = "ready"
    /\ client[c].hold \in {"no", "solo"}
    /\ ~IsPacketEmpty(client[c].data.chr)

\* An item goes into the common bank, or comes out of it.
UseBank(c) ==
    /\ Plays(c)
    /\ \E i \in Items :
         \/ /\ i \in client[c].data.chr
            /\ client' = [client EXCEPT ![c].data.chr = @ \ {i},
                                        ![c].data.bank = @ \cup {i},
                                        ![c].dirty = TRUE]
         \/ /\ i \in client[c].data.bank
            /\ client' = [client EXCEPT ![c].data.chr = @ \cup {i},
                                        ![c].data.bank = @ \ {i},
                                        ![c].dirty = TRUE]
    /\ UNCHANGED <<store, up, toGate, toShip, left, faults>>

\* The client starts or ends a burst or a challenge, or enters or leaves a
\* game for one.
ChangeHold(c) ==
    /\ client[c].state = "ready"
    /\ \E h \in {"no", "burst", "solo", "challenge"} \ {client[c].hold} :
         client' = [client EXCEPT ![c].hold = h]
    /\ UNCHANGED <<store, up, toGate, toShip, left, faults>>

-----------------------------------------------------------------------------
(* The shipgate.                                                           *)

\* handle_char_data_save.
HandleCharSave(p) ==
    IF IsPacketEmpty(p.data.chr) THEN UNCHANGED store
    ELSE store' = [store EXCEPT ![p.gc].chr = p.data.chr]

\* handle_bbopts and db_update_char_bank_common, which leaves an empty bank.
HandleOptsSave(p) ==
    store' = [store EXCEPT ![p.gc].opts = p.data.opts,
                           ![p.gc].bank = IF p.data.bank = {} THEN @ ELSE p.data.bank]

\* Mutant: a request is read and nothing is sent back.
Answer_Forgotten(s, p) ==
    toShip' = IF p.type = "CREQ"
                THEN [toShip EXCEPT ![s] = Append(@, [p EXCEPT !.data = store[p.gc]])]
                ELSE toShip

\* handle_char_data_req and handle_bbopt_req: what is stored goes back.
Answer(s, p) ==
    toShip' = [toShip EXCEPT ![s] = Append(@, [p EXCEPT !.data = store[p.gc]])]

GateRead(s) ==
    /\ toGate[s] # <<>>
    /\ LET p == Head(toGate[s])
       IN  \/ /\ p.type = "CDATA"
              /\ HandleCharSave(p)
              /\ UNCHANGED toShip
           \/ /\ p.type = "BBOPTS"
              /\ HandleOptsSave(p)
              /\ UNCHANGED toShip
           \/ /\ p.type \in {"CREQ", "BBOPT_REQ"}
              /\ Len(toShip[s]) < MaxQueue
              /\ Answer(s, p)
              /\ UNCHANGED store
    /\ toGate' = [toGate EXCEPT ![s] = Tail(@)]
    /\ UNCHANGED <<client, up, left, faults>>

-----------------------------------------------------------------------------
(* What breaks.                                                            *)

\* The accounts that what happens on ship s can concern.
Involved(s) ==
    {a \in Accounts : \/ Of(toGate[s], a) # {} \/ Of(toShip[s], a) # {}
                      \/ \E c \in Clients : Home[c] = s /\ On(c) /\ Account[c] = a}

\* The link breaks, or the shipgate stops: what is on the way is lost.
LinkLost(s) ==
    /\ up[s] /\ faults < MaxFaults
    /\ faults' = faults + 1
    /\ up' = [up EXCEPT ![s] = FALSE]
    /\ toGate' = [toGate EXCEPT ![s] = <<>>]
    /\ toShip' = [toShip EXCEPT ![s] = <<>>]
    /\ left' = [a \in Accounts |-> IF a \in Involved(s) THEN {} ELSE left[a]]
    /\ client' = [c \in Clients |->
         IF Account[c] \in Involved(s) THEN [client[c] EXCEPT !.clean = FALSE]
         ELSE client[c]]
    /\ UNCHANGED store

Relink(s) ==
    /\ ~up[s]
    /\ up' = [up EXCEPT ![s] = TRUE]
    /\ UNCHANGED <<client, store, toGate, toShip, left, faults>>

\* The ship crashes: its clients are gone and nothing is saved.  What it sent
\* has been read by then or is lost.
Crash(s) ==
    /\ faults < MaxFaults
    /\ faults' = faults + 1
    /\ client' = [c \in Clients |->
         IF Home[c] = s THEN Off
         ELSE IF Account[c] \in Involved(s) THEN [client[c] EXCEPT !.clean = FALSE]
         ELSE client[c]]
    /\ left' = [a \in Accounts |-> IF a \in Involved(s) THEN {} ELSE left[a]]
    /\ up' = [up EXCEPT ![s] = FALSE]
    /\ toGate' = [toGate EXCEPT ![s] = <<>>]
    /\ toShip' = [toShip EXCEPT ![s] = <<>>]
    /\ UNCHANGED store

-----------------------------------------------------------------------------
Next ==
    \/ \E c \in Clients :
         \/ Login(c) \/ SaveRound(c) \/ Leave(c)
         \/ UseBank(c) \/ ChangeHold(c)
    \/ \E s \in Ships :
         ShipRead(s) \/ GateRead(s) \/ LinkLost(s) \/ Relink(s) \/ Crash(s)

Spec == Init /\ [][Next]_vars

\* The ship and the shipgate read what arrives.
FairSpec == Spec /\ \A s \in Ships : WF_vars(ShipRead(s)) /\ WF_vars(GateRead(s))

-----------------------------------------------------------------------------
TypeOK ==
    /\ client \in [Clients -> ClientRec]
    /\ store \in [Accounts -> Data]
    /\ up \in [Ships -> BOOLEAN]
    /\ toGate \in [Ships -> Seq(Packet)]
    /\ toShip \in [Ships -> Seq(Packet)]
    /\ left \in [Accounts -> SUBSET Data]
    /\ \A s \in Ships : ~up[s] => toGate[s] = <<>> /\ toShip[s] = <<>>
    /\ faults \in Nat

\* Whatever is lost or overtaken, a stored character is never overwritten by
\* the zeroes of a client that has not loaded its own.
CharacterKept == \A a \in Accounts : store[a].chr # Blank

\* was is what d is, as far as an empty bank is ever stored.
SameData(was, d) ==
    /\ d.chr = was.chr /\ d.opts = was.opts
    /\ was.bank # {} => d.bank = was.bank

\* What a client that left in order had is what is stored once its packets
\* have been read.
LeftIsStored ==
    \A a \in Accounts :
        Quiet(a) => \A was \in left[a] : SameData(was, store[a])

\* What a player finds is what it left, also when it comes back, on another
\* block of the ship, before it has been saved.
FoundAsLeft ==
    [][\A c \in Clients :
         /\ client[c].state = "waiting" /\ client'[c].state = "ready"
         /\ client[c].clean
         => \A was \in left[Account[c]] : SameData(was, client'[c].data)]_vars

\* The same of the bank, however few items it has: what is stored is what the
\* client had.
BankIsStored ==
    \A a \in Accounts :
        Quiet(a) => \A was \in left[a] : store[a].bank = was.bank

\* A client that logs in in order is moved on, unless it leaves or the link is
\* lost.
MovesOn ==
    \A c \in Clients :
        client[c].state = "waiting" /\ client[c].clean
          ~> client[c].state # "waiting" \/ ~client[c].clean
=============================================================================
