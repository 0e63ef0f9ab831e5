------------------------------ MODULE GateLink ------------------------------
(***************************************************************************)
(* The links between the ships and the shipgate, and what the gate keeps   *)
(* about them in the database: the ships that are listed and the players   *)
(* that are online (ship.c, shipgate.c and clients.c of the ship; ship.c   *)
(* and shipgate_server.c of the gate).                                     *)
(*                                                                         *)
(* A ship logs in, is told of the other ships, tells who is on its blocks  *)
(* and then reports every arrival and departure.  What it has to say while *)
(* the link is down is dropped.  Links break, ships and the gate crash,    *)
(* and everybody connects again.                                           *)
(***************************************************************************)
EXTENDS Integers, Sequences, FiniteSets, SequencesExt

CONSTANTS
    Ships,          \* the key indices of the ships
    Clients,        \* game clients
    Account,        \* client -> its guild card
    BB,             \* the clients that play Blue Burst
    Menu,           \* ship -> menu code
    NumBlocks,      \* blocks of each ship
    None,
    MaxConns,       \* bound on the connections ever made
    MaxWaiting      \* clients act while no link holds more packets

Blocks == 1 .. NumBlocks
Conns  == 1 .. MaxConns
Cards  == {Account[c] : c \in Clients}
Codes  == {Menu[s] : s \in Ships}
Places == Ships \X Blocks

ASSUME LinkAssumption ==
    /\ None \notin Ships /\ None \notin Conns /\ None \notin Places
    /\ Ships # {} /\ IsFiniteSet(Ships) /\ IsFiniteSet(Clients)
    /\ DOMAIN Account = Clients /\ DOMAIN Menu = Ships
    /\ BB \subseteq Clients
    /\ NumBlocks \in Nat \ {0} /\ MaxConns \in Nat /\ MaxWaiting \in Nat

VARIABLES
    \* a ship
    sock,       \* ship -> sg.sock, its connection
    hasKey,     \* ship -> sg.has_key, the gate has accepted its login
    burst,      \* ship -> the block whose clients it sends next, or 0
    entries,    \* ship -> pkt->entries, the clients it is about to send, or {}
    overtaken,  \* history: ship -> the cards it sent after their logouts
    fleet,      \* ship -> ships, the ones it has been told of
    codes,      \* ship -> menu_codes
    at,         \* client -> the ship and block it is on
    named,      \* client -> its character is known, the gate was told
    flagged,    \* client -> CLIENT_FLAG_DISCONNECTED
    \* the gate
    ships,      \* its connections; they are numbered by age
    listed,     \* server_ships_online: the ships the login server offers
    online,     \* server_clients_online: guild card -> ship and block
    \* the network
    conn,       \* connection -> its two ends and what is in flight
    made,       \* how many connections there have been
    lost        \* a link has died without the gate hearing of it

burstVars  == <<entries, overtaken>>
shipVars   == <<sock, hasKey, burst, fleet, codes, burstVars>>
clientVars == <<at, named, flagged>>
gateVars   == <<ships, listed, online>>
netVars    == <<conn, made, lost>>
vars == <<shipVars, clientVars, gateVars, netVars>>

-----------------------------------------------------------------------------
(* What goes over a link.                                                  *)

Welcome       == [type |-> "welcome"]
Login         == [type |-> "login"]
Accepted      == [type |-> "accepted"]
Refused       == [type |-> "refused"]
Status(s, up) == [type |-> "status", ship |-> s, up |-> up]
Count(s)      == [type |-> "count", ship |-> s]
BlkLogin(g, b)  == [type |-> "blklogin", card |-> g, block |-> b]
BlkLogout(g)    == [type |-> "blklogout", card |-> g]
BClients(b, gs) == [type |-> "bclients", block |-> b, cards |-> gs]
BLoginErr(g, b) == [type |-> "bloginerr", card |-> g, block |-> b]

ToGate == {Login} \cup {Count(s) : s \in Ships}
          \cup {BlkLogin(g, b) : g \in Cards, b \in Blocks}
          \cup {BlkLogout(g) : g \in Cards}
          \cup {BClients(b, gs) : b \in Blocks, gs \in SUBSET Cards}
ToShip == {Welcome, Accepted, Refused} \cup {Count(s) : s \in Ships}
          \cup {Status(s, u) : s \in Ships, u \in BOOLEAN}
          \cup {BLoginErr(g, b) : g \in Cards, b \in Blocks}

\* ship: the peer's key_idx; known: ship_name is set; wire: what the gate
\* can tell of the other end ("closed": it will read the end of the stream,
\* "dead": it will hear nothing more).
Conn == [ship : Ships, known : BOOLEAN, wire : {"up", "closed", "dead"},
         up : Seq(ToGate), down : Seq(ToShip)]

Unused == [ship |-> CHOOSE s \in Ships : TRUE, known |-> FALSE,
           wire |-> "closed", up |-> <<>>, down |-> <<>>]

Linked(s)   == sock[s] \in ships
Quiet(s)    == /\ Linked(s) /\ hasKey[s] /\ burst[s] = 0
               /\ conn[sock[s]].wire = "up"
               /\ conn[sock[s]].up = <<>> /\ conn[sock[s]].down = <<>>

\* send_raw of the ship: without a key or a socket the packet is dropped,
\* and with a dead or closed one it is lost.
Sent(cn, s, msgs) ==
    IF Linked(s) /\ hasKey[s] /\ cn[sock[s]].wire = "up"
      THEN [cn EXCEPT ![sock[s]].up = @ \o msgs]
      ELSE cn

\* send_crypt of the gate to some connections; msgs says what.
Told(cn, to, msgs) ==
    [k \in Conns |-> IF cn[k].wire = "up" /\ k \in to
                       THEN [cn[k] EXCEPT !.down = @ \o msgs[k]]
                       ELSE cn[k]]

ToAll(m) == [k \in Conns |-> <<m>>]

-----------------------------------------------------------------------------
Init ==
    /\ sock    = [s \in Ships |-> None]
    /\ hasKey  = [s \in Ships |-> FALSE]
    /\ burst   = [s \in Ships |-> 0]
    /\ entries = [s \in Ships |-> {}]
    /\ overtaken = [s \in Ships |-> {}]
    /\ fleet   = [s \in Ships |-> {}]
    /\ codes   = [s \in Ships |-> {}]
    /\ at      = [c \in Clients |-> None]
    /\ named   = [c \in Clients |-> FALSE]
    /\ flagged = [c \in Clients |-> FALSE]
    /\ ships   = {}
    /\ listed  = {}
    /\ online  = [g \in Cards |-> None]
    /\ conn    = [k \in Conns |-> Unused]
    /\ made    = 0
    /\ lost    = FALSE

-----------------------------------------------------------------------------
(* The link of a ship.                                                     *)

\* The end of the socket in ship_thd, and the start of shipgate_conn that
\* follows at once: the ships are forgotten, the menu codes are not.
Hangup(s, cn) ==
    /\ sock'   = [sock EXCEPT ![s] = None]
    /\ hasKey' = [hasKey EXCEPT ![s] = FALSE]
    /\ burst'  = [burst EXCEPT ![s] = 0]
    /\ entries' = [entries EXCEPT ![s] = {}]
    /\ overtaken' = [overtaken EXCEPT ![s] = {}]
    /\ fleet'  = [fleet EXCEPT ![s] = {}]
    /\ conn'   = cn
    /\ UNCHANGED made

\* Of what was sent over a link that ends only the first n packets arrive.
Cut(k, w, n) == [conn EXCEPT ![k].wire = w, ![k].down = <<>>,
                             ![k].up = SubSeq(@, 1, n)]

Closed(k) == Cut(k, "closed", Len(conn[k].up))

\* shipgate_conn gets through to the gate, which accepts it with
\* create_connection_tls: at the end of a round in which run_server has
\* read what the others sent and swept the closed ones away.
Connect(s) ==
    /\ sock[s] = None
    /\ made < MaxConns
    /\ \A k \in ships : conn[k].wire = "up"
                       \/ (conn[k].wire = "dead" /\ conn[k].up = <<>>)
    /\ made'  = made + 1
    /\ ships' = ships \cup {made'}
    /\ conn'  = [conn EXCEPT ![made'] = [ship |-> s, known |-> FALSE,
                    wire |-> "up", up |-> <<>>, down |-> <<Welcome>>]]
    /\ sock'  = [sock EXCEPT ![s] = made']
    /\ UNCHANGED <<hasKey, burst, burstVars, fleet, codes, listed, online, clientVars, lost>>

\* handle_sstatus.
FleetAfter(fl, m) == IF m.up THEN fl \cup {m.ship} ELSE fl \ {m.ship}

\* Mutant: a ship that goes takes the menu of the others with it.
CodesAfter_Always(cs, fl, m) ==
    IF m.up THEN cs \cup {Menu[m.ship]} ELSE cs \ {Menu[m.ship]}

CodesAfter(cs, fl, m) ==
    IF m.up
      THEN cs \cup {Menu[m.ship]}
      ELSE IF m.ship \in fl /\ \A t \in fl \ {m.ship} : Menu[t] # Menu[m.ship]
             THEN cs \ {Menu[m.ship]}
             ELSE cs

\* handle_blogin_err: all clients of that account on that block.
Flagged(s, m) ==
    [c \in Clients |-> flagged[c] \/ (Account[c] = m.card
                                      /\ at[c] = <<s, m.block>>)]

Read(s) == [conn EXCEPT ![sock[s]].down = Tail(@)]

\* process_shipgate_pkt and handle_pkt of the ship, one packet.
ShipReads(s) ==
    /\ sock[s] # None /\ burst[s] = 0
    /\ conn[sock[s]].down # <<>>
    /\ LET m == Head(conn[sock[s]].down) IN
       \/ /\ m = Welcome /\ ~hasKey[s]          \* handle_login
          /\ conn' = IF Linked(s)
                       THEN [Read(s) EXCEPT ![sock[s]].up = Append(@, Login)]
                       ELSE Read(s)
          /\ UNCHANGED <<shipVars, clientVars, made>>
       \/ /\ m = Accepted                       \* handle_login_reply
          /\ hasKey' = [hasKey EXCEPT ![s] = TRUE]
          /\ burst'  = [burst EXCEPT ![s] = 1]
          /\ conn'   = Read(s)
          /\ UNCHANGED <<sock, burstVars, fleet, codes, clientVars, made>>
       \/ /\ \/ m = Refused
             \/ /\ m.type = "count" /\ hasKey[s]  \* handle_count fails
                /\ m.ship \notin fleet[s]
          /\ Hangup(s, Closed(sock[s]))
          /\ UNCHANGED <<codes, clientVars>>
       \/ /\ m.type = "status" /\ hasKey[s]
          /\ fleet' = [fleet EXCEPT ![s] = FleetAfter(@, m)]
          /\ codes' = [codes EXCEPT ![s] = CodesAfter(@, fleet[s], m)]
          /\ conn'  = Read(s)
          /\ UNCHANGED <<sock, hasKey, burst, burstVars, clientVars, made>>
       \/ /\ m.type = "bloginerr" /\ hasKey[s]
          /\ flagged' = Flagged(s, m)
          /\ conn'    = Read(s)
          /\ UNCHANGED <<shipVars, at, named, made>>
       \/ /\ \/ m.type = "count" /\ hasKey[s] /\ m.ship \in fleet[s]
             \/ ~hasKey[s] /\ m.type \in {"count", "status", "bloginerr"}
          /\ conn' = Read(s)
          /\ UNCHANGED <<shipVars, clientVars, made>>
    /\ UNCHANGED <<gateVars, lost>>

\* shipgate_send_clients: a packet for each block that has clients, and then
\* the next block.
On(s, b) == {c \in Clients : at[c] = <<s, b>> /\ named[c]}

NextBlock(s) == IF burst[s] < NumBlocks THEN burst[s] + 1 ELSE 0

\* Its entries are filled in with the block's lock held, and the mutex of one
\* client after the other.
ShipLists(s) ==
    /\ burst[s] # 0 /\ entries[s] = {}
    /\ entries' = [entries EXCEPT ![s] = {Account[c] : c \in On(s, burst[s])}]
    /\ burst'   = [burst EXCEPT ![s] = IF entries'[s] = {} THEN NextBlock(s) ELSE @]
    /\ UNCHANGED <<sock, hasKey, fleet, codes, overtaken, clientVars, gateVars, netVars>>

\* Mutant: the blocks are counted to one too many.
ShipBursts_OneTooMany(s) ==
    /\ burst[s] # 0 /\ entries[s] # {}
    /\ burst' = [burst EXCEPT ![s] = IF @ =< NumBlocks THEN @ + 1 ELSE 0]
    /\ entries' = [entries EXCEPT ![s] = {}]
    /\ UNCHANGED <<sock, hasKey, fleet, codes, overtaken, clientVars, gateVars, netVars>>

\* The lock is unlocked again when the packet is sent (shipgate.c:4320): who has
\* left the block since then has been logged out before it.
Left(s) == entries[s] \ {Account[c] : c \in On(s, burst[s])}

ShipBursts(s) ==
    /\ burst[s] # 0 /\ entries[s] # {}
    /\ burst'   = [burst EXCEPT ![s] = NextBlock(s)]
    /\ entries' = [entries EXCEPT ![s] = {}]
    /\ overtaken' = [overtaken EXCEPT ![s] = @ \cup Left(s)]
    /\ conn' = Sent(conn, s, <<BClients(burst[s], entries[s])>>)
    /\ UNCHANGED <<sock, hasKey, fleet, codes, clientVars, gateVars, made, lost>>

\* The gate is gone and the ship has read all that came.
ShipReadsEnd(s) ==
    /\ sock[s] # None /\ burst[s] = 0
    /\ ~Linked(s) /\ conn[sock[s]].down = <<>>
    /\ Hangup(s, Closed(sock[s]))
    /\ UNCHANGED <<codes, clientVars, gateVars, lost>>

\* Bound: a connection is kept back for every ship that will need one.
MayBreak == made + Cardinality({s \in Ships : ~Linked(s)}) < MaxConns

\* The connection of s is cut, by either end or on the way; the gate hears
\* of it at once, or not at all.
Break(s) ==
    \E w \in {"closed", "dead"}, n \in 0 .. Len(conn[sock[s]].up) :
        /\ Hangup(s, Cut(sock[s], w, n))
        /\ lost' = (lost \/ w = "dead")

LinkBreaks(s) ==
    /\ sock[s] # None /\ burst[s] = 0
    /\ MayBreak
    /\ Break(s)
    /\ UNCHANGED <<codes, clientVars, gateVars>>

\* The ship's process ends, and another is started.
ShipCrashes(s) ==
    /\ sock[s] # None
    /\ MayBreak
    /\ Break(s)
    /\ codes'   = [codes EXCEPT ![s] = {}]
    /\ at'      = [c \in Clients |-> IF at[c] # None /\ at[c][1] = s
                                       THEN None ELSE at[c]]
    /\ named'   = [c \in Clients |-> named[c] /\ at'[c] # None]
    /\ flagged' = [c \in Clients |-> flagged[c] /\ at'[c] # None]
    /\ UNCHANGED gateVars

-----------------------------------------------------------------------------
(* The clients of the ships' blocks.                                       *)

\* Bound: a client does nothing while a link is full.
Room == \A k \in Conns : Len(conn[k].up) + Len(conn[k].down) =< MaxWaiting

\* A client comes to a block, from the login server or from another block or
\* ship: ship_inc_clients.
Arrive(c, p) ==
    /\ at[c] = None /\ Room
    /\ at'   = [at EXCEPT ![c] = p]
    /\ conn' = Sent(conn, p[1], <<Count(p[1])>>)
    /\ UNCHANGED <<shipVars, named, flagged, gateVars, made, lost>>

\* process_char: the client is in its first lobby, the gate is told.
Announce(c) ==
    /\ at[c] # None /\ ~named[c] /\ Room
    /\ named' = [named EXCEPT ![c] = TRUE]
    /\ conn'  = Sent(conn, at[c][1], <<BlkLogin(Account[c], at[c][2])>>)
    /\ UNCHANGED <<shipVars, at, flagged, gateVars, made, lost>>

\* A logout heals what an earlier one of that card has left.
Healed(c) == [overtaken EXCEPT ![at[c][1]] =
                 IF named[c] \/ c \in BB THEN @ \ {Account[c]} ELSE @]

\* Mutant: only Blue Burst clients are logged out.
Leave_NoLogout(c) ==
    /\ at[c] # None /\ Room
    /\ at'      = [at EXCEPT ![c] = None]
    /\ named'   = [named EXCEPT ![c] = FALSE]
    /\ flagged' = [flagged EXCEPT ![c] = FALSE]
    /\ conn'    = Sent(conn, at[c][1],
                    (IF c \in BB THEN <<BlkLogout(Account[c])>> ELSE <<>>)
                    \o <<Count(at[c][1])>>)
    /\ overtaken' = Healed(c)
    /\ UNCHANGED <<sock, hasKey, burst, entries, fleet, codes, gateVars, made, lost>>

\* client_destroy_connection, with the block's lock held: a Blue Burst
\* client is logged out whether it was logged in or not.
Leave(c) ==
    /\ at[c] # None /\ Room
    /\ at'      = [at EXCEPT ![c] = None]
    /\ named'   = [named EXCEPT ![c] = FALSE]
    /\ flagged' = [flagged EXCEPT ![c] = FALSE]
    /\ conn'    = Sent(conn, at[c][1],
                    (IF named[c] \/ c \in BB THEN <<BlkLogout(Account[c])>>
                                             ELSE <<>>)
                    \o <<Count(at[c][1])>>)
    /\ overtaken' = Healed(c)
    /\ UNCHANGED <<sock, hasKey, burst, entries, fleet, codes, gateVars, made, lost>>

-----------------------------------------------------------------------------
(* The gate.  Connections are served in the order of its list, but a round *)
(* reads only from the ones that have something to read.                   *)

Owner(k) == conn[k].ship

\* Mutant: the clients of the ship stay in server_clients_online
\* (remove_ship_err does so).
Disconnect_KeepsClients(k, cn) ==
    /\ ships'  = ships \ {k}
    /\ listed' = listed \ {Owner(k)}
    /\ conn'   = [cn EXCEPT ![k].known = FALSE, ![k].up = <<>>]
    /\ UNCHANGED online

\* Mutant: the ship stays in server_ships_online.
Disconnect_StaysListed(k, cn) ==
    /\ ships' = ships \ {k}
    /\ conn'  = [cn EXCEPT ![k].known = FALSE, ![k].up = <<>>]
    /\ UNCHANGED <<listed, online>>

\* remove_ship, with what the removed connection still held forgotten: the
\* others are told, and everything under its key is deleted, also what
\* another connection of that ship has put there.
Disconnect(k, cn) ==
    /\ ships'  = ships \ {k}
    /\ listed' = listed \ {Owner(k)}
    /\ online' = [g \in Cards |->
                    IF online[g] # None /\ online[g][1] = Owner(k)
                      THEN None ELSE online[g]]
    /\ conn'   = [(IF cn[k].known
                     THEN Told(cn, ships \ {k}, ToAll(Status(Owner(k), FALSE)))
                     ELSE cn)
                  EXCEPT ![k] = [cn[k] EXCEPT !.known = FALSE, !.up = <<>>]]

\* handle_shipgate_login6t: the ship is listed, or is refused because it
\* already is.  Every connection is told of the ship, also the ones that
\* have not logged in; the ship is told of the others that have.
LoginFails(k, cn) ==
    /\ Owner(k) \in listed
    /\ Disconnect(k, [Told(cn, {k}, ToAll(Refused)) EXCEPT ![k].known = TRUE])

\* Mutant: a ship is told of itself alone.
Met_Alone(k) == <<k>>

\* Mutant: a ship is not told of itself.
Met_NotSelf(k) == SetToSeq({j \in ships : j # k /\ conn[j].known})

Met(k) == SetToSeq({j \in ships : j = k \/ conn[j].known})

LoginNews(k) ==
    [j \in Conns |->
       IF j # k
         THEN <<Status(Owner(k), TRUE)>>
         ELSE <<Accepted>>
              \o [i \in DOMAIN Met(k) |-> Status(Owner(Met(k)[i]), TRUE)]]

HandleLogin(k, cn) ==
    /\ Owner(k) \notin listed
    /\ listed' = listed \cup {Owner(k)}
    /\ conn'   = [Told(cn, ships, LoginNews(k)) EXCEPT ![k].known = TRUE]
    /\ UNCHANGED <<ships, online>>

\* handle_blocklogin: the row's key is the guild card.
HandleBlockLogin(k, m, cn) ==
    /\ IF online[m.card] = None
         THEN /\ online' = [online EXCEPT ![m.card] = <<Owner(k), m.block>>]
              /\ conn'   = cn
         ELSE /\ conn' = Told(cn, {k}, ToAll(BLoginErr(m.card, m.block)))
              /\ UNCHANGED online
    /\ UNCHANGED <<ships, listed>>

\* handle_blocklogout: the row goes whatever its block is.
HandleBlockLogout(k, m, cn) ==
    /\ online' = [online EXCEPT ![m.card] =
                    IF @ # None /\ @[1] = Owner(k) THEN None ELSE @]
    /\ conn'   = cn
    /\ UNCHANGED <<ships, listed>>

\* handle_clients: the rows of the block are replaced; a card that is online
\* elsewhere is passed over, and the ship does not hear of it.
HandleClients(k, m, cn) ==
    LET here == <<Owner(k), m.block>>
        kept == [g \in Cards |-> IF online[g] = here THEN None ELSE online[g]]
    IN  /\ online' = [g \in Cards |-> IF g \in m.cards /\ kept[g] = None
                                       THEN here ELSE kept[g]]
        /\ conn'   = cn
        /\ UNCHANGED <<ships, listed>>

\* handle_count: everybody is told, the sender too.
HandleCount(k, m, cn) ==
    /\ conn' = Told(cn, ships, ToAll(Count(Owner(k))))
    /\ UNCHANGED gateVars

\* handle_pkt and process_ship_pkt, one packet.
GateReads(k) ==
    /\ k \in ships /\ conn[k].up # <<>>
    /\ LET m  == Head(conn[k].up)
           cn == [conn EXCEPT ![k].up = Tail(@)]
       IN  \/ m = Login /\ (HandleLogin(k, cn) \/ LoginFails(k, cn))
           \/ m.type = "blklogin"  /\ HandleBlockLogin(k, m, cn)
           \/ m.type = "blklogout" /\ HandleBlockLogout(k, m, cn)
           \/ m.type = "bclients"  /\ HandleClients(k, m, cn)
           \/ m.type = "count"     /\ HandleCount(k, m, cn)
    /\ UNCHANGED <<shipVars, clientVars, made, lost>>

\* run_server destroys a connection whose stream has ended, or that has not
\* answered for two minutes.
GateSweeps(k) ==
    /\ k \in ships /\ conn[k].wire # "up" /\ conn[k].up = <<>>
    /\ Disconnect(k, conn)
    /\ UNCHANGED <<shipVars, clientVars, made, lost>>

\* The gate's process ends and another is started, which empties both tables
\* in db_initialize.
GateRestarts ==
    /\ ships # {}
    /\ made + Cardinality(Ships) =< MaxConns
    /\ ships'  = {}
    /\ listed' = {}
    /\ online' = [g \in Cards |-> None]
    /\ conn'   = [k \in Conns |-> [conn[k] EXCEPT !.known = FALSE, !.up = <<>>]]
    /\ UNCHANGED <<shipVars, clientVars, made, lost>>

-----------------------------------------------------------------------------
ShipStep(s) == \/ Connect(s) \/ ShipReads(s) \/ ShipLists(s) \/ ShipBursts(s)
               \/ ShipReadsEnd(s)

Next ==
    \/ \E s \in Ships : ShipStep(s) \/ LinkBreaks(s) \/ ShipCrashes(s)
    \/ \E c \in Clients : \/ \E p \in Places : Arrive(c, p)
                          \/ Announce(c)
                          \/ Leave(c)
    \/ \E k \in Conns : GateReads(k) \/ GateSweeps(k)
    \/ GateRestarts

Spec == Init /\ [][Next]_vars

\* ship_thd tries again each round until it is connected and reads what
\* select reports; run_server serves every connection in each round.
FairSpec ==
    /\ Spec
    /\ \A s \in Ships : /\ WF_vars(Connect(s)) /\ WF_vars(ShipReads(s))
                       /\ WF_vars(ShipLists(s)) /\ WF_vars(ShipBursts(s))
                       /\ WF_vars(ShipReadsEnd(s))
    /\ \A k \in Conns : WF_vars(GateReads(k)) /\ WF_vars(GateSweeps(k))

-----------------------------------------------------------------------------
(* Properties.                                                             *)

\* The variables have their types.
TypeOK ==
    /\ sock \in [Ships -> Conns \cup {None}]
    /\ hasKey \in [Ships -> BOOLEAN]
    /\ burst \in [Ships -> 0 .. NumBlocks]
    /\ entries \in [Ships -> SUBSET Cards]
    /\ overtaken \in [Ships -> SUBSET Cards]
    /\ fleet \in [Ships -> SUBSET Ships]
    /\ codes \in [Ships -> SUBSET Codes]
    /\ at \in [Clients -> Places \cup {None}]
    /\ named \in [Clients -> BOOLEAN]
    /\ flagged \in [Clients -> BOOLEAN]
    /\ ships \subseteq Conns
    /\ listed \subseteq Ships
    /\ online \in [Cards -> Places \cup {None}]
    /\ conn \in [Conns -> Conn]
    /\ made \in 0 .. MaxConns
    /\ lost \in BOOLEAN

\* What the gate keeps in the database under a ship's key goes when the
\* connection goes: a ship that is listed and a ship where somebody is
\* online are connected (remove_ship).
RowsBacked ==
    /\ \A s \in listed : \E k \in ships : Owner(k) = s
    /\ \A g \in Cards : online[g] # None =>
          \E k \in ships : Owner(k) = online[g][1]

\* The gate has swept the earlier connections of s.
Alone(s) == \A k \in ships : Owner(k) = s => k = sock[s]

\* Once a ship and the gate have heard each other out and the ship's earlier
\* connections are swept, whoever is recorded as online at the ship is
\* there, on that block and with a character: a row that stays behind locks
\* the player out of every other ship (handle_blocklogin).  The one way to
\* such a row is a packet of shipgate_send_clients that a logout has overtaken,
\* and the next logout of that card from the ship ends it.
NoGhosts ==
    \A g \in Cards :
        online[g] # None /\ Quiet(online[g][1]) /\ Alone(online[g][1]) =>
        \/ \E c \in Clients : Account[c] = g /\ at[c] = online[g] /\ named[c]
        \/ g \in overtaken[online[g][1]]

\* As long as the gate hears of every link that ends, a ship that has heard
\* the gate out knows of the ships that are listed, no more and no fewer
\* (handle_shipgate_login6t, remove_ship and handle_sstatus).
FleetsAgree ==
    ~lost /\ (\A k \in ships : Quiet(Owner(k))) =>
        \A s \in Ships : hasKey[s] /\ Linked(s) => fleet[s] = listed

\* A ship the players of ship s can be sent to is in a menu of its own
\* (handle_sstatus).
MenuReaches ==
    \A s \in Ships : {Menu[t] : t \in fleet[s]} \subseteq codes[s]

\* The player counts that a ship is told are of a ship it knows
\* (handle_count).
CountKnowsShip ==
    \A s \in Ships :
        sock[s] # None /\ hasKey[s] /\ conn[sock[s]].down # <<>> =>
            LET m == Head(conn[sock[s]].down) IN
            m.type = "count" => m.ship \in fleet[s]

\* That much is so as long as the gate hears of every link that ends.
CountHeardInOrder == ~lost => CountKnowsShip

\* When the faults are over every ship is listed and stays so, if the gate
\* has heard of every link that ended (ship_thd reconnects, run_server has
\* then forgotten the old connection).
Rejoins ==
    <>lost \/ \A s \in Ships : <>[](s \in listed /\ hasKey[s])
=============================================================================
