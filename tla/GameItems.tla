------------------------------ MODULE GameItems ------------------------------
(***************************************************************************)
(* The items of one Blue Burst game: the inventories and banks of the      *)
(* players, what lies on the floor, and the numbers the server gives to    *)
(* items (handle_player_items.c, sub_60.c, sub_62.c, block_bb.c).          *)
(*                                                                         *)
(* The handlers of one game run one after the other (the block has one     *)
(* thread, and subcmd_handle_60/62 hold the lobby's mutex), so each is one *)
(* action.  Who may enter the game is the subject of BlockLobby; here a    *)
(* player enters and leaves when it likes.                                 *)
(*                                                                         *)
(* item_id is a pair <<owner, number>>: 0x10000 | slot << 21 | number for  *)
(* what a player was given, 0x810000 + number for what the game dropped.   *)
(***************************************************************************)
EXTENDS Integers, Sequences, FiniteSets, SequencesExt, FiniteSetsExt

CONSTANTS
    Clients,
    None,
    Kinds,          \* the items there are, Meseta among them
    Meseta,
    Stack,          \* kind -> max_stack_size: 999999 meseta, 99 or 1 tools
    Price,          \* kind -> what a shop pays for one
    Unsold,         \* the kinds price_for_item has no price for
    MaxClients,     \* max_clients of a game (4)
    MaxInv,         \* MAX_PLAYER_INV_ITEMS (30)
    MaxBank,        \* MAX_PLAYER_BANK_ITEMS (200)
    Loaded,         \* the inventories the characters may come with
    MaxNumber,      \* bound on the numbers given out
    MaxItems,       \* bound on how much there is, of all kinds together,
    MaxDoubled      \* ... and on how much with what a split may double

Seats    == 0 .. (MaxClients - 1)
TheGame  == MaxClients          \* the owner of the numbers of item_lobby_id
MesetaId == <<-1, 0>>           \* ITEM_ID_MESETA
NoId     == <<-2, 0>>           \* 0, the id of part of a stack
Wrapped  == 65535               \* 0x10000 | (0x10000 - 1), low half
Ids      == {NoId, MesetaId} \cup ((0 .. MaxClients) \X Int)

ASSUME ItemsAssumption ==
    /\ None \notin Clients \cup Seats
    /\ None \notin [id : Ids, kind : Kinds, n : Nat]
    /\ IsFiniteSet(Clients)
    /\ Meseta \in Kinds
    /\ Stack \in [Kinds -> Nat \ {0}] /\ Price \in [Kinds -> Nat]
    /\ Unsold \subseteq Kinds
    /\ MaxClients \in Nat \ {0}
    /\ MaxInv \in Nat /\ MaxBank \in Nat
    /\ MaxNumber \in Nat /\ MaxItems \in Nat /\ MaxDoubled \in Nat

VARIABLES
    seat,       \* client -> its client_id in the game, or None
    inv,        \* client -> its inventory and the meseta it carries
    bank,       \* client -> its bank
    floor,      \* item_queue: what lies on the floor, the newest first
    playerNum,  \* seat -> item_player_id
    gameNum,    \* item_lobby_id
    owes,       \* client -> the split whose 0x29 it has yet to send, or None
    due,        \* history: how much there should be of each kind
    careful     \* fixed: clients do not take what they have no room for

vars == <<seat, inv, bank, floor, playerNum, gameNum, owes, due, careful>>

-----------------------------------------------------------------------------
(* Items and the places that hold them.                                    *)

Item == [id : Ids, kind : Kinds, n : Nat]

\* inventory_t with disp.meseta, and psocn_bank_t.
Store == [items : Seq(Item), meseta : Nat]

Smallest(S) == CHOOSE x \in S : \A y \in S : x <= y
Least(a, b) == IF a <= b THEN a ELSE b

\* find_iitem_index and the search of remove_litem_locked: the first item
\* with that id.
Has(s, id)   == \E i \in DOMAIN s : s[i].id = id
Index(s, id) == Smallest({i \in DOMAIN s : s[i].id = id})
KindIn(s, k) == {i \in DOMAIN s : s[i].kind = k}

\* remove_invitem finds what it is asked for.
Holds(st, id, n) ==
    IF id = MesetaId THEN n <= st.meseta ELSE Has(st.items, id)

\* The stores keep the form the searches rely on: no more items than there
\* is room for, no more on a stack than fit, and one stack of each kind.
StoreOK(st, max) ==
    /\ st.meseta \in 0 .. Stack[Meseta]
    /\ Len(st.items) <= max
    /\ \A i \in DOMAIN st.items :
         LET it == st.items[i]
         IN  /\ it \in Item /\ it.kind # Meseta /\ it.n \in 1 .. Stack[it.kind]
             /\ Stack[it.kind] > 1 => KindIn(st.items, it.kind) = {i}

\* What the characters come with was once kept by this code.
ASSUME LoadedAssumption ==
    \A loaded \in Loaded :
      /\ loaded \in [Clients -> Store]
      /\ \A c \in Clients : StoreOK(loaded[c], MaxInv)

\* The request is for a part of the stack.
IsPart(it, n) == n > 0 /\ Stack[it.kind] > 1 /\ n < it.n

\* remove_invitem: the item_t it returns, and what it leaves.
Taken(st, id, n) ==
    IF id = MesetaId
      THEN [id |-> NoId, kind |-> Meseta, n |-> n]
      ELSE LET it == st.items[Index(st.items, id)]
           IN  IF IsPart(it, n) THEN [it EXCEPT !.id = NoId, !.n = n] ELSE it

Shrunk(s, i, n) ==
    IF IsPart(s[i], n) THEN [s EXCEPT ![i].n = @ - n] ELSE RemoveAt(s, i)

Without(st, id, n) ==
    IF id = MesetaId
      THEN [st EXCEPT !.meseta = @ - n]
      ELSE [st EXCEPT !.items = Shrunk(@, Index(@, id), n)]

Merges(st, it) == Stack[it.kind] > 1 /\ KindIn(st.items, it.kind) # {}

\* add_invitem and add_bitem succeed: meseta and stacks always do.
Accepts(st, it, max) ==
    it.kind = Meseta \/ Merges(st, it) \/ Len(st.items) < max

\* Mutant: items are never stacked.
With_NoMerge(st, it) ==
    IF it.kind = Meseta
      THEN [st EXCEPT !.meseta = Least(@ + it.n, Stack[Meseta])]
      ELSE [st EXCEPT !.items = Append(@, it)]

\* ... and what they leave.  What does not fit on a stack is gone.
With(st, it) ==
    CASE it.kind = Meseta ->
           [st EXCEPT !.meseta = Least(@ + it.n, Stack[Meseta])]
      [] it.kind # Meseta /\ Merges(st, it) ->
           [st EXCEPT !.items[Smallest(KindIn(st.items, it.kind))].n =
              Least(@ + it.n, Stack[it.kind])]
      [] OTHER -> [st EXCEPT !.items = Append(@, it)]

\* There is room for all of it.
Fits(st, it, max) ==
    /\ Accepts(st, it, max)
    /\ it.kind = Meseta => st.meseta + it.n <= Stack[Meseta]
    /\ Merges(st, it) =>
         st.items[Smallest(KindIn(st.items, it.kind))].n + it.n
           <= Stack[it.kind]

\* The sum of the natural numbers f[x]: the number of units there are.
Units(f) == UNION {{x} \X (1 .. f[x]) : x \in DOMAIN f}
SumOf(f) == Cardinality(Units(f))

\* How much of kind k there is in a sequence of items, in a store, and with a
\* client.
Amount(s, k) == SumOf([i \in DOMAIN s |-> IF s[i].kind = k THEN s[i].n ELSE 0])

InStore(st, k) == Amount(st.items, k) + IF k = Meseta THEN st.meseta ELSE 0

WithClient(c, k) == InStore(inv[c], k) + InStore(bank[c], k)

\* How much of it the server knows of.
Total(k) == Amount(floor, k) + SumOf([c \in Clients |-> WithClient(c, k)])

\* What the splits under way have put on the floor without yet taking it
\* from the player.
OwedBy(c, k) ==
    IF owes[c] # None /\ owes[c].kind = k THEN owes[c].n ELSE 0

Owed(k) == SumOf([c \in Clients |-> OwedBy(c, k)])

\* A store after n more meseta, or less.
Funded(st, n) == [st EXCEPT !.meseta = @ + n]

\* What is due after n more, or less, of kind k.
Booked(d, k, n) == [d EXCEPT ![k] = @ + n]

\* The bounds: what splits double matters where nothing else may be lost.
Doubled == IF careful THEN MaxDoubled ELSE MaxItems

\* The bound on what comes into being, with room for the splits that may
\* never be paid for.
Grows(n, max) ==
    MapThenSumSet(LAMBDA k : due[k], Kinds)
    + MapThenSumSet(LAMBDA c : IF owes[c] = None THEN 0 ELSE owes[c].n, Clients)
    + n <= max

Inside == {c \in Clients : seat[c] # None}

Init ==
    /\ seat = [c \in Clients |-> None]
    /\ inv \in Loaded
    /\ bank = [c \in Clients |-> [items |-> <<>>, meseta |-> 0]]
    /\ floor = <<>>
    /\ playerNum = [s \in Seats |-> 0]
    /\ gameNum = 0
    /\ owes = [c \in Clients |-> None]
    /\ due = [k \in Kinds |-> Total(k)]
    /\ careful \in BOOLEAN

-----------------------------------------------------------------------------
(* Entering and leaving the game.                                          *)

\* regenerate_lobby_item_id: c's items are numbered from the last number
\* given in its seat, which becomes that of its last item; with no items it
\* goes down by one, and from 0 into the next 65536.
Renumber(st, s, first) ==
    [st EXCEPT !.items =
       [i \in DOMAIN @ |-> [@[i] EXCEPT !.id = <<s, first + i - 1>>]]]

\* The slot of a new member of a Blue Burst game is the smallest empty one.
Join(c) ==
    /\ seat[c] = None
    /\ \E s \in Seats :
         /\ \A d \in Clients : seat[d] # s
         /\ \A r \in Seats : r < s => \E d \in Clients : seat[d] = r
         /\ playerNum[s] < MaxNumber
         /\ LET first == IF playerNum[s] < 0 THEN Wrapped ELSE playerNum[s]
            IN  /\ inv' = [inv EXCEPT ![c] = Renumber(@, s, first)]
                /\ playerNum' = [playerNum EXCEPT
                                   ![s] = first + Len(inv[c].items) - 1]
         /\ seat' = [seat EXCEPT ![c] = s]
    /\ UNCHANGED <<bank, floor, gameNum, owes, due, careful>>

\* c is out of the game, with what fl leaves on the floor, du due and the
\* numbers pn given; when nobody is left the game and its floor are gone, and
\* the next game starts its numbers anew.
Out(c, fl, du, pn) ==
    /\ seat' = [seat EXCEPT ![c] = None]
    /\ owes' = [owes EXCEPT ![c] = None]
    /\ IF Inside = {c}
         THEN /\ floor' = <<>>
              /\ playerNum' = [s \in Seats |-> 0]
              /\ gameNum' = 0
              /\ due' = [k \in Kinds |-> du[k] - Amount(fl, k)]
         ELSE /\ floor' = fl
              /\ due' = du
              /\ playerNum' = pn
              /\ UNCHANGED gameNum

\* c leaves, is dropped, or sent a packet whose handler returned an error.
\* In the middle of a split nobody takes the part from it any more: it is
\* there twice from then on.
Leave(c) ==
    /\ seat[c] # None
    /\ Out(c, floor, [k \in Kinds |-> due[k] + OwedBy(c, k)], playerNum)
    /\ UNCHANGED <<inv, bank, careful>>

-----------------------------------------------------------------------------
(* The floor.                                                              *)

\* c is in the game and not in the middle of a split.
Ready(c) == seat[c] # None /\ owes[c] = None

\* What c can name in a packet about its inventory.
Own(c) == {inv[c].items[i].id : i \in DOMAIN inv[c].items}

Whole(c, id) == inv[c].items[Index(inv[c].items, id)].n

\* The amounts it can ask for.
Asks(c, id) ==
    IF id = MesetaId
      THEN 1 .. inv[c].meseta
      ELSE 1 .. Whole(c, id) + IF careful THEN 0 ELSE 1

\* A box or an enemy drops an item (item requests, /item and the drop
\* functions): it gets the number item_lobby_id and the counter goes up.
GameDrop(k, n) ==
    /\ Inside # {}
    /\ gameNum < MaxNumber
    /\ n <= Stack[k]
    /\ floor' = Cons([id |-> <<TheGame, gameNum>>, kind |-> k, n |-> n], floor)
    /\ gameNum' = gameNum + 1
    /\ due' = Booked(due, k, n)
    /\ UNCHANGED <<seat, inv, bank, playerNum, owes, careful>>

\* Mutant: the item is not taken off the floor.
Pickup_LeavesIt(c, id) ==
    /\ Ready(c)
    /\ Has(floor, id)
    /\ LET it == floor[Index(floor, id)]
       IN  /\ careful => Fits(inv[c], it, MaxInv)
           /\ Accepts(inv[c], it, MaxInv)
           /\ inv' = [inv EXCEPT ![c] = With(@, it)]
    /\ UNCHANGED <<seat, bank, floor, playerNum, gameNum, owes, due, careful>>

\* sub62_5A_bb: the first on the floor with that id.  Without room for it
\* it is gone, and so is c.
Pickup(c, id) ==
    /\ Ready(c)
    /\ Has(floor, id)
    /\ LET it   == floor[Index(floor, id)]
           rest == RemoveAt(floor, Index(floor, id))
       IN  /\ careful => Fits(inv[c], it, MaxInv)
           /\ \/ /\ Accepts(inv[c], it, MaxInv)
                 /\ inv' = [inv EXCEPT ![c] = With(@, it)]
                 /\ floor' = rest
                 /\ UNCHANGED <<seat, playerNum, gameNum, owes, due>>
              \/ /\ ~Accepts(inv[c], it, MaxInv)
                 /\ Out(c, rest, due, playerNum)
                 /\ UNCHANGED inv
    /\ UNCHANGED <<bank, careful>>

\* sub60_2A_bb: c drops an item, and it keeps its id; part of a stack, which
\* clients drop with 0xC3, would get the id 0.
DropItem(c, id, n) ==
    /\ Ready(c)
    /\ id # MesetaId
    /\ careful => n = Whole(c, id)
    /\ inv' = [inv EXCEPT ![c] = Without(@, id, n)]
    /\ floor' = Cons(Taken(inv[c], id, n), floor)
    /\ UNCHANGED <<seat, bank, playerNum, gameNum, owes, due, careful>>

\* sub60_C3_bb: c drops part of a stack.  It is on the floor and, until
\* c's 0x29 comes, back in the inventory.  Nothing makes it a part: all of
\* an item comes back under the new id, and c's 0x29 will not find the old.
SplitDrop(c, id, n) ==
    LET it   == [Taken(inv[c], id, n) EXCEPT !.id = <<TheGame, gameNum + 1>>]
        left == Without(inv[c], id, n)
    IN  /\ Ready(c)
        /\ gameNum < MaxNumber
        /\ Grows(it.n, Doubled)
        /\ careful /\ id # MesetaId => n < Whole(c, id)
        /\ inv' = [inv EXCEPT ![c] = With(left, it)]
        /\ floor' = Cons(it, floor)
        /\ gameNum' = gameNum + 1
        /\ owes' = [owes EXCEPT ![c] = [id |-> id, kind |-> it.kind, n |-> it.n]]
        /\ UNCHANGED <<seat, bank, playerNum, due, careful>>

\* sub60_29_bb, for the split c just made.  Where all of an item was split
\* its old id may by now be that of another one, given to c: that one is
\* used up, and what was split is there twice.
PaySplit(c) ==
    /\ seat[c] # None
    /\ owes[c] # None
    /\ Holds(inv[c], owes[c].id, owes[c].n)
    /\ inv' = [inv EXCEPT ![c] = Without(@, owes[c].id, owes[c].n)]
    /\ owes' = [owes EXCEPT ![c] = None]
    /\ LET it == Taken(inv[c], owes[c].id, owes[c].n)
       IN  due' = IF careful
                    THEN due
                    ELSE Booked(Booked(due, owes[c].kind, owes[c].n), it.kind, -it.n)
    /\ UNCHANGED <<seat, bank, floor, playerNum, gameNum, careful>>

\* sub60_29_bb, for an item used up.
DestroyItem(c, id, n) ==
    /\ Ready(c)
    /\ inv' = [inv EXCEPT ![c] = Without(@, id, n)]
    /\ LET it == Taken(inv[c], id, n)
       IN  due' = Booked(due, it.kind, -it.n)
    /\ UNCHANGED <<seat, bank, floor, playerNum, gameNum, owes, careful>>

\* sub60_63_bb: an item on the floor is destroyed.
DestroyGround(c, id) ==
    /\ seat[c] # None
    /\ Has(floor, id)
    /\ LET i == Index(floor, id)
       IN  /\ floor' = RemoveAt(floor, i)
           /\ due' = Booked(due, floor[i].kind, -floor[i].n)
    /\ UNCHANGED <<seat, inv, bank, playerNum, gameNum, owes, careful>>

-----------------------------------------------------------------------------
(* Bank, shop, quest exchanges and trade.                                  *)

\* sub62_BD_bb, deposit.  The ids of the bank are given when it is opened and
\* its order by sort_client_bank; items are taken from it by their place,
\* which is any, so neither is kept here.
Deposit(c, id, n) ==
    LET it == [Taken(inv[c], id, n) EXCEPT !.id = NoId]
    IN  /\ Ready(c)
        /\ id # MesetaId
        /\ careful => Fits(bank[c], it, MaxBank)
        /\ inv' = [inv EXCEPT ![c] = Without(@, id, n)]
        /\ \/ /\ Accepts(bank[c], it, MaxBank)
              /\ bank' = [bank EXCEPT ![c] = With(@, it)]
              /\ UNCHANGED <<seat, floor, playerNum, gameNum, owes, due>>
           \/ /\ ~Accepts(bank[c], it, MaxBank)
              /\ Out(c, floor, due, playerNum)
              /\ UNCHANGED bank
        /\ UNCHANGED careful

\* sub62_BD_bb, take: the item gets the next number of c's seat.
Take(c, i, n) ==
    LET whole == bank[c].items[i]
        it    == [whole EXCEPT !.id = <<seat[c], playerNum[seat[c]] + 1>>,
                               !.n  = IF IsPart(whole, n) THEN n ELSE @]
        pn    == [playerNum EXCEPT ![seat[c]] = @ + 1]
    IN  /\ Ready(c)
        /\ playerNum[seat[c]] < MaxNumber
        /\ careful => Fits(inv[c], it, MaxInv)
        /\ bank' = [bank EXCEPT ![c].items = Shrunk(@, i, n)]
        /\ \/ /\ Accepts(inv[c], it, MaxInv)
              /\ inv' = [inv EXCEPT ![c] = With(@, it)]
              /\ playerNum' = pn
              /\ UNCHANGED <<seat, floor, gameNum, owes, due>>
           \/ /\ ~Accepts(inv[c], it, MaxInv)
              /\ Out(c, floor, due, pn)
              /\ UNCHANGED inv
        /\ UNCHANGED careful

\* sub62_BD_bb for meseta, which checks both sides before it moves any.
DepositMeseta(c, n) ==
    /\ Ready(c)
    /\ n <= inv[c].meseta
    /\ n + bank[c].meseta <= Stack[Meseta]
    /\ inv' = [inv EXCEPT ![c] = Funded(@, -n)]
    /\ bank' = [bank EXCEPT ![c] = Funded(@, n)]
    /\ UNCHANGED <<seat, floor, playerNum, gameNum, owes, due, careful>>

TakeMeseta(c, n) ==
    /\ Ready(c)
    /\ n <= bank[c].meseta
    /\ n + inv[c].meseta <= Stack[Meseta]
    /\ bank' = [bank EXCEPT ![c] = Funded(@, -n)]
    /\ inv' = [inv EXCEPT ![c] = Funded(@, n)]
    /\ UNCHANGED <<seat, floor, playerNum, gameNum, owes, due, careful>>

\* sub60_C0_bb: c sells n of an item.  The price is for the n it names; what
\* has no price is gone all the same, and so is c.
Sell(c, id, n) ==
    LET it   == Taken(inv[c], id, n)
        left == Without(inv[c], id, n)
        gain == Least(Price[it.kind] * n, Stack[Meseta] - left.meseta)
    IN  /\ Ready(c)
        /\ id # MesetaId
        /\ careful => it.kind \notin Unsold
        /\ \/ /\ it.kind \notin Unsold
              /\ inv' = [inv EXCEPT ![c] = Funded(left, gain)]
              /\ due' = Booked(Booked(due, it.kind, -it.n), Meseta, gain)
              /\ UNCHANGED <<seat, floor, playerNum, gameNum, owes>>
           \/ /\ it.kind \in Unsold
              /\ inv' = [inv EXCEPT ![c] = left]
              /\ Out(c, floor, due, playerNum)
        /\ UNCHANGED <<bank, careful>>

\* sub62_B7_bb: c buys n of kind k for cost.  The client names the id, the
\* next of its seat, and the server does not count it; c pays only for what
\* it got.
Buy(c, k, n, cost) ==
    LET it == [id |-> <<seat[c], playerNum[seat[c]] + 1>>, kind |-> k, n |-> n]
    IN  /\ Ready(c)
        /\ n <= Stack[k]
        /\ cost <= inv[c].meseta
        /\ careful => Fits(inv[c], it, MaxInv)
        /\ \/ /\ Accepts(inv[c], it, MaxInv)
              /\ inv' = [inv EXCEPT ![c] = Funded(With(@, it), -cost)]
              /\ due' = Booked(Booked(due, k, n), Meseta, -cost)
              /\ UNCHANGED <<seat, floor, playerNum, gameNum, owes>>
           \/ /\ ~Accepts(inv[c], it, MaxInv)
              /\ Out(c, floor, due, playerNum)
              /\ UNCHANGED inv
        /\ UNCHANGED <<bank, careful>>

\* An exchange of a quest: n of an item for one k, with the next number of
\* c's seat.  What c gives is gone before there is room for what it gets.
Exchange(c, id, n, k) ==
    LET it   == Taken(inv[c], id, n)
        left == Without(inv[c], id, n)
        new  == [id |-> <<seat[c], playerNum[seat[c]] + 1>>, kind |-> k, n |-> 1]
        pn   == [playerNum EXCEPT ![seat[c]] = @ + 1]
    IN  /\ Ready(c)
        /\ id # MesetaId
        /\ playerNum[seat[c]] < MaxNumber
        /\ careful => Fits(left, new, MaxInv)
        /\ \/ /\ Accepts(left, new, MaxInv)
              /\ inv' = [inv EXCEPT ![c] = With(left, new)]
              /\ playerNum' = pn
              /\ due' = Booked(Booked(due, it.kind, -it.n), k, 1)
              /\ UNCHANGED <<seat, floor, gameNum, owes>>
           \/ /\ ~Accepts(left, new, MaxInv)
              /\ inv' = [inv EXCEPT ![c] = left]
              /\ Out(c, floor, due, pn)
        /\ UNCHANGED <<bank, careful>>

\* The hospital and the charge (sub60_C5_bb, sub60_C7_bb): nothing happens
\* when c has too little.
Pay(c, n) ==
    /\ Ready(c)
    /\ n <= inv[c].meseta
    /\ inv' = [inv EXCEPT ![c] = Funded(@, -n)]
    /\ due' = Booked(due, Meseta, -n)
    /\ UNCHANGED <<seat, bank, floor, playerNum, gameNum, owes, careful>>

\* Mutant: the item stays with the one that gives it.
Give_KeepsIt(c, d, id, n) ==
    LET s  == seat[d]
        it == [Taken(inv[c], id, n) EXCEPT !.id = <<s, playerNum[s] + 1>>]
    IN  /\ Ready(c)
        /\ c # d /\ seat[d] # None
        /\ id # MesetaId
        /\ playerNum[s] < MaxNumber
        /\ Fits(inv[d], it, MaxInv)
        /\ inv' = [inv EXCEPT ![d] = With(@, it)]
        /\ playerNum' = [playerNum EXCEPT ![s] = @ + 1]
        /\ UNCHANGED <<seat, bank, floor, gameNum, owes, due, careful>>

\* bb_process_trade, for one of the packet's items: c's goes to d at once,
\* with the next number of d's seat.  n need not be what was offered: the
\* amount is worked out from the meseta of the trade.  Of meseta the amount
\* is always 0 (get_item_amount), so it stays where it is.
Give(c, d, id, n) ==
    LET s  == seat[d]
        it == [Taken(inv[c], id, n) EXCEPT !.id = <<s, playerNum[s] + 1>>]
    IN  /\ Ready(c)
        /\ c # d /\ seat[d] # None
        /\ id # MesetaId
        /\ playerNum[s] < MaxNumber
        /\ careful => Fits(inv[d], it, MaxInv)
        /\ \/ /\ Accepts(inv[d], it, MaxInv)
              /\ inv' = [inv EXCEPT ![c] = Without(@, id, n),
                                    ![d] = With(@, it)]
              /\ playerNum' = [playerNum EXCEPT ![s] = @ + 1]
              /\ UNCHANGED <<seat, floor, gameNum, owes, due>>
           \/ /\ ~Accepts(inv[d], it, MaxInv)
              /\ inv' = [inv EXCEPT ![c] = Without(@, id, n)]
              /\ seat' = [seat EXCEPT ![c] = None]
              /\ playerNum' = [playerNum EXCEPT ![s] = @ + 1]
              /\ UNCHANGED <<floor, gameNum, owes, due>>
        /\ UNCHANGED <<bank, careful>>

-----------------------------------------------------------------------------
\* The packets about an item of c's inventory, or about its meseta.
Uses(c) ==
    \E id \in Own(c) \cup {MesetaId} : \E n \in Asks(c, id) :
        \/ DropItem(c, id, n)
        \/ SplitDrop(c, id, n)
        \/ DestroyItem(c, id, n)
        \/ Deposit(c, id, n)
        \/ Sell(c, id, n)
        \/ \E k \in Kinds \ {Meseta} : Exchange(c, id, n, k)
        \/ \E d \in Clients : Give(c, d, id, n)

Next ==
    \/ /\ Grows(1, MaxItems)
       /\ \/ \E k \in Kinds : GameDrop(k, 1)
          \/ \E c \in Clients, k \in Kinds \ {Meseta} :
               \E cost \in 0 .. inv[c].meseta : Buy(c, k, 1, cost)
    \/ \E c \in Clients :
        \/ Join(c)
        \/ Leave(c)
        \/ PaySplit(c)
        \/ \E i \in DOMAIN floor : Pickup(c, floor[i].id)
        \/ \E i \in DOMAIN floor : DestroyGround(c, floor[i].id)
        \/ Uses(c)
        \/ \E i \in DOMAIN bank[c].items :
             \E n \in 1 .. bank[c].items[i].n : Take(c, i, n)
        \/ \E n \in 1 .. Stack[Meseta] :
             DepositMeseta(c, n) \/ TakeMeseta(c, n) \/ Pay(c, n)

Spec == Init /\ [][Next]_vars

-----------------------------------------------------------------------------
TypeOK ==
    /\ seat \in [Clients -> Seats \cup {None}]
    /\ inv \in [Clients -> Store] /\ bank \in [Clients -> Store]
    /\ \A c \in Clients : StoreOK(inv[c], MaxInv) /\ StoreOK(bank[c], MaxBank)
    /\ floor \in Seq(Item)
    /\ playerNum \in [Seats -> Int]
    /\ gameNum \in Nat
    /\ due \in [Kinds -> Int]
    /\ careful \in BOOLEAN

\* Items and meseta are only moved: what is on the floor, in the inventories
\* and in the banks adds up to what was dropped by the game, sold and used
\* up, whatever careful players do to the same items in whatever order and
\* whoever is lost; only the part a split moves counts twice, until the 0x29
\* that ends the split, or for good when its player is lost before that.
Conserved == careful => \A k \in Kinds : Total(k) = due[k] + Owed(k)

\* Nothing comes of nothing, even when clients take what they have no room
\* for: what a full inventory or a full stack refuses is lost, never doubled.
NothingFromNothing == \A k \in Kinds : Total(k) <= due[k] + Owed(k)

\* Two things on the floor have different ids, so that a pick-up takes the
\* one the player saw, if the clients are careful: they drop part of a stack
\* with 0xC3 only, so that the server gives it a number.
FloorIdsDiffer ==
    careful => \A i, j \in DOMAIN floor : floor[i].id = floor[j].id => i = j

=============================================================================
