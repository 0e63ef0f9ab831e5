------------------------------ MODULE Roster ------------------------------
(***************************************************************************)
(* What the lobbies of a block promise their players, whatever the packets *)
(* and menus: a player is in one place at a time, no place holds more than *)
(* it has room for, a game stays open for as long as someone is in it and  *)
(* is gone as soon as the last one leaves.                                 *)
(***************************************************************************)
EXTENDS Naturals, FiniteSets

CONSTANTS
    Players,
    Halls,      \* the places that are always open: the default lobbies
    Rooms,      \* the places players open: the games
    Nowhere,
    Capacity    \* place -> how many players it holds

VARIABLES
    at,         \* player -> the place it is in
    open        \* the rooms that are open

rvars == <<at, open>>

Inside(r) == {p \in Players : at[p] = r}

\* The rooms that are still open once p has left the place it is in.
OpenWithout(p) == {r \in open : Inside(r) # {p}}

RInit ==
    /\ at = [p \in Players |-> Nowhere]
    /\ open = {}

Enter(p, r) ==
    /\ at[p] # r
    /\ Cardinality(Inside(r)) < Capacity[r]
    /\ at' = [at EXCEPT ![p] = r]
    /\ open' = OpenWithout(p)

\* A player opens a room and is the first one in it.
Found(p, r) ==
    /\ r \notin open
    /\ at[p] # r
    /\ at' = [at EXCEPT ![p] = r]
    /\ open' = OpenWithout(p) \cup {r}

Leave(p) ==
    /\ at[p] # Nowhere
    /\ at' = [at EXCEPT ![p] = Nowhere]
    /\ open' = OpenWithout(p)

Open(r) ==
    /\ r \notin open
    /\ open' = open \cup {r}
    /\ UNCHANGED at

Close(r) ==
    /\ r \in open
    /\ Inside(r) = {}
    /\ open' = open \ {r}
    /\ UNCHANGED at

\* The steps that leave no room open with nobody in it.
Step ==
    \/ \E p \in Players :
         \/ \E r \in Halls \cup open : Enter(p, r)
         \/ \E r \in Rooms : Found(p, r)
         \/ Leave(p)
    \/ \E r \in Rooms : Close(r)

RNext == Step \/ \E r \in Rooms : Open(r)

RSpec == RInit /\ [][RNext]_rvars
=============================================================================
