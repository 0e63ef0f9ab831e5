---------------------------- MODULE MCGameItems ----------------------------
(* Instances of GameItems for TLC: a saber that does not stack, a          *)
(* mate that does, and meseta.                                             *)
EXTENDS GameItems

CONSTANTS saber, mate

MCStack  == saber :> 1 @@ mate :> 2 @@ Meseta :> 1
MCPrice  == saber :> 1 @@ mate :> 1 @@ Meseta :> 0

MCUnsold == {saber}

Thing(k, n) == [id |-> NoId, kind |-> k, n |-> n]

\* One character has a stack, the others nothing.
MCLoaded ==
    { [c \in Clients |-> IF c = rich
                           THEN [items |-> <<Thing(mate, 2)>>, meseta |-> 0]
                           ELSE [items |-> <<>>, meseta |-> 0]]
      : rich \in Clients }

\* The ids of a player outside the game are never read: Join replaces them.
View == <<seat, [c \in Clients |->
                   IF seat[c] = None
                     THEN [inv[c] EXCEPT !.items =
                             [i \in DOMAIN @ |-> [@[i] EXCEPT !.id = NoId]]]
                     ELSE inv[c]],
          bank, floor, playerNum, gameNum, owes, due, careful>>

\* A counter that has run into the bits above 65535 is not followed further.
Bounded == \A s \in Seats : playerNum[s] <= MaxNumber

Symmetry == Permutations(Clients)
=============================================================================
