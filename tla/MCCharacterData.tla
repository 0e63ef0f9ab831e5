-------------------------- MODULE MCCharacterData --------------------------
(* Instances of CharacterData for TLC: one account, whose two connections  *)
(* are on two blocks of one ship.                                          *)
EXTENDS CharacterData

CONSTANTS a1, s1, c1, c2, i1

MCAccount == [c \in Clients |-> a1]
MCHome    == [c \in Clients |-> s1]
MCBlock   == [c \in Clients |-> IF c = c2 THEN 2 ELSE 1]

\* No packet is on the way twice to the same block, and no more than two are
\* when it is no longer known what the account left.
FewPackets ==
    \A s \in Ships :
        /\ \A i, j \in 1 .. Len(toGate[s]) :
             toGate[s][i].type = toGate[s][j].type
             /\ toGate[s][i].block = toGate[s][j].block => i = j
        /\ Len(toGate[s]) + Len(toShip[s])
             <= IF \E a \in Accounts : left[a] = {} THEN 2 ELSE MaxQueue
=============================================================================
