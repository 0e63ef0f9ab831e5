----------------------------- MODULE MCGateLink -----------------------------
(* Instances of GateLink for TLC.                                          *)
EXTENDS GateLink

CONSTANTS s1, s2, c1, c2, card, menu

\* All clients play on one account, and all ships are in one menu.
MCShared == [c \in Clients |-> card]
MCMenu   == [s \in Ships |-> menu]

\* The second client comes to one block, and is gone when the last
\* connection is made, unless the second ship never had one; then the first
\* client comes to that block only.  While both are there it is on no second
\* block, and never on that of the second ship.  A burst is overtaken on the
\* first ship.
Few ==
    /\ at[c2] \in {None, <<s1, 1>>}
    /\ at[c2] # None => \/ made < MaxConns
                       \/ \A k \in 1 .. made : conn[k].ship = s1
    /\ made = MaxConns => at[c1] \in {None, <<s1, 1>>}
    /\ at[c1] # None => at[c1][2] = 1 \/ (at[c1][1] = s1 /\ at[c2] = None)
    /\ overtaken[s2] = {}
=============================================================================
