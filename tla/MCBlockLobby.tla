--------------------------- MODULE MCBlockLobby ---------------------------
(* Instances of BlockLobby for TLC.                                        *)
EXTENDS BlockLobby, TLC

CONSTANTS
    OnV2,   \* the clients that play the DC or PC game
    OnGC    \* the clients that play the GC game; the others play BB

MCVersion == [c \in Clients |-> IF c \in OnV2 THEN "v2"
                                ELSE IF c \in OnGC THEN "gc" ELSE "bb"]

\* Clients with the same game are interchangeable, and so are default lobbies.
Symmetry == {p @@ q : p \in {p \in Permutations(Clients) :
                               \A c \in Clients : MCVersion[p[c]] = MCVersion[c]},
                      q \in Permutations(DefaultLobbies)}

\* Time matters to the elections alone, which quests, bursts and the packet
\* queue do not touch: packets are queued in the first second, quests and
\* bursts go on in the first two, the third is followed only without them.
QuietLater ==
    /\ now > 0 => \A l \in LobbyIds : lobby[l].queue = <<>>
    /\ now > 1 => \A l \in LobbyIds :
         ~lobby[l].questing /\ ~lobby[l].questsel /\ ~lobby[l].bursting

\* A default lobby is to a game what any other is: with two, changes between
\* them are followed in the first second, while no game is listed.
OneLobbyLater ==
    (now > 0 \/ numGames > 0) =>
        Cardinality({d \in DefaultLobbies : lobby[d].num > 0}) <= 1
=============================================================================
