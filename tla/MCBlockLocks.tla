---------------------------- MODULE MCBlockLocks ----------------------------
(* Two blocks and the ship's own thread, with a client on either block. *)
EXTENDS BlockLocks, TLC

CONSTANTS c1, c2

Symmetry == Permutations({c1, c2})
=============================================================================
