---------------------------- MODULE MCDhtServer ----------------------------
(* An instance of DhtServer for TLC. *)
EXTENDS DhtServer, TLC

CONSTANTS a1, a2, h1, h2

MCSymmetry == Permutations({a1, a2}) \cup Permutations({h1, h2})
=============================================================================
