---------------------------- MODULE MCUtMetadata ----------------------------
(* Instances of UtMetadata for TLC. *)
EXTENDS UtMetadata, TLC

CONSTANTS h1, p1, p2

(* A dictionary of one full and one partial piece. *)
MCPartial == h1 :> 3
=============================================================================
