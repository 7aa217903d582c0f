---------------------------- MODULE MCDhtWorker ----------------------------
(***************************************************************************)
(* An instance of DhtWorker: a router and two contacts, one of which is a  *)
(* starting node; one lookup; two attempts to bootstrap.                   *)
(***************************************************************************)
EXTENDS DhtWorker

CONSTANTS c1, c2, l1, r1

MCDist == c1 :> 2 @@ c2 :> 1
=============================================================================
