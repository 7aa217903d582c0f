---------------------------- MODULE MCHandshaker ----------------------------
(* An instance of Handshaker for TLC. *)
EXTENDS Handshaker

CONSTANTS o1, o2, i1, h1, h2, p1

(* A blocked address, and a whitelisted hash. *)
MCFilter == {[field |-> "addr", value |-> i1, decision |-> Block],
             [field |-> "hash", value |-> h1, decision |-> Allow]}

MCHash == [c \in Out |-> h1]
=============================================================================
