--------------------------- MODULE MCRoutingTable ---------------------------
(* An instance of RoutingTable for TLC: ids of three bits, our own is 000. *)
EXTENDS RoutingTable

MCSelf == <<0, 0, 0>>

(* Three contacts for the first bucket, two for the second, one for the third. *)
MCContact == {[id |-> <<1, 0, 0>>, addr |-> "a"],
              [id |-> <<1, 0, 0>>, addr |-> "b"],
              [id |-> <<1, 1, 0>>, addr |-> "c"],
              [id |-> <<0, 1, 0>>, addr |-> "d"],
              [id |-> <<0, 1, 1>>, addr |-> "f"],
              [id |-> <<0, 0, 1>>, addr |-> "e"]}
=============================================================================
