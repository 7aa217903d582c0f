--------------------------- MODULE MCPeerManager ---------------------------
(* An instance of PeerManager for TLC. *)
EXTENDS PeerManager

CONSTANTS s1, s2, p1, p2
=============================================================================
