--------------------------- MODULE MCDiskManager ---------------------------
(* Instances of DiskManager for TLC. *)
EXTENDS DiskManager

CONSTANTS s1, s2, h1
=============================================================================
