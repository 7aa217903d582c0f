--------------------------- MODULE MCPieceChecker ---------------------------
(* Instances of PieceChecker for TLC. *)
EXTENDS PieceChecker
=============================================================================
