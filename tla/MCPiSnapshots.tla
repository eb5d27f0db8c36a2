--------------------------- MODULE MCPiSnapshots ---------------------------
(***************************************************************************)
(* Model-checking instance of PiSnapshots.                                 *)
(***************************************************************************)
EXTENDS PiSnapshots, TLC
=============================================================================
