----------------------------- MODULE MCPiLeases -----------------------------
(***************************************************************************)
(* Model-checking instance of PiLeases.                                    *)
(***************************************************************************)
EXTENDS PiLeases, TLC
=============================================================================
