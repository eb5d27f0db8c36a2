---------------------------- MODULE MCPiSessions ----------------------------
(***************************************************************************)
(* Model-checking instance of PiSessions.                                  *)
(***************************************************************************)
EXTENDS PiSessions, TLC
=============================================================================
