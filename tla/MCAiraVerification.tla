------------------------ MODULE MCAiraVerification -------------------------
(***************************************************************************)
(* Model-checking instance of AiraVerification.                            *)
(***************************************************************************)
EXTENDS AiraVerification

CONSTANTS a, b

Files1 == {a}
Files2 == {a, b}
OneCaller == {"user"}
=============================================================================
