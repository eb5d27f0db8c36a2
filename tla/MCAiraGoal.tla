----------------------------- MODULE MCAiraGoal -----------------------------
(***************************************************************************)
(* Model-checking instance of AiraGoal.                                    *)
(***************************************************************************)
EXTENDS AiraGoal
=============================================================================
