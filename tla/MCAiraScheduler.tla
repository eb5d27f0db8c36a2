-------------------------- MODULE MCAiraScheduler --------------------------
(***************************************************************************)
(* Model-checking instance of AiraScheduler: every accepted dependency     *)
(* graph over the tasks, every abort point, every outcome.                 *)
(***************************************************************************)
EXTENDS AiraScheduler

CONSTANTS t1, t2, t3

Tasks3 == {t1, t2, t3}
=============================================================================
