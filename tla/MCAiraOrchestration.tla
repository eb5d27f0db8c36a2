------------------------ MODULE MCAiraOrchestration ------------------------
(***************************************************************************)
(* Model-checking instance of AiraOrchestration: every accepted graph over *)
(* the tasks, with cancel and dispose at every point.                      *)
(***************************************************************************)
EXTENDS AiraOrchestration

CONSTANTS t1, t2, t3

Tasks3 == {t1, t2, t3}
=============================================================================
