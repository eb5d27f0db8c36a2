-------------------------- MODULE MCPiAgentSession --------------------------
(***************************************************************************)
(* PiAgentSession for TLC.  A behaviour starts with one of nine budgets,   *)
(* each large enough for what it is about.  With one prompt() call: two    *)
(* steering messages; a batch of two tool calls with steering, compaction  *)
(* and aborts; transient errors, a cancelled retry and an overflow         *)
(* recovery; a listener that throws, with and without tools running.  With *)
(* two overlapping calls: compaction, tools, retries and a throw.          *)
(***************************************************************************)
EXTENDS PiAgentSession

Nothing ==
    [messages |-> 2, prompts |-> 1, toolTurns |-> 0, throws |-> 0, maxRetries |-> 0, cancels |-> 0,
     compactions |-> 0]

Steered == [Nothing EXCEPT !.messages = 3]
WithTools == [Nothing EXCEPT !.toolTurns = 1, !.compactions = 1]
WithRetries == [Nothing EXCEPT !.maxRetries = 1, !.cancels = 1, !.compactions = 1]
Throwing == [Nothing EXCEPT !.throws = 1, !.maxRetries = 1]
ThrowingTools == [Nothing EXCEPT !.messages = 1, !.toolTurns = 1, !.throws = 2]
Overlapping == [Nothing EXCEPT !.prompts = 2, !.compactions = 1]
OverlappingTools == [Nothing EXCEPT !.prompts = 2, !.toolTurns = 1]
OverlappingRetries == [Nothing EXCEPT !.prompts = 2, !.maxRetries = 1]
OverlappingThrows == [Nothing EXCEPT !.prompts = 2, !.throws = 1]

MCLimits == {Steered, WithTools, WithRetries, Throwing, ThrowingTools,
             Overlapping, OverlappingTools, OverlappingRetries, OverlappingThrows}
RecoveryLimits == {WithRetries}
=============================================================================
