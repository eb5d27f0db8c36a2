---------------------------- MODULE PiAgentLoop ----------------------------
(***************************************************************************)
(* The agent of packages/agent: class Agent (agent.ts: the transcript, the *)
(* two message queues, one active run at a time) and the loop a run        *)
(* executes (agent-loop.ts).  A run injects user messages, asks the model  *)
(* for an answer, executes the answer's tool calls one after the other or  *)
(* concurrently, and goes round again until nothing is left to do.         *)
(*                                                                         *)
(* A step is what happens between two awaits during which another actor    *)
(* can run: a user who steers, queues a follow-up, clears the queues or    *)
(* aborts, and the tools of a concurrent batch.  Streaming deltas, tool    *)
(* updates and event payloads are left out.  The model provider, the tools *)
(* and the hooks are nondeterministic.                                     *)
(***************************************************************************)
EXTENDS Naturals, Sequences, FiniteSets

CONSTANTS
    MaxCalls, \* bound: tool calls in one answer
    Limits    \* the budgets a behaviour may start with, see LoopAssumption

\* messages: user messages, numbered as they are submitted, of which the first
\* prompts may be given to prompt() and any may be queued; toolTurns: answers
\* with tool calls; throws: events at which a listener or a hook throws;
\* maxRetries: the setting retry.maxRetries; cancels: abortRetry() calls;
\* compactions: successful compactions.
LimitNames == {"messages", "prompts", "toolTurns", "throws", "maxRetries", "cancels", "compactions"}

ASSUME LoopAssumption ==
    /\ MaxCalls \in Nat \ {0}
    /\ Limits \subseteq [LimitNames -> Nat]

VARIABLES
    run,        \* where the active run is; "idle" when there is none
    transcript, \* Agent.state.messages
    context,    \* the loop's currentContext.messages
    steering,   \* Agent.steeringQueue (one-at-a-time mode)
    followUp,   \* Agent.followUpQueue (one-at-a-time mode)
    prompts,    \* prompts of the run not yet emitted
    pending,    \* the loop's pendingMessages
    skip,       \* skipInitialSteeringPoll
    aborted,    \* the run's AbortSignal
    left,       \* tool calls of the answer not yet started
    batch,      \* outcomes of the tool calls started, in call order
    emitted,    \* tool results of the batch already in the transcript
    sequential, \* the batch is executed one call after the other
    more,       \* hasMoreToolCalls
    toolTurns,  \* answers with tool calls so far (bounded by limits)
    steered,    \* history: steering messages taken by this turn
    throws,     \* events at which something threw (bounded by limits)
    limits,     \* the budgets of this behaviour, never changed
    torn        \* history: an abort or a failure cut a batch of tool calls short

queues == <<steering, followUp>>
inbox == <<prompts, pending, skip>>
tools == <<left, batch, emitted, sequential>>
loopVars == <<run, transcript, context, steering, followUp, prompts, pending, skip,
              aborted, left, batch, emitted, sequential, more, toolTurns, steered, torn, throws, limits>>

-----------------------------------------------------------------------------
(* Messages of the transcript *)

User(m) == [role |-> "user", msg |-> m]
Assistant(stop, n) == [role |-> "assistant", stopReason |-> stop, calls |-> n]
ToolResult(i) == [role |-> "toolResult", call |-> i]
Summary == [role |-> "summary"]

\* How an answer ends.  The transcript keeps the stopReason; what an "error" says
\* (transient, context overflow, other) is told apart by the session only.
Errors == {"retryable", "overflow", "fatal"}
StopReason(how) == IF how \in Errors THEN "error" ELSE how

Users(ms) == [i \in DOMAIN ms |-> User(ms[i])]
Results(n) == [i \in 1..n |-> ToolResult(i)]
Last(s) == s[Len(s)]
IsAssistant(e) == e.role = "assistant"
EndsWithAssistant(s) == s # <<>> /\ IsAssistant(Last(s))

(* PendingMessageQueue.drain in one-at-a-time mode, the default of both queues *)
Drained(q) == IF q = <<>> THEN <<>> ELSE <<Head(q)>>
Rest(q) == IF q = <<>> THEN <<>> ELSE Tail(q)

AllFinished(b) == \A i \in DOMAIN b : b[i] = "done"

-----------------------------------------------------------------------------
Init ==
    /\ run = "idle"
    /\ transcript = <<>> /\ context = <<>>
    /\ steering = <<>> /\ followUp = <<>>
    /\ prompts = <<>> /\ pending = <<>> /\ skip = FALSE
    /\ aborted = FALSE
    /\ left = 0 /\ batch = <<>> /\ emitted = 0 /\ sequential = FALSE
    /\ more = TRUE
    /\ toolTurns = 0
    /\ steered = 0
    /\ torn = FALSE /\ throws = 0 /\ limits \in Limits

(* Opening a run: runWithLifecycle, createContextSnapshot, createLoopConfig. *)
Open(ms, skipPoll) ==
    /\ run' = "prompts"
    /\ prompts' = ms
    /\ context' = transcript \o Users(ms)
    /\ pending' = <<>>
    /\ skip' = skipPoll
    /\ aborted' = FALSE
    /\ more' = TRUE
    /\ UNCHANGED <<transcript, tools, toolTurns, torn, throws, limits>>

(* Agent.prompt: refused while a run is active. *)
Prompt(m) ==
    /\ run = "idle"
    /\ Open(<<m>>, FALSE)
    /\ steered' = 0
    /\ UNCHANGED queues

(* Agent.continue.  After an assistant message there must be a queued       *)
(* message to start from; after any other message the loop simply resumes. *)
MayContinue == transcript # <<>> /\ (EndsWithAssistant(transcript) => (steering # <<>> \/ followUp # <<>>))

Continue ==
    /\ run = "idle"
    /\ MayContinue
    /\ IF ~EndsWithAssistant(transcript)
         THEN Open(<<>>, FALSE) /\ steered' = 0 /\ UNCHANGED queues
         ELSE IF steering # <<>>
         THEN /\ Open(Drained(steering), TRUE)
              /\ steering' = Rest(steering)
              /\ steered' = 1
              /\ UNCHANGED followUp
         ELSE /\ Open(Drained(followUp), FALSE)
              /\ followUp' = Rest(followUp)
              /\ steered' = 0
              /\ UNCHANGED steering

-----------------------------------------------------------------------------
(* The user's other operations, at any moment *)

Steer(m) ==
    /\ steering' = Append(steering, m)
    /\ UNCHANGED <<run, transcript, context, followUp, inbox, aborted, tools, more, toolTurns, steered, torn, throws, limits>>

FollowUp(m) ==
    /\ followUp' = Append(followUp, m)
    /\ UNCHANGED <<run, transcript, context, steering, inbox, aborted, tools, more, toolTurns, steered, torn, throws, limits>>

ClearAllQueues ==
    /\ steering' = <<>> /\ followUp' = <<>>
    /\ UNCHANGED <<run, transcript, context, inbox, aborted, tools, more, toolTurns, steered, torn, throws, limits>>

Abort ==
    /\ run # "idle"
    /\ ~aborted
    /\ aborted' = TRUE
    /\ UNCHANGED <<run, transcript, context, queues, inbox, tools, more, toolTurns, steered, torn, throws, limits>>

-----------------------------------------------------------------------------
(* The loop *)

\* Mutant: the initial poll is not skipped.
PollAlways ==
    /\ pending' = Drained(steering)
    /\ steering' = Rest(steering)
    /\ steered' = steered + Len(Drained(steering))
    /\ UNCHANGED skip

(* config.getSteeringMessages: the initial poll of a run that already starts *)
(* from a drained steering message returns nothing, once.                  *)
Poll ==
    IF skip
      THEN skip' = FALSE /\ pending' = <<>> /\ UNCHANGED <<steering, steered>>
      ELSE /\ pending' = Drained(steering)
           /\ steering' = Rest(steering)
           /\ steered' = steered + Len(Drained(steering))
           /\ UNCHANGED skip


(* One prompt is emitted: message_end appends it to the transcript. *)
EmitPrompt ==
    /\ run = "prompts"
    /\ prompts # <<>>
    /\ transcript' = Append(transcript, User(Head(prompts)))
    /\ prompts' = Tail(prompts)
    /\ UNCHANGED <<run, context, queues, pending, skip, aborted, tools, more, toolTurns, steered, torn, throws, limits>>

InitialPoll ==
    /\ run = "prompts"
    /\ prompts = <<>>
    /\ Poll
    /\ run' = "turn"
    /\ UNCHANGED <<transcript, context, followUp, prompts, aborted, tools, more, toolTurns, torn, throws, limits>>

(* One pending message is injected before the next answer. *)
Inject ==
    /\ run = "turn"
    /\ pending # <<>>
    /\ transcript' = Append(transcript, User(Head(pending)))
    /\ context' = Append(context, User(Head(pending)))
    /\ pending' = Tail(pending)
    /\ UNCHANGED <<run, queues, prompts, skip, aborted, tools, more, toolTurns, steered, torn, throws, limits>>

(* How the provider can answer.  An answer that fails, is aborted or is cut  *)
(* at the token limit keeps the tool calls it had streamed.  The signal may  *)
(* come too late for this answer, and a provider may abort by itself.      *)
Answers ==
    LET n == 0..(IF toolTurns < limits.toolTurns THEN MaxCalls ELSE 0)
    IN  {<<"stop", 0>>} \cup ({"toolUse"} \X (n \ {0}))
        \cup ((Errors \cup {"length", "aborted"}) \X n)

(* failToolCallsFromTruncatedMessage: every call of a truncated answer gets  *)
(* an error result, and none is executed.                                  *)
\* Mutant: the calls are dropped without a result.
TruncatedBatchEmpty(n) == <<>>

TruncatedBatch(n) == [i \in 1..n |-> "done"]

(* streamAssistantResponse and what runLoop does with the answer: one that   *)
(* failed or was aborted ends the run, and its calls get no results; the   *)
(* calls of a truncated one all fail unexecuted.                           *)
Stream(how, n) ==
    /\ run = "turn"
    /\ pending = <<>>
    /\ <<how, n>> \in Answers
    /\ transcript' = Append(transcript, Assistant(StopReason(how), n))
    /\ context' = Append(context, Assistant(StopReason(how), n))
    /\ run' = IF how \in Errors \cup {"aborted"} THEN "ending"
              ELSE IF n = 0 THEN "turnEnd" ELSE "tools"
    /\ toolTurns' = IF n > 0 THEN toolTurns + 1 ELSE toolTurns
    /\ left' = IF how = "toolUse" THEN n ELSE 0
    /\ batch' = IF how = "length" THEN TruncatedBatch(n) ELSE <<>>
    /\ sequential' \in IF how = "toolUse" THEN BOOLEAN ELSE {FALSE}
    /\ emitted' = 0
    /\ more' = FALSE
    /\ steered' = 0
    /\ UNCHANGED <<queues, inbox, aborted, torn, throws, limits>>

\* Mutant: the abort signal is not looked at.
PreparedAnyway(ready) == {"done", ready}

(* prepareToolCall: an unknown tool, invalid arguments or a refusal finish   *)
(* the call at once, and so does an abort.                                 *)
Prepared(ready) == IF aborted THEN {"done"} ELSE {"done", ready}

PrepareParallel ==
    /\ run = "tools" /\ ~sequential
    /\ left > 0
    /\ \E r \in Prepared("ready") : batch' = Append(batch, r)
    /\ left' = IF aborted THEN 0 ELSE left - 1
    /\ torn' = (torn \/ (aborted /\ left > 1))
    /\ UNCHANGED <<run, transcript, context, queues, inbox, aborted, emitted, sequential, more, toolTurns, steered, throws, limits>>

(* Every prepared call is started in one go, unless the run was aborted. *)
LaunchParallel ==
    /\ run = "tools" /\ ~sequential
    /\ left = 0
    /\ \E i \in DOMAIN batch : batch[i] = "ready"
    /\ batch' = [i \in DOMAIN batch |-> IF batch[i] # "ready" THEN batch[i]
                                        ELSE IF aborted THEN "done" ELSE "running"]
    /\ UNCHANGED <<run, transcript, context, queues, inbox, aborted, left, emitted, sequential, more, toolTurns, steered, torn, throws, limits>>

RunSequential ==
    /\ run = "tools" /\ sequential
    /\ left > 0
    /\ emitted = Len(batch)
    /\ \E r \in Prepared("running") : batch' = Append(batch, r)
    /\ left' = left - 1
    /\ UNCHANGED <<run, transcript, context, queues, inbox, aborted, emitted, sequential, more, toolTurns, steered, torn, throws, limits>>

(* A tool ends, in any order (executePreparedToolCall, finalize...). *)
ToolEnds ==
    /\ run = "tools"
    /\ \E i \in DOMAIN batch :
         /\ batch[i] = "running"
         /\ batch' = [batch EXCEPT ![i] = "done"]
    /\ UNCHANGED <<run, transcript, context, queues, inbox, aborted, left, emitted, sequential, more, toolTurns, steered, torn, throws, limits>>

(* Whether the next result can be emitted: at once in a sequential batch,   *)
(* after the whole batch in a concurrent one.                              *)
ResultReady ==
    /\ emitted < Len(batch)
    /\ IF sequential THEN batch[emitted + 1] = "done" ELSE left = 0 /\ AllFinished(batch)

EmitResult ==
    /\ run = "tools"
    /\ ResultReady
    /\ transcript' = Append(transcript, ToolResult(emitted + 1))
    /\ emitted' = emitted + 1
    /\ left' = IF sequential /\ aborted THEN 0 ELSE left
    /\ torn' = (torn \/ (sequential /\ aborted /\ left > 0))
    /\ UNCHANGED <<run, context, queues, inbox, aborted, batch, sequential, more, toolTurns, steered, throws, limits>>


(* The batch is over: its results join the context, and the loop goes on    *)
(* unless every result asked to terminate, which those of a truncated      *)
(* answer never do.                                                        *)
BatchDone ==
    /\ run = "tools"
    /\ left = 0 /\ emitted = Len(batch)
    /\ context' = context \o Results(emitted)
    /\ more' \in (IF Last(context).stopReason = "length" THEN {TRUE} ELSE BOOLEAN)
    /\ run' = "turnEnd"
    /\ batch' = <<>> /\ emitted' = 0 /\ sequential' = FALSE
    /\ UNCHANGED <<transcript, queues, inbox, aborted, left, toolTurns, steered, torn, throws, limits>>

(* After turn_end: steering first; follow-ups only when there are neither   *)
(* tool results to answer nor steering messages.  (The coding agent sets    *)
(* no shouldStopAfterTurn.)                                                *)
TurnEnd ==
    /\ run = "turnEnd"
    /\ IF more \/ steering # <<>>
         THEN Poll /\ run' = "prepare" /\ UNCHANGED <<followUp, more>>
         ELSE /\ pending' = Drained(followUp)
              /\ followUp' = Rest(followUp)
              /\ run' = IF followUp = <<>> THEN "ending" ELSE "prepare"
              /\ more' = TRUE
              /\ UNCHANGED <<steering, skip, steered>>
    /\ UNCHANGED <<transcript, context, prompts, aborted, tools, toolTurns, torn, throws, limits>>

(* prepareNextTurn is over; steering that arrived meanwhile is picked up,   *)
(* only when the earlier poll returned nothing.                            *)
PrepareDone ==
    /\ run = "prepare"
    /\ IF pending = <<>> THEN Poll ELSE UNCHANGED <<pending, skip, steering, steered>>
    /\ run' = "turn"
    /\ UNCHANGED <<transcript, context, followUp, prompts, aborted, tools, more, toolTurns, torn, throws, limits>>

(* finishRun: the run and its signal are gone. *)
FinishRun ==
    /\ run' = "idle"
    /\ context' = <<>> /\ aborted' = FALSE /\ more' = TRUE
    /\ UNCHANGED <<transcript, queues, inbox, tools, toolTurns, steered, torn, throws, limits>>

(* The agent_end listeners have settled. *)
Finish == run \in {"ending", "failed"} /\ FinishRun

-----------------------------------------------------------------------------
(* Failure of a run: what the loop held of messages is dropped with it *)

Dropped == {prompts[i] : i \in DOMAIN prompts} \cup {pending[i] : i \in DOMAIN pending}

(* An event listener or a hook throws out of the loop. *)
Throw ==
    /\ throws < limits.throws
    /\ run \notin {"idle", "failing", "failed"}
    /\ run' = "failing"
    /\ throws' = throws + 1
    /\ prompts' = <<>> /\ pending' = <<>> /\ skip' = FALSE
    /\ left' = 0 /\ batch' = <<>> /\ emitted' = 0 /\ sequential' = FALSE
    /\ torn' = (torn \/ run = "tools")
    /\ UNCHANGED <<transcript, context, queues, aborted, more, toolTurns, steered, limits>>

(* handleRunFailure records the failure as an assistant message... *)
RecordFailure ==
    /\ run = "failing"
    /\ transcript' = Append(transcript, Assistant(IF aborted THEN "aborted" ELSE "error", 0))
    /\ run' = "failed"
    /\ steered' = 0
    /\ UNCHANGED <<context, queues, inbox, aborted, tools, more, toolTurns, torn, throws, limits>>

(* ...and when a listener throws again the caller's promise rejects. *)
Reject ==
    /\ throws < limits.throws
    /\ run \in {"failing", "failed"}
    /\ FinishRun

(* What the run itself does, as opposed to its caller and the user. *)
LoopStep ==
    \/ EmitPrompt \/ InitialPoll \/ Inject
    \/ PrepareParallel \/ LaunchParallel \/ RunSequential \/ ToolEnds
    \/ EmitResult \/ BatchDone \/ TurnEnd \/ PrepareDone
=============================================================================
