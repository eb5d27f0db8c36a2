--------------------------- MODULE PiAgentSession ---------------------------
(***************************************************************************)
(* The coding agent's session (core/agent-session.ts) driving the agent of *)
(* PiAgentLoop: prompt() with its asynchronous preflight, the loop of      *)
(* _runAgentPrompt around agent.prompt() and agent.continue() (automatic   *)
(* retry after a transient error, compaction and one retry after a context *)
(* overflow, continuation for queued messages), abort(), and the           *)
(* append-only session log that compaction rebuilds the transcript from.   *)
(* Nothing keeps two prompt() calls from passing the isStreaming check     *)
(* before either of them starts a run (rpc-mode.ts:398 awaits none).       *)
(***************************************************************************)
EXTENDS PiAgentLoop

VARIABLES
    log,       \* the session manager's branch, from its first entry in use
    summarized, \* user messages of the entries compaction has left behind
    compactions, \* successful compactions so far (bounded by limits)
    active,    \* _isAgentRunActive
    stop,      \* _agentRunAbortRequested
    host,      \* where the prompt() call of each message is
    retry,     \* _retryAttempt
    last,      \* stop reason of _lastAssistantMessage, or "none"
    attempted, \* _overflowRecoveryAttempted
    given,     \* the number of messages submitted (bounded by limits)
    listed,    \* _steeringMessages and _followUpMessages
    returned,  \* messages that clearQueue() gave back
    gone,      \* history: messages refused, or lost with a failed run
    cancels,   \* abortRetry() calls so far (bounded by limits)
    overlap,   \* history: a call started its run before another had settled
    crossed    \* history: a call changed the transcript under another one's run

archive == <<summarized, compactions>>
Messages == 1..limits.messages
Outcomes == Errors \cup {"stop", "toolUse", "length", "aborted"}

lists == <<listed, returned>>
history == <<overlap, crossed>>
hostVars == <<log, summarized, compactions, active, stop, host, retry, last, attempted, given,
              lists, gone, cancels, history>>
vars == <<loopVars, hostVars>>

-----------------------------------------------------------------------------
(* The session log and the context built from it *)

CompactionEntry == [role |-> "compaction"]
Compactions == {i \in DOMAIN log : log[i].role = "compaction"}
Latest == IF Compactions = {} THEN 0 ELSE CHOOSE i \in Compactions : \A j \in Compactions : j <= i

(* buildContextEntries and sessionEntryToContextMessages for a log that has  *)
(* just been compacted: the new summary first, then the kept entries, an   *)
(* older compaction among them as a summary of its own.                    *)
Projected(s) == [i \in DOMAIN s |-> IF s[i].role = "compaction" THEN Summary ELSE s[i]]
BuildSessionContext(kept) == <<Summary>> \o Projected(kept)

\* Mutant: the cut may fall on a tool result.
CutPointsAny ==
    {i \in 2..Len(log) : /\ log[i].role # "compaction"
                         /\ Latest # Len(log)
                         /\ compactions < limits.compactions}

(* prepareCompaction and findValidCutPoints: something came after the last   *)
(* compaction, something before the cut is left to summarize, and the cut  *)
(* is not at a tool result.                                                *)
CutPoints ==
    {i \in 2..Len(log) : /\ log[i].role \notin {"toolResult", "compaction"}
                         /\ Latest # Len(log)
                         /\ compactions < limits.compactions}

Kept(cut) == SubSeq(log, cut, Len(log))

(* appendCompaction: entries before the first kept one no longer matter. *)
AppendCompaction(cut) ==
    /\ log' = Append(Kept(cut), CompactionEntry)
    /\ summarized' = summarized \cup {log[i].msg : i \in {k \in 1..(cut - 1) : log[k].role = "user"}}
    /\ compactions' = compactions + 1

WithoutLast(s) == SubSeq(s, 1, Len(s) - 1)
DropAssistant(s) == IF EndsWithAssistant(s) THEN WithoutLast(s) ELSE s
DropFailed(s) ==
    IF EndsWithAssistant(s) /\ Last(s).stopReason \in {"error", "length"} THEN WithoutLast(s) ELSE s

Queued == steering # <<>> \/ followUp # <<>>

\* A prompt() call past its checks whose run has not started.
Preflight == {"preflight", "precompact", "prerecover", "ready"}

\* A prompt() call in _runAgentPrompt.
Busy(m) == host[m] \notin {"none"} \cup Preflight

\* A step of a call that changes the transcript: another's run does not see it.
Crossing == crossed' = (crossed \/ run # "idle")

-----------------------------------------------------------------------------
SInit ==
    /\ Init
    /\ log = <<>> /\ summarized = {} /\ compactions = 0
    /\ active = FALSE /\ stop = FALSE
    /\ host = [m \in Messages |-> "none"]
    /\ retry = 0 /\ last = "none" /\ attempted = FALSE
    /\ given = 0 /\ listed = {} /\ returned = {} /\ gone = {}
    /\ cancels = 0
    /\ overlap = FALSE /\ crossed = FALSE

(* _handleAgentEvent, the session's listener: messages are persisted; a user *)
(* message leaves the session's lists; it and an answer reset what they    *)
(* make obsolete.                                                          *)
HandleMessages(e) ==
    /\ log' = log \o e
    /\ listed' = listed \ {e[i].msg : i \in {k \in DOMAIN e : e[k].role = "user"}}
    /\ attempted' = (attempted /\ \A i \in DOMAIN e : e[i].role # "user")
    /\ UNCHANGED <<last, retry>>

HandleAnswer(how) ==
    /\ log' = Append(log, Last(transcript'))
    /\ last' = how
    /\ attempted' = (attempted /\ how \in Errors \cup {"length"})
    /\ retry' = IF how \in Errors THEN retry ELSE 0
    /\ UNCHANGED listed

(* A step of the run.  A recorded failure says what was thrown, and is told  *)
(* apart by that like an error of the provider.                            *)
Loop ==
    /\ \/ LoopStep /\ HandleMessages(SubSeq(transcript', Len(transcript) + 1, Len(transcript')))
       \/ \E how \in Outcomes, n \in 0..MaxCalls :
             Stream(how, n) /\ HandleAnswer(how)
       \/ \E how \in IF aborted THEN {"aborted"} ELSE Errors :
             RecordFailure /\ HandleAnswer(how)
    /\ UNCHANGED <<archive, active, stop, host, given, returned, gone, cancels, history>>

(* The session may have taken the message off its lists when it is thrown. *)
ThrowOut ==
    /\ Throw
    /\ gone' = gone \cup Dropped
    /\ listed' \in {listed, listed \ Dropped}
    /\ UNCHANGED <<log, archive, active, stop, host, retry, last, attempted, given, returned, cancels, history>>

-----------------------------------------------------------------------------
(* What the user and the extensions do *)

(* prompt() while no run is active: input handlers, authentication and the  *)
(* pre-prompt compaction are awaited before the run starts.                *)
PromptCall(m) ==
    /\ ~active
    /\ m = given + 1 /\ m <= limits.prompts
    /\ given' = m
    /\ host' = [host EXCEPT ![m] = "preflight"]
    /\ UNCHANGED <<loopVars, log, archive, active, stop, retry, last, attempted, lists, gone, cancels, history>>

(* steer(), followUp(), and prompt() while a run is active: steer() and      *)
(* followUp() do not ask whether one is.                                   *)
Queue(m) ==
    /\ m = given + 1
    /\ given' = m
    /\ Steer(m) \/ FollowUp(m)
    /\ listed' = listed \cup {m}
    /\ UNCHANGED <<log, archive, active, stop, host, retry, last, attempted, returned, gone, cancels, history>>

\* Mutant: the agent's queues are left alone.
ClearQueueListsOnly ==
    /\ Queued \/ listed # {}
    /\ returned' = returned \cup listed
    /\ listed' = {}
    /\ UNCHANGED <<loopVars, log, archive, active, stop, host, retry, last, attempted, given, gone, cancels, history>>

(* clearQueue(): what the session has on its lists goes back to the editor,  *)
(* also a message that the run has taken from the queue and not yet begun. *)
ClearQueue ==
    /\ Queued \/ listed # {}
    /\ returned' = returned \cup listed
    /\ listed' = {}
    /\ ClearAllQueues
    /\ UNCHANGED <<log, archive, active, stop, host, retry, last, attempted, given, gone, cancels, history>>

(* abort(): remembered for the post-run handling, passed on to the agent. *)
SessionAbort ==
    /\ active
    /\ ~stop
    /\ stop' = TRUE
    /\ aborted' = (aborted \/ run # "idle")
    /\ UNCHANGED <<run, transcript, context, queues, inbox, tools, more, toolTurns, steered, torn, throws, limits>>
    /\ UNCHANGED <<log, archive, active, host, retry, last, attempted, given, lists, gone, cancels, history>>

(* The goal runtime aborts the agent's run only. *)
AbortRun == Abort /\ UNCHANGED hostVars

-----------------------------------------------------------------------------
(* Compaction *)

(* _checkCompaction on an answer that ended as how: a recoverable overflow   *)
(* or truncation leaves the transcript and is retried, once; any other     *)
(* answer may be compacted for its size.  The phases are where the caller  *)
(* waits for a compaction with and without a retry.                        *)
RecoverOverflow(m, how, phase) ==
    /\ how \in {"overflow", "length"}
    /\ ~attempted
    /\ attempted' = TRUE
    /\ transcript' = DropAssistant(transcript) /\ Crossing
    /\ host' = [host EXCEPT ![m] = phase]
    /\ UNCHANGED <<run, context, queues, inbox, aborted, tools, more, toolTurns, steered, torn, throws, limits>>

CompactBySize(m, how, phase) ==
    /\ how # "overflow"
    /\ host' = [host EXCEPT ![m] = phase]
    /\ UNCHANGED <<loopVars, attempted, crossed>>

(* _runAutoCompaction: the log gains a compaction entry and the transcript   *)
(* is rebuilt from it; before a retry the failed answer is removed again.  *)
Compacted(cut, dropFailed) ==
    /\ AppendCompaction(cut)
    /\ transcript' = IF dropFailed THEN DropFailed(BuildSessionContext(Kept(cut)))
                     ELSE BuildSessionContext(Kept(cut))

Compacting == {"compact", "recover", "precompact", "prerecover"}

(* Where the caller goes on: _handlePostAgentRun looks at the result, the    *)
(* preflight does not.                                                     *)
AfterCompaction(phase, done) ==
    IF phase \in {"precompact", "prerecover"} THEN "ready"
    ELSE IF done /\ phase = "recover" THEN "resume" ELSE "decide"

\* abort() reaches the compaction that started last: whether this one still ends with a
\* result after it is left open.
CompactDone(m) ==
    /\ host[m] \in Compacting
    /\ \E cut \in CutPoints : Compacted(cut, host[m] \in {"recover", "prerecover"})
    /\ Crossing
    /\ host' = [host EXCEPT ![m] = AfterCompaction(@, TRUE)]
    /\ UNCHANGED <<run, context, queues, inbox, aborted, tools, more, toolTurns, steered, torn, throws, limits>>
    /\ UNCHANGED <<active, stop, retry, last, attempted, given, lists, gone, cancels, overlap>>

(* Nothing to compact, a provider error, abortCompaction(). *)
CompactFails(m) ==
    /\ host[m] \in Compacting
    /\ host' = [host EXCEPT ![m] = AfterCompaction(@, FALSE)]
    /\ UNCHANGED <<loopVars, log, archive, active, stop, retry, last, attempted, given, lists, gone, cancels, history>>

\* Mutant: the rebuilt transcript is not taken into the context.
CompactMidRunStale ==
    /\ run = "prepare"
    /\ \E cut \in CutPoints : Compacted(cut, FALSE)
    /\ UNCHANGED <<run, context, queues, inbox, aborted, tools, more, toolTurns, steered, torn, throws, limits>>
    /\ UNCHANGED <<active, stop, host, retry, last, attempted, given, lists, gone, cancels, history>>

(* _compactBeforeNextAssistantResponse, in prepareNextTurn of the loop; it   *)
(* has its own AbortController and is started after abort() too.           *)
CompactMidRun ==
    /\ run = "prepare"
    /\ \E cut \in CutPoints :
         /\ Compacted(cut, FALSE)
         /\ context' = transcript'
    /\ UNCHANGED <<run, queues, inbox, aborted, tools, more, toolTurns, steered, torn, throws, limits>>
    /\ UNCHANGED <<active, stop, host, retry, last, attempted, given, lists, gone, cancels, history>>


-----------------------------------------------------------------------------
(* prompt(): the preflight *)

Answered == {i \in DOMAIN transcript :
               IsAssistant(transcript[i]) /\ \A j \in (i + 1)..Len(transcript) : ~IsAssistant(transcript[j])}

(* An answer from before the latest compaction does not count any more. *)
AnsweredSince == \E i \in DOMAIN log : i > Latest /\ IsAssistant(log[i])

(* The last answer may call for compaction before the new prompt is sent. *)
PreflightCompacts(m) ==
    /\ host[m] = "preflight" /\ AnsweredSince
    /\ \E i \in Answered, how \in Outcomes :
         /\ StopReason(how) = transcript[i].stopReason
         /\ RecoverOverflow(m, how, "prerecover") \/ CompactBySize(m, how, "precompact")
    /\ UNCHANGED <<log, archive, active, stop, retry, last, given, lists, gone, cancels, overlap>>

(* No model, no credentials, an extension that throws, before the pre-prompt  *)
(* compaction or after it.                                                 *)
PreflightFails(m) ==
    /\ host[m] \in {"preflight", "ready"}
    /\ host' = [host EXCEPT ![m] = "none"]
    /\ gone' = gone \cup {m}
    /\ UNCHANGED <<loopVars, log, archive, active, stop, retry, last, attempted, given, lists, cancels, history>>

\* Mutant: not in a finally block, a call that throws leaves the session active.
SettleReturned(m) ==
    /\ host' = [host EXCEPT ![m] = "none"]
    /\ active' = (active /\ host[m] \in {"run", "resume"})
    /\ overlap' = (overlap /\ \E q \in Messages \ {m} : Busy(q))
    /\ UNCHANGED crossed

(* The end of _runAgentPrompt, whichever way it is reached. *)
Settle(m) ==
    /\ host' = [host EXCEPT ![m] = "none"]
    /\ active' = FALSE
    /\ overlap' = (overlap /\ \E q \in Messages \ {m} : Busy(q))
    /\ UNCHANGED crossed

(* _runAgentPrompt: agent.prompt() throws when another call's run is active, *)
(* and then only the finally block runs.                                   *)
BeginRun(m) ==
    /\ host[m] \in {"preflight", "ready"}
    /\ stop' = FALSE
    /\ IF run = "idle"
         THEN /\ Prompt(m)
              /\ host' = [host EXCEPT ![m] = "run"]
              /\ active' = TRUE
              /\ overlap' = (overlap \/ \E q \in Messages : Busy(q))
              /\ UNCHANGED <<gone, crossed>>
         ELSE /\ Settle(m)
              /\ gone' = gone \cup {m}
              /\ UNCHANGED loopVars
    /\ UNCHANGED <<log, archive, retry, last, attempted, given, lists, cancels>>

-----------------------------------------------------------------------------
(* _runAgentPrompt: after a run *)

RunFinished(m) ==
    /\ host[m] = "run"
    /\ Finish
    /\ host' = [host EXCEPT ![m] = "post"]
    /\ UNCHANGED <<log, archive, active, stop, retry, last, attempted, given, lists, gone, cancels, history>>

(* agent.prompt() or agent.continue() rejects: only the finally block runs. *)
RunRejected(m) ==
    /\ host[m] = "run"
    /\ Reject
    /\ Settle(m)
    /\ retry' = IF stop THEN 0 ELSE retry
    /\ UNCHANGED <<log, archive, stop, last, attempted, given, lists, gone, cancels>>

(* _handlePostAgentRun, up to its first await *)
PostStopped(m) ==
    /\ host[m] = "post"
    /\ stop \/ last = "none"
    /\ last' = "none"
    /\ retry' = IF stop THEN 0 ELSE retry
    /\ Settle(m)
    /\ UNCHANGED <<loopVars, log, archive, stop, attempted, given, lists, gone, cancels>>

(* _prepareRetry: the error leaves the transcript, not the log. *)
MayRetry == last = "retryable" /\ retry < limits.maxRetries

PrepareRetry(m) ==
    /\ host[m] = "post" /\ ~stop
    /\ MayRetry
    /\ last' = "none"
    /\ retry' = retry + 1
    /\ transcript' = DropAssistant(transcript) /\ Crossing
    /\ host' = [host EXCEPT ![m] = "sleep"]
    /\ UNCHANGED <<run, context, queues, inbox, aborted, tools, more, toolTurns, steered, torn, throws, limits>>
    /\ UNCHANGED <<log, archive, active, stop, attempted, given, lists, gone, cancels, overlap>>

(* _checkCompaction(how) in the post-run handling: it compacts, or it does   *)
(* not (compaction disabled, another model, an answer from before the last  *)
(* compaction, recovery attempted) and only the queues decide.             *)
CheckCompaction(m, how) ==
    \/ how # "aborted" /\ (RecoverOverflow(m, how, "recover") \/ CompactBySize(m, how, "compact"))
    \/ /\ host' = [host EXCEPT ![m] = "decide"]
       /\ UNCHANGED <<loopVars, attempted, crossed>>

PostChecked(m) ==
    /\ host[m] = "post" /\ ~stop
    /\ last # "none" /\ ~MayRetry
    /\ last' = "none"
    /\ retry' = IF last \in Errors THEN 0 ELSE retry
    /\ CheckCompaction(m, last)
    /\ UNCHANGED <<log, archive, active, stop, given, lists, gone, cancels, overlap>>

(* The backoff elapses, or abort() ends it (GoOn then sees the request). *)
SleepOver(m) ==
    /\ host[m] = "sleep"
    /\ host' = [host EXCEPT ![m] = "resume"]
    /\ UNCHANGED <<loopVars, log, archive, active, stop, retry, last, attempted, given, lists, gone, cancels, history>>

(* abortRetry(): the retry is given up, the rest of the handling goes on. *)
SleepCancelled(m) ==
    /\ host[m] = "sleep" /\ ~stop
    /\ cancels < limits.cancels
    /\ cancels' = cancels + 1
    /\ retry' = 0
    /\ CheckCompaction(m, "retryable")
    /\ UNCHANGED <<log, archive, active, stop, last, given, lists, gone, overlap>>

(* The while condition of _runAgentPrompt. *)
Deciding(m) == host[m] \in {"decide", "resume"}
\* Mutant: the abort request is not looked at.
GoOnRegardless(m) == host[m] = "resume" \/ Queued

\* Mutant: queued messages are not looked at.
GoOnToRetry(m) == ~stop /\ host[m] = "resume"

GoOn(m) == ~stop /\ (host[m] = "resume" \/ Queued)

ContinueRun(m) ==
    /\ Deciding(m) /\ GoOn(m)
    /\ Continue
    /\ host' = [host EXCEPT ![m] = "run"]
    /\ UNCHANGED <<log, archive, active, stop, retry, last, attempted, given, lists, gone, cancels, history>>

(* agent.continue() throws: another call's run is active, or the transcript  *)
(* ends with an answer and nothing is queued.                              *)
ContinueThrows(m) ==
    /\ Deciding(m) /\ GoOn(m)
    /\ run # "idle" \/ ~MayContinue
    /\ Settle(m)
    /\ UNCHANGED <<loopVars, log, archive, stop, retry, last, attempted, given, lists, gone, cancels>>

Done(m) ==
    /\ Deciding(m) /\ ~GoOn(m)
    /\ Settle(m)
    /\ retry' = IF stop THEN 0 ELSE retry
    /\ UNCHANGED <<loopVars, log, archive, stop, last, attempted, given, lists, gone, cancels>>

HostStep ==
    \E m \in Messages :
        \/ BeginRun(m) \/ RunFinished(m) \/ PostStopped(m) \/ PrepareRetry(m) \/ PostChecked(m)
        \/ SleepOver(m) \/ CompactDone(m) \/ CompactFails(m)
        \/ ContinueRun(m) \/ ContinueThrows(m) \/ Done(m)

SNext ==
    \/ Loop \/ ThrowOut
    \/ \E m \in Messages :
          \/ PromptCall(m) \/ Queue(m) \/ PreflightFails(m) \/ PreflightCompacts(m)
          \/ RunRejected(m) \/ SleepCancelled(m)
    \/ ClearQueue \/ SessionAbort \/ AbortRun
    \/ CompactMidRun
    \/ HostStep

SSpec == SInit /\ [][SNext]_vars

(* The event loop runs every continuation; the provider, the tools and the  *)
(* compaction request end (each has a timeout or obeys the abort signal).  *)
SFairSpec == SSpec /\ WF_vars(Loop) /\ WF_vars(HostStep)

-----------------------------------------------------------------------------
(* Properties *)

\* Tool results directly follow the answer that made the calls, in the order of
\* the calls, in what is sent to the model: nothing the user steers in, no
\* concurrent tool and no compaction cut comes between (agent-loop.ts:501), as long as
\* no other call's retry or compaction changed the transcript under the run.
ResultsFollowCalls ==
    ~crossed => \A i \in DOMAIN transcript :
        transcript[i].role = "toolResult" =>
            LET a == i - transcript[i].call
            IN  /\ a >= 1
                /\ IsAssistant(transcript[a])
                /\ transcript[i].call <= transcript[a].calls
                /\ \A j \in (a + 1)..i : transcript[j] = ToolResult(j - a)

\* A request is never sent with unanswered tool calls of an answer that is replayed
\* (transform-messages.ts:189 leaves failed and aborted ones out), unless an abort or a
\* failure cut a batch short (agent-loop.ts:208, 393, 491, 530), or another call changed
\* the transcript under the run.
Replayed(e) == IsAssistant(e) /\ e.stopReason \notin {"error", "aborted"}
CallsAnswered ==
    (run = "turn" /\ pending = <<>> /\ ~torn /\ ~crossed) =>
        \A a \in DOMAIN transcript :
            (Replayed(transcript[a]) /\ transcript[a].calls > 0) =>
                /\ a + transcript[a].calls \in DOMAIN transcript
                /\ transcript[a + transcript[a].calls] = ToolResult(transcript[a].calls)

\* In one-at-a-time mode a turn takes at most one steering message, whichever of
\* the three polls of a turn finds it (agent-loop.ts:194, agent.ts:384).
OneSteeringPerTurn == steered <= 1

\* What is sent to the model is what the transcript shows: prompts, injected
\* messages, results and compactions reach both (agent-loop.ts:203, 229), as long as
\* no other call's retry or compaction changed the transcript under the run.
RequestSeesTranscript == (run = "turn" /\ pending = <<>> /\ ~crossed) => context = transcript

\* The number of places a submitted message is in, to be sent or sent.
Occurrences(m, q) == Cardinality({i \in DOMAIN q : q[i] = m})
Places(m) ==
    Occurrences(m, steering) + Occurrences(m, followUp) + Occurrences(m, prompts)
    + Occurrences(m, pending) + Occurrences(User(m), log)
    + (IF m \in summarized THEN 1 ELSE 0) + (IF host[m] \in Preflight THEN 1 ELSE 0)
    + (IF m \in gone THEN 1 ELSE 0)

\* A submitted message is in one place at any time: waiting in the preflight, in
\* one queue, held by the run, or once in the session log; it leaves only when it is
\* refused, held by a run that fails, or given back by clearQueue().  One that was
\* given back is in no queue, though the run that held it may still send it, once.
NothingLost ==
    \A m \in 1..given :
        /\ Places(m) <= 1
        /\ IF m \in returned THEN Occurrences(m, steering) + Occurrences(m, followUp) = 0
           ELSE Places(m) = 1

\* A call whose run ended and that nobody aborted leaves no queued message behind, also
\* one queued during the last answer, a backoff, a compaction or the agent_end listeners
\* (agent-session.ts:1994), unless another call's run overlapped it and took its
\* _lastAssistantMessage, or nothing is left in the transcript to continue from.
NotStranded ==
    [][\A m \in Messages :
         (Busy(m) /\ host[m] # "run" /\ host'[m] = "none" /\ ~stop /\ ~overlap /\ transcript # <<>>)
           => ~Queued']_vars

\* While an abort request stands the session starts no run: not the retry it was waiting
\* for, not a recovery, not a queued message (agent-session.ts:1960).  (The next prompt()
\* withdraws the request, agent-session.ts:1942.)
StaysStopped == [][(stop /\ stop' /\ run = "idle") => run' = "idle"]_vars

\* No tool starts once the run is aborted (agent-loop.ts:536, 673).
Started == {i \in DOMAIN batch : batch[i] = "running"}
NoToolAfterAbort == [][aborted => Started' \subseteq Started]_vars

\* Every run settles: transient errors are retried a bounded number of times,
\* an overflow is recovered once per user message, queued messages run out.
Settles == active ~> ~active

\* What the comment at agent-session.ts:3292 says the removal is for: agent.continue()
\* is never called on a transcript it rejects.
ContinueAccepted == \A m \in Messages : (Deciding(m) /\ GoOn(m)) => MayContinue
=============================================================================
