------------------------ MODULE PiAgentSessionProofs ------------------------
(***************************************************************************)
(* The agent and its session: what every behaviour keeps, whatever the     *)
(* budgets of tool calls, messages, failures, retries and compactions, and *)
(* however many prompt() calls overlap.                                    *)
(***************************************************************************)
EXTENDS PiAgentSession, FiniteSetTheorems, SequenceTheorems, TLAPS

Runs == {"idle", "prompts", "turn", "tools", "turnEnd", "prepare", "ending", "failing", "failed"}
\* Where a prompt() call is once its run has started.
InRun == {"run", "post", "sleep", "compact", "recover", "decide", "resume"}
Phases == {"none"} \cup Preflight \cup InRun
Calls == {"ready", "running", "done"}
Stops == {"stop", "toolUse", "length", "error", "aborted"}
Entry == [role : {"user"}, msg : Nat] \cup [role : {"assistant"}, stopReason : Stops, calls : Nat]
         \cup [role : {"toolResult"}, call : Nat] \cup {Summary, CompactionEntry}

\* The types of the variables.
StepTypes == run \in Runs /\ steered \in Nat /\ limits \in Limits
FlagTypes ==
    /\ skip \in BOOLEAN /\ aborted \in BOOLEAN /\ sequential \in BOOLEAN /\ torn \in BOOLEAN
    /\ active \in BOOLEAN /\ stop \in BOOLEAN
MessageTypes == transcript \in Seq(Entry) /\ context \in Seq(Entry) /\ log \in Seq(Entry)
QueueTypes == steering \in Seq(Nat) /\ followUp \in Seq(Nat) /\ prompts \in Seq(Nat) /\ pending \in Seq(Nat)
BatchTypes == batch \in Seq(Calls) /\ left \in Nat /\ emitted \in Nat
HostTypes == host \in [Messages -> Phases] /\ last \in Outcomes \cup {"none"}
ATypeOK == StepTypes /\ FlagTypes /\ MessageTypes /\ QueueTypes /\ BatchTypes /\ HostTypes

\* Which of the polls of a turn can still find a steering message.
SteerInv ==
    /\ steered <= 1
    /\ skip => run = "prompts"
    /\ run = "prompts" => steered = IF skip THEN 1 ELSE 0
    /\ run \in {"tools", "turnEnd", "ending", "failed"} => steered = 0
    /\ (run = "prepare" /\ pending = <<>>) => steered = 0

\* Only a message that was submitted has a prompt() call.
FreshInv == given \in Nat /\ \A m \in Messages : m > given => host[m] = "none"

\* The run is that of one call.
RunInv ==
    /\ (run # "idle") <=> (\E m \in Messages : host[m] = "run")
    /\ \A m, k \in Messages : (host[m] = "run" /\ host[k] = "run") => m = k

\* While no call overlaps another, _lastAssistantMessage is that of the call's own run.
AloneInv ==
    ~overlap =>
        /\ \A m, k \in Messages : (host[m] \in InRun /\ host[k] \in InRun) => m = k
        /\ run \in {"tools", "turnEnd", "prepare", "ending", "failed"} => last # "none"
        /\ \A m \in Messages : host[m] = "post" => last # "none"

HostInv == FreshInv /\ RunInv /\ AloneInv

\* The step that NotStranded allows.
LeavesNone ==
    \A m \in Messages :
        (Busy(m) /\ host[m] # "run" /\ host'[m] = "none" /\ ~stop /\ ~overlap /\ transcript # <<>>)
          => ~Queued'

\* How the context of a run is ahead of, or behind, the transcript.
SeenInv ==
    /\ run = "prompts" => Len(prompts) <= 1 /\ context = transcript \o Users(prompts)
    /\ run \in {"turn", "turnEnd", "prepare"} => context = transcript
    /\ run = "tools" => transcript = context \o Results(emitted)

\* Every tool result of s follows the answer that made the call and the results before.
Followed(s) ==
    \A i \in 1..Len(s) : s[i].role = "toolResult" =>
        /\ i - s[i].call >= 1
        /\ IsAssistant(s[i - s[i].call]) /\ s[i].call <= s[i - s[i].call].calls
        /\ \A j \in (i - s[i].call + 1)..i : s[j] = ToolResult(j - (i - s[i].call))

\* Every call of a replayed answer of s has its result, but those of the answer at k.
AnsweredBut(s, k) ==
    \A a \in 1..Len(s) : (a # k /\ Replayed(s[a]) /\ s[a].calls > 0) =>
        /\ a + s[a].calls \in 1..Len(s)
        /\ s[a + s[a].calls] = ToolResult(s[a].calls)

\* s ends with an answer of n calls and the results of the first e.
Tip(s, n, e) ==
    /\ Len(s) - e >= 1 /\ IsAssistant(s[Len(s) - e]) /\ s[Len(s) - e].calls = n
    /\ \A j \in 1..e : s[Len(s) - e + j] = ToolResult(j)

\* t holds the answers and results of s, d places earlier.
Shift(s, t, d) ==
    \A i \in 1..Len(t) :
        /\ t[i].role \in {"assistant", "toolResult"} => i + d \in 1..Len(s) /\ t[i] = s[i + d]
        /\ (i + d \in 1..Len(s) /\ s[i + d].role \in {"assistant", "toolResult"}) => t[i] = s[i + d]

\* The answer of s whose calls are being executed.
OpenAnswer(s) == IF run = "tools" THEN Len(s) - emitted ELSE 0

\* Nothing comes between an answer and its results, in what is sent and in what is stored.
FollowInv == Followed(transcript) /\ Followed(log)

\* The batch accounts for the calls of the answer at the end.
BatchInv ==
    run = "tools" =>
        \E n \in Nat :
            /\ Tip(transcript, n, emitted) /\ Tip(log, n, emitted)
            /\ emitted <= Len(batch) /\ left + Len(batch) <= n
            /\ ~torn => left + Len(batch) = n

\* Until a batch is cut short every call has its result, but for the batch under way.
AnswerInv ==
    ~torn => AnsweredBut(transcript, OpenAnswer(transcript)) /\ AnsweredBut(log, OpenAnswer(log))

\* Whether m is in q, and whether it is there only once.
In(m, q) == \E i \in 1..Len(q) : q[i] = m
Once(m, q) == \A i, j \in 1..Len(q) : (q[i] = m /\ q[j] = m) => i = j

\* The places of NothingLost, by name.
PlaceNames == {"steering", "followUp", "prompts", "pending", "log", "summarized", "preflight", "gone"}
At(m, p) ==
    \/ p = "steering" /\ In(m, steering)
    \/ p = "followUp" /\ In(m, followUp)
    \/ p = "prompts" /\ In(m, prompts)
    \/ p = "pending" /\ In(m, pending)
    \/ p = "log" /\ In(User(m), log)
    \/ p = "summarized" /\ m \in summarized
    \/ p = "preflight" /\ host[m] \in Preflight
    \/ p = "gone" /\ m \in gone

\* What a run holds of messages, it holds only where it hands them on.
InboxInv ==
    /\ prompts # <<>> => run = "prompts"
    /\ pending # <<>> => run \in {"turn", "prepare"}

\* A message occurs at most once in a place, in one place only, and from its submission
\* on in some place unless clearQueue() gave it back.
OnceAt(m) ==
    /\ Once(m, steering) /\ Once(m, followUp) /\ Once(m, prompts) /\ Once(m, pending)
    /\ Once(User(m), log)
OnceInv == \A m \in Messages : OnceAt(m)
PlaceInv ==
    /\ given \in Nat /\ given <= limits.messages
    /\ \A m \in Messages :
         /\ \A p, r \in PlaceNames : (At(m, p) /\ At(m, r)) => p = r
         /\ \A p \in PlaceNames : At(m, p) => m <= given
         /\ m <= given => (m \in returned \/ \E p \in PlaceNames : At(m, p))

\* What is queued is on the session's lists, and was not given back.
InQueue(m) == In(m, steering) \/ In(m, followUp)
ListInv ==
    \A m \in Messages :
        /\ InQueue(m) => m \in listed
        /\ m \in listed \cup returned => m <= given
        /\ ~(m \in listed /\ m \in returned)

\* A step leaves m where it is, or it ends up in one place, or it is given back.
Moves(m) ==
    \/ (m <= given' <=> m <= given) /\ \A p \in PlaceNames : At(m, p)' <=> At(m, p)
    \/ m <= given' /\ \E p \in PlaceNames : \A r \in PlaceNames : At(m, r)' <=> r = p
    \/ m \in returned' /\ \A p \in PlaceNames : ~At(m, p)'

\* What a step of the run leaves alone, and what is persisted with one of LoopStep.
Calm == UNCHANGED <<archive, active, stop, host, given, returned, gone, cancels, history>>
Persist == HandleMessages(SubSeq(transcript', Len(transcript) + 1, Len(transcript'))) /\ Calm

-----------------------------------------------------------------------------
(***************************************************************************)
(* Entries and sequences of them                                           *)
(***************************************************************************)

\* What tells the entries apart.
LEMMA EntryFacts ==
    /\ \A m \in Nat : User(m) \in Entry /\ User(m).role = "user"
    /\ \A s \in Stops, n \in Nat :
         /\ Assistant(s, n) \in Entry /\ Assistant(s, n).role = "assistant"
         /\ Assistant(s, n).stopReason = s /\ Assistant(s, n).calls = n
    /\ \A i \in Nat : ToolResult(i) \in Entry /\ ToolResult(i).role = "toolResult" /\ ToolResult(i).call = i
    /\ Summary \in Entry /\ Summary.role = "summary"
    /\ CompactionEntry \in Entry /\ CompactionEntry.role = "compaction"
    /\ \A e \in Entry : e.role = "assistant" => e.calls \in Nat
    /\ \A e \in Entry : e.role = "toolResult" => e.call \in Nat
  <1>1. \A m \in Nat : User(m) \in Entry /\ User(m).role = "user"
    BY DEF User, Entry
  <1>2. \A s \in Stops, n \in Nat :
         /\ Assistant(s, n) \in Entry /\ Assistant(s, n).role = "assistant"
         /\ Assistant(s, n).stopReason = s /\ Assistant(s, n).calls = n
    BY DEF Assistant, Entry
  <1>3. \A i \in Nat : ToolResult(i) \in Entry /\ ToolResult(i).role = "toolResult" /\ ToolResult(i).call = i
    BY DEF ToolResult, Entry
  <1>4. Summary \in Entry /\ Summary.role = "summary"
    BY DEF Summary, Entry
  <1>5. CompactionEntry \in Entry /\ CompactionEntry.role = "compaction"
    BY DEF CompactionEntry, Entry
  <1>6. \A e \in Entry : e.role = "assistant" => e.calls \in Nat
    BY DEF Entry, Summary, CompactionEntry
  <1>7. \A e \in Entry : e.role = "toolResult" => e.call \in Nat
    BY DEF Entry, Summary, CompactionEntry
  <1>8. QED
    BY <1>1, <1>2, <1>3, <1>4, <1>5, <1>6, <1>7

\* Append, element by element.
LEMMA AppendFacts ==
  ASSUME NEW S, NEW q \in Seq(S), NEW e \in S
  PROVE  /\ Append(q, e) \in Seq(S) /\ Len(Append(q, e)) = Len(q) + 1 /\ Len(q) \in Nat
         /\ \A i \in 1..Len(q) : Append(q, e)[i] = q[i]
         /\ Append(q, e)[Len(q) + 1] = e
  BY AppendProperties, LenProperties

\* A sequence without its last element.
LEMMA WithoutLastFacts ==
  ASSUME NEW S, NEW q \in Seq(S), q # <<>>
  PROVE  /\ WithoutLast(q) \in Seq(S) /\ Len(WithoutLast(q)) = Len(q) - 1 /\ Len(q) \in Nat \ {0}
         /\ \A i \in 1..Len(q) - 1 : WithoutLast(q)[i] = q[i]
  <1>1. Len(q) \in Nat \ {0} /\ \A i \in 1..Len(q) : q[i] \in S
    BY EmptySeq, ElementOfSeq
  <1>2. 1 \in Int /\ Len(q) - 1 \in Int /\ \A i \in 1..Len(q) - 1 : q[i] \in S
    BY <1>1
  <1>3. /\ SubSeq(q, 1, Len(q) - 1) \in Seq(S)
        /\ Len(SubSeq(q, 1, Len(q) - 1)) = IF 1 <= Len(q) - 1 THEN Len(q) - 1 - 1 + 1 ELSE 0
        /\ \A i \in 1..Len(q) - 1 - 1 + 1 : SubSeq(q, 1, Len(q) - 1)[i] = q[1 + i - 1]
    BY <1>2, SubSeqProperties
  <1>4a. WithoutLast(q) \in Seq(S)
    BY <1>3 DEF WithoutLast
  <1>4b. PICK n \in Nat \ {0} : n = Len(q)
    BY <1>1
  <1>4c. Len(SubSeq(q, 1, n - 1)) = IF 1 <= n - 1 THEN n - 1 - 1 + 1 ELSE 0
    BY <1>3, <1>4b
  <1>4d. Len(SubSeq(q, 1, n - 1)) = n - 1
    <2>1. PICK k : k = Len(SubSeq(q, 1, n - 1))
      OBVIOUS
    <2>2. k = IF 1 <= n - 1 THEN n - 1 - 1 + 1 ELSE 0
      BY <1>4c, <2>1
    <2>3. k = n - 1
      BY <2>2
    <2>4. QED
      BY <2>1, <2>3
  <1>4. /\ WithoutLast(q) \in Seq(S) /\ Len(WithoutLast(q)) = Len(q) - 1
    BY <1>4a, <1>4b, <1>4d DEF WithoutLast
  <1>5. ASSUME NEW i \in 1..Len(q) - 1 PROVE WithoutLast(q)[i] = q[i]
    <2>1. i \in 1..Len(q) - 1 - 1 + 1 /\ 1 + i - 1 = i
      BY <1>1
    <2>2. QED
      BY <1>3, <2>1 DEF WithoutLast
  <1>6. QED
    BY <1>1, <1>4, <1>5

\* What compaction keeps of the log, as the transcript.
LEMMA KeptFacts ==
  ASSUME NEW q \in Seq(Entry), NEW cut \in 2..Len(q)
  PROVE  /\ SubSeq(q, cut, Len(q)) \in Seq(Entry) /\ Len(q) \in Nat
         /\ Len(SubSeq(q, cut, Len(q))) = Len(q) - cut + 1
         /\ \A i \in 1..Len(q) - cut + 1 : SubSeq(q, cut, Len(q))[i] = q[i + cut - 1]
  <1>1. Len(q) \in Nat /\ cut \in Int /\ cut <= Len(q) /\ \A i \in cut..Len(q) : q[i] \in Entry
    BY LenProperties, ElementOfSeq
  <1>2. /\ SubSeq(q, cut, Len(q)) \in Seq(Entry)
        /\ Len(SubSeq(q, cut, Len(q))) = IF cut <= Len(q) THEN Len(q) - cut + 1 ELSE 0
        /\ \A i \in 1..Len(q) - cut + 1 : SubSeq(q, cut, Len(q))[i] = q[cut + i - 1]
    BY <1>1, SubSeqProperties
  <1>3. QED
    BY <1>1, <1>2

\* What buildSessionContext makes of a log: a summary and its entries.
LEMMA BuildFacts ==
  ASSUME NEW q \in Seq(Entry)
  PROVE  /\ BuildSessionContext(q) \in Seq(Entry) /\ Len(BuildSessionContext(q)) = Len(q) + 1
         /\ Len(q) \in Nat /\ BuildSessionContext(q)[1] = Summary
         /\ \A i \in 1..Len(q) :
              BuildSessionContext(q)[i + 1] = IF q[i].role = "compaction" THEN Summary ELSE q[i]
  <1>1. Len(q) \in Nat /\ DOMAIN q = 1..Len(q) /\ \A i \in 1..Len(q) : q[i] \in Entry
    BY LenProperties, ElementOfSeq
  <1>2. Summary \in Entry
    BY EntryFacts
  <1>3. /\ Projected(q) \in [1..Len(q) -> Entry]
        /\ \A i \in 1..Len(q) : Projected(q)[i] = IF q[i].role = "compaction" THEN Summary ELSE q[i]
    BY <1>1, <1>2 DEF Projected
  <1>4. Projected(q) \in Seq(Entry) /\ Len(Projected(q)) = Len(q)
    <2> DEFINE n == Len(q)
               P == Projected(q)
    <2>1. n \in Nat /\ P \in [1..n -> Entry]
      BY <1>1, <1>3
    <2> HIDE DEF n, P
    <2>2. P \in Seq(Entry) /\ Len(P) = n
      BY <2>1
    <2>3. QED
      BY <2>2 DEF n, P
  <1>5. <<Summary>> \in Seq(Entry) /\ Len(<<Summary>>) = 1 /\ <<Summary>>[1] = Summary
    BY <1>2
  <1>6. /\ BuildSessionContext(q) \in Seq(Entry) /\ Len(BuildSessionContext(q)) = 1 + Len(q)
        /\ \A i \in 1..1 + Len(q) : BuildSessionContext(q)[i] = IF i <= 1 THEN <<Summary>>[i] ELSE Projected(q)[i - 1]
    <2> DEFINE P == Projected(q)
               O == <<Summary>>
    <2>1. BuildSessionContext(q) = O \o P
      BY DEF BuildSessionContext
    <2>2. P \in Seq(Entry) /\ O \in Seq(Entry) /\ Len(O) = 1 /\ Len(P) = Len(q)
      BY <1>4, <1>5
    <2> HIDE DEF O, P
    <2>3. QED
      BY <2>1, <2>2, ConcatProperties DEF O, P
  <1>7. BuildSessionContext(q)[1] = Summary
    BY <1>1, <1>5, <1>6
  <1>8. ASSUME NEW i \in 1..Len(q)
        PROVE  BuildSessionContext(q)[i + 1] = IF q[i].role = "compaction" THEN Summary ELSE q[i]
    <2>1. i + 1 \in 1..1 + Len(q) /\ ~(i + 1 <= 1) /\ (i + 1) - 1 = i
      BY <1>1
    <2>2. BuildSessionContext(q)[i + 1] = Projected(q)[i]
      BY <1>6, <2>1
    <2>3. QED
      BY <1>3, <2>2
  <1>9. QED
    BY <1>1, <1>6, <1>7, <1>8

\* No step starts a run after a stop request, but a prompt that withdraws it.
LEMMA StopKept ==
  ASSUME SNext
  PROVE  stop /\ stop' /\ run = "idle" => run' = "idle"
  <1>1. CASE (EmitPrompt \/ Inject \/ PrepareParallel \/ LaunchParallel \/ RunSequential \/ ToolEnds \/ EmitResult) /\ Persist
    <2>1. UNCHANGED <<run>>
      BY <1>1 DEF EmitPrompt, Persist, HandleMessages, Calm, Inject, PrepareParallel, LaunchParallel,
          RunSequential, ToolEnds, EmitResult, queues, inbox, tools, loopVars, archive, lists, history
    <2>2. QED
      BY <2>1
  <1>2. CASE InitialPoll /\ Persist
    BY <1>2 DEF InitialPoll, Poll, Persist, HandleMessages, Calm, queues, inbox, tools, loopVars, archive,
        lists, history
  <1>3. CASE BatchDone /\ Persist
    BY <1>3 DEF BatchDone, Persist, HandleMessages, Calm, queues, inbox, tools, loopVars, archive, lists,
        history
  <1>4. CASE TurnEnd /\ Persist
    BY <1>4 DEF TurnEnd, Poll, Persist, HandleMessages, Calm, queues, inbox, tools, loopVars, archive, lists,
        history
  <1>5. CASE PrepareDone /\ Persist
    BY <1>5 DEF PrepareDone, Poll, Persist, HandleMessages, Calm, queues, inbox, tools, loopVars, archive,
        lists, history
  <1>6. ASSUME NEW how \in Outcomes, NEW n \in 0..MaxCalls, Stream(how, n), HandleAnswer(how), Calm
        PROVE  stop /\ stop' /\ run = "idle" => run' = "idle"
    BY <1>6 DEF Stream, HandleAnswer, Calm, queues, inbox, tools, loopVars, archive, lists, history
  <1>7. ASSUME NEW how \in Errors \cup {"aborted"}, RecordFailure, HandleAnswer(how), Calm
        PROVE  stop /\ stop' /\ run = "idle" => run' = "idle"
    BY <1>7 DEF RecordFailure, HandleAnswer, Calm, queues, inbox, tools, loopVars, archive, lists, history
  <1>8. CASE ClearQueue \/ SessionAbort \/ AbortRun \/ CompactMidRun
    <2>1. UNCHANGED <<run>>
      BY <1>8 DEF ClearQueue, ClearAllQueues, SessionAbort, AbortRun, Abort, hostVars, CompactMidRun,
          Compacted, AppendCompaction, queues, inbox, tools, loopVars, archive, lists, history
    <2>2. QED
      BY <2>1
  <1>9. CASE ThrowOut
    BY <1>9 DEF ThrowOut, Throw, queues, inbox, tools, loopVars, archive, lists, history
  <1>10. ASSUME NEW m \in Messages,
               PromptCall(m) \/ Queue(m) \/ PreflightFails(m) \/ PreflightCompacts(m) \/
               SleepCancelled(m) \/ PostStopped(m) \/ PrepareRetry(m) \/ PostChecked(m) \/
               SleepOver(m) \/ CompactDone(m) \/ CompactFails(m) \/ ContinueThrows(m) \/ Done(m)
        PROVE  stop /\ stop' /\ run = "idle" => run' = "idle"
    <2>1. UNCHANGED <<run>>
      BY <1>10 DEF PromptCall, Queue, Steer, FollowUp, PreflightFails, PreflightCompacts, RecoverOverflow,
          CompactBySize, Crossing, SleepCancelled, CheckCompaction, PostStopped, Settle, PrepareRetry,
          PostChecked, SleepOver, CompactDone, Compacted, AppendCompaction, CompactFails, ContinueThrows,
          Done, queues, inbox, tools, loopVars, archive, lists, history
    <2>2. QED
      BY <2>1
  <1>11. ASSUME NEW m \in Messages, RunRejected(m)
        PROVE  stop /\ stop' /\ run = "idle" => run' = "idle"
    BY <1>11 DEF RunRejected, Reject, FinishRun, Settle, queues, inbox, tools, loopVars, archive, lists,
        history
  <1>12. ASSUME NEW m \in Messages, BeginRun(m)
        PROVE  stop /\ stop' /\ run = "idle" => run' = "idle"
    BY <1>12 DEF BeginRun, Prompt, Open, Settle, queues, inbox, tools, loopVars, archive, lists, history
  <1>13. ASSUME NEW m \in Messages, RunFinished(m)
        PROVE  stop /\ stop' /\ run = "idle" => run' = "idle"
    BY <1>13 DEF RunFinished, Finish, FinishRun, queues, inbox, tools, loopVars, archive, lists, history
  <1>14. ASSUME NEW m \in Messages, ContinueRun(m)
        PROVE  stop /\ stop' /\ run = "idle" => run' = "idle"
    BY <1>14 DEF ContinueRun, Continue, Open, queues, inbox, tools, loopVars, archive, lists, history, GoOn
  <1>15. QED
    BY <1>1, <1>2, <1>3, <1>4, <1>5, <1>6, <1>7, <1>8, <1>9, <1>10, <1>11, <1>12, <1>13, <1>14 DEF SNext,
        Loop, LoopStep, HostStep, Persist, Calm

\* StaysStopped: while an abort request stands no step starts a run, whichever calls are
\* under way.
THEOREM Stopped == SSpec => StaysStopped
  <1>1. ASSUME [SNext]_vars
        PROVE  [(stop /\ stop' /\ run = "idle") => run' = "idle"]_vars
    BY <1>1, StopKept
  <1>2. QED
    BY <1>1, PTL DEF SSpec, StaysStopped

-----------------------------------------------------------------------------
(***************************************************************************)
(* Types                                                                   *)
(***************************************************************************)

\* Draining a queue takes its first message, if there is one.
LEMMA QueueFacts ==
  ASSUME NEW q \in Seq(Nat)
  PROVE  /\ Drained(q) \in Seq(Nat) /\ Rest(q) \in Seq(Nat)
         /\ Len(Drained(q)) \in Nat /\ Len(Drained(q)) <= 1
         /\ q = <<>> => Drained(q) = <<>>
         /\ q # <<>> => Len(Drained(q)) = 1
  <1>1. CASE q = <<>>
    BY <1>1 DEF Drained, Rest
  <1>2. CASE q # <<>>
    <2>1. Head(q) \in Nat /\ Tail(q) \in Seq(Nat)
      BY <1>2, HeadTailProperties
    <2>2. <<Head(q)>> \in Seq(Nat) /\ Len(<<Head(q)>>) = 1
      BY <2>1
    <2>3. QED
      BY <1>2, <2>1, <2>2 DEF Drained, Rest
  <1>3. QED
    BY <1>1, <1>2

\* The prompts of a run, as messages.
LEMMA UsersFacts ==
  ASSUME NEW q \in Seq(Nat)
  PROVE  /\ Users(q) \in Seq(Entry) /\ Len(Users(q)) = Len(q) /\ Len(q) \in Nat
         /\ \A i \in 1..Len(q) : Users(q)[i] = User(q[i])
  <1>1. Len(q) \in Nat /\ DOMAIN q = 1..Len(q) /\ \A i \in 1..Len(q) : q[i] \in Nat
    BY LenProperties, ElementOfSeq
  <1>2. \A i \in 1..Len(q) : User(q[i]) \in Entry
    BY <1>1, EntryFacts
  <1>3. /\ Users(q) \in [1..Len(q) -> Entry]
        /\ \A i \in 1..Len(q) : Users(q)[i] = User(q[i])
    BY <1>1, <1>2 DEF Users
  <1>4. Users(q) \in Seq(Entry) /\ Len(Users(q)) = Len(q)
    <2> DEFINE n == Len(q)
               P == Users(q)
    <2>1. n \in Nat /\ P \in [1..n -> Entry]
      BY <1>1, <1>3
    <2> HIDE DEF n, P
    <2>2. P \in Seq(Entry) /\ Len(P) = n
      BY <2>1
    <2>3. QED
      BY <2>2 DEF n, P
  <1>5. QED
    BY <1>1, <1>3, <1>4

\* The results of a batch, as messages.
LEMMA ResultsFacts ==
  ASSUME NEW n \in Nat
  PROVE  /\ Results(n) \in Seq(Entry) /\ Len(Results(n)) = n
         /\ \A i \in 1..n : Results(n)[i] = ToolResult(i)
  <1>1. \A i \in 1..n : ToolResult(i) \in Entry
    BY EntryFacts
  <1>2. Results(n) \in [1..n -> Entry] /\ \A i \in 1..n : Results(n)[i] = ToolResult(i)
    BY <1>1 DEF Results
  <1>3. Results(n) \in Seq(Entry) /\ Len(Results(n)) = n
    <2> DEFINE P == Results(n)
    <2>1. P \in [1..n -> Entry]
      BY <1>2
    <2> HIDE DEF P
    <2>2. P \in Seq(Entry) /\ Len(P) = n
      BY <2>1
    <2>3. QED
      BY <2>2 DEF P
  <1>4. QED
    BY <1>2, <1>3

\* What the session's listener adds to the log is what the step added to the transcript.
LEMMA PersistNone ==
  ASSUME transcript \in Seq(Entry), log \in Seq(Entry), Persist, transcript' = transcript
  PROVE  log' = log /\ listed' = listed
  <1>1. Len(transcript) \in Nat /\ log' = log \o SubSeq(transcript, Len(transcript) + 1, Len(transcript))
    BY LenProperties DEF Persist, HandleMessages
  <1>2. SubSeq(transcript, Len(transcript) + 1, Len(transcript)) = <<>>
    BY <1>1, SubSeqEmpty
  <1>3. log' = log
    BY <1>1, <1>2, ConcatEmptySeq
  <1>4. listed' = listed \ {<<>>[i].msg : i \in {k \in DOMAIN <<>> : <<>>[k].role = "user"}}
    BY <1>2 DEF Persist, HandleMessages
  <1>5. DOMAIN <<>> = {}
    OBVIOUS
  <1>6. listed' = listed
    BY <1>4, <1>5
  <1>7. QED
    BY <1>3, <1>6

\* A message of the run that ends is appended to the log.
LEMMA PersistOne ==
  ASSUME transcript \in Seq(Entry), log \in Seq(Entry), Persist,
         NEW e \in Entry, transcript' = Append(transcript, e)
  PROVE  /\ log' = Append(log, e)
         /\ \A k : k \in listed' <=> (k \in listed /\ ~(e.role = "user" /\ k = e.msg))
  <1>1. PICK t \in Seq(Entry) : t = Append(transcript, e)
    BY AppendFacts
  <1>2. PICK n \in Nat : n = Len(transcript)
    BY LenProperties
  <1>3. Len(t) = n + 1 /\ t[n + 1] = e
    BY <1>1, <1>2, AppendFacts
  <1>4. log' = log \o SubSeq(t, n + 1, n + 1)
    BY <1>1, <1>2, <1>3 DEF Persist, HandleMessages
  <1>5. SubSeq(t, n + 1, n + 1) = <<e>>
    <2>1. PICK k \in Int : k = n + 1
      OBVIOUS
    <2>2. \A i \in k..k : t[i] \in Entry
      BY <1>3, <2>1
    <2>2a. /\ SubSeq(t, k, k) \in Seq(Entry)
           /\ Len(SubSeq(t, k, k)) = IF k <= k THEN k - k + 1 ELSE 0
           /\ \A i \in 1..k - k + 1 : SubSeq(t, k, k)[i] = t[k + i - 1]
      BY <2>2, SubSeqProperties
    <2>3. PICK s \in Seq(Entry) : s = SubSeq(t, k, k)
      BY <2>2a
    <2>4. Len(s) = 1 /\ s[1] = e
      BY <1>3, <2>1, <2>2a, <2>3
    <2>5. s = <<e>>
      BY <2>4
    <2>6. QED
      BY <2>1, <2>3, <2>5
  <1>6. log' = Append(log, e)
    BY <1>4, <1>5, AppendIsConcat
  <1>7. PICK f : f = <<e>> /\ f = SubSeq(t, n + 1, n + 1) /\ DOMAIN f = {1} /\ f[1] = e
    <2>1. DOMAIN <<e>> = {1} /\ <<e>>[1] = e
      OBVIOUS
    <2>2. QED
      BY <1>5, <2>1
  <1>8. listed' = listed \ {f[i].msg : i \in {k \in DOMAIN f : f[k].role = "user"}}
    BY <1>1, <1>2, <1>3, <1>7 DEF Persist, HandleMessages
  <1>9. \A k : k \in listed' <=> (k \in listed /\ ~(e.role = "user" /\ k = e.msg))
    BY <1>7, <1>8
  <1>10. QED
    BY <1>6, <1>9
\* Where a run is, and what it took.
LEMMA StepTypesKept ==
  ASSUME ATypeOK, SNext
  PROVE  StepTypes'
  <1>1. CASE (EmitPrompt \/ Inject \/ PrepareParallel \/ LaunchParallel \/ RunSequential \/ ToolEnds \/ EmitResult) /\ Persist
    <2>1. UNCHANGED <<run, steered, limits>>
      BY <1>1 DEF EmitPrompt, Persist, HandleMessages, Calm, Inject, PrepareParallel, LaunchParallel,
          RunSequential, ToolEnds, EmitResult, queues, inbox, tools, loopVars, archive, lists, history
    <2>2. QED
      BY <2>1 DEF ATypeOK, StepTypes
  <1>2. CASE InitialPoll /\ Persist
    BY QueueFacts, <1>2 DEF InitialPoll, Poll, Persist, HandleMessages, Calm, queues, inbox, tools, loopVars,
        archive, lists, history, ATypeOK, StepTypes, Runs, QueueTypes
  <1>3. CASE BatchDone /\ Persist
    BY <1>3 DEF BatchDone, Persist, HandleMessages, Calm, queues, inbox, tools, loopVars, archive, lists,
        history, ATypeOK, StepTypes, Runs
  <1>4. CASE TurnEnd /\ Persist
    BY QueueFacts, <1>4 DEF TurnEnd, Poll, Persist, HandleMessages, Calm, queues, inbox, tools, loopVars,
        archive, lists, history, ATypeOK, StepTypes, Runs, QueueTypes
  <1>5. CASE PrepareDone /\ Persist
    BY QueueFacts, <1>5 DEF PrepareDone, Poll, Persist, HandleMessages, Calm, queues, inbox, tools, loopVars,
        archive, lists, history, ATypeOK, StepTypes, Runs, QueueTypes
  <1>6. ASSUME NEW how \in Outcomes, NEW n \in 0..MaxCalls, Stream(how, n), HandleAnswer(how), Calm
        PROVE  StepTypes'
    BY <1>6 DEF Stream, HandleAnswer, Calm, queues, inbox, tools, loopVars, archive, lists, history, ATypeOK,
        StepTypes, Runs
  <1>7. ASSUME NEW how \in Errors \cup {"aborted"}, RecordFailure, HandleAnswer(how), Calm
        PROVE  StepTypes'
    BY <1>7 DEF RecordFailure, HandleAnswer, Calm, queues, inbox, tools, loopVars, archive, lists, history,
        ATypeOK, StepTypes, Runs
  <1>8. CASE ClearQueue \/ SessionAbort \/ AbortRun \/ CompactMidRun
    <2>1. UNCHANGED <<run, steered, limits>>
      BY <1>8 DEF ClearQueue, ClearAllQueues, SessionAbort, AbortRun, Abort, hostVars, CompactMidRun,
          Compacted, AppendCompaction, queues, inbox, tools, loopVars, archive, lists, history
    <2>2. QED
      BY <2>1 DEF ATypeOK, StepTypes
  <1>9. CASE ThrowOut
    BY <1>9 DEF ThrowOut, Throw, queues, inbox, tools, loopVars, archive, lists, history, ATypeOK, StepTypes,
        Runs
  <1>10. ASSUME NEW m \in Messages,
               PromptCall(m) \/ Queue(m) \/ PreflightFails(m) \/ PreflightCompacts(m) \/
               SleepCancelled(m) \/ PostStopped(m) \/ PrepareRetry(m) \/ PostChecked(m) \/
               SleepOver(m) \/ CompactDone(m) \/ CompactFails(m) \/ ContinueThrows(m) \/ Done(m)
        PROVE  StepTypes'
    <2>1. UNCHANGED <<run, steered, limits>>
      BY <1>10 DEF PromptCall, Queue, Steer, FollowUp, PreflightFails, PreflightCompacts, RecoverOverflow,
          CompactBySize, Crossing, SleepCancelled, CheckCompaction, PostStopped, Settle, PrepareRetry,
          PostChecked, SleepOver, CompactDone, Compacted, AppendCompaction, CompactFails, ContinueThrows,
          Done, queues, inbox, tools, loopVars, archive, lists, history
    <2>2. QED
      BY <2>1 DEF ATypeOK, StepTypes
  <1>11. ASSUME NEW m \in Messages, RunRejected(m)
        PROVE  StepTypes'
    BY <1>11 DEF RunRejected, Reject, FinishRun, Settle, queues, inbox, tools, loopVars, archive, lists,
        history, ATypeOK, StepTypes, Runs
  <1>12. ASSUME NEW m \in Messages, BeginRun(m)
        PROVE  StepTypes'
    BY <1>12 DEF BeginRun, Prompt, Open, Settle, queues, inbox, tools, loopVars, archive, lists, history,
        ATypeOK, StepTypes, Runs
  <1>13. ASSUME NEW m \in Messages, RunFinished(m)
        PROVE  StepTypes'
    BY <1>13 DEF RunFinished, Finish, FinishRun, queues, inbox, tools, loopVars, archive, lists, history,
        ATypeOK, StepTypes, Runs
  <1>14. ASSUME NEW m \in Messages, ContinueRun(m)
        PROVE  StepTypes'
    BY <1>14 DEF ContinueRun, Continue, Open, queues, inbox, tools, loopVars, archive, lists, history,
        ATypeOK, StepTypes, Runs
  <1>15. QED
    BY <1>1, <1>2, <1>3, <1>4, <1>5, <1>6, <1>7, <1>8, <1>9, <1>10, <1>11, <1>12, <1>13, <1>14 DEF SNext,
        Loop, LoopStep, HostStep, Persist, Calm

\* The flags.
LEMMA FlagTypesKept ==
  ASSUME ATypeOK, SNext
  PROVE  FlagTypes'
  <1>1. CASE (EmitPrompt \/ Inject \/ LaunchParallel \/ RunSequential \/ ToolEnds) /\ Persist
    <2>1. UNCHANGED <<skip, aborted, sequential, torn, active, stop>>
      BY <1>1 DEF EmitPrompt, Persist, HandleMessages, Calm, Inject, LaunchParallel, RunSequential, ToolEnds,
          queues, inbox, tools, loopVars, archive, lists, history
    <2>2. QED
      BY <2>1 DEF ATypeOK, FlagTypes
  <1>2. CASE InitialPoll /\ Persist
    BY <1>2 DEF InitialPoll, Poll, Persist, HandleMessages, Calm, queues, inbox, tools, loopVars, archive,
        lists, history, ATypeOK, FlagTypes
  <1>3. CASE PrepareParallel /\ Persist
    BY <1>3 DEF PrepareParallel, Persist, HandleMessages, Calm, queues, inbox, tools, loopVars, archive,
        lists, history, ATypeOK, FlagTypes
  <1>4. CASE EmitResult /\ Persist
    BY <1>4 DEF EmitResult, Persist, HandleMessages, Calm, queues, inbox, tools, loopVars, archive, lists,
        history, ATypeOK, FlagTypes
  <1>5. CASE BatchDone /\ Persist
    BY <1>5 DEF BatchDone, Persist, HandleMessages, Calm, queues, inbox, tools, loopVars, archive, lists,
        history, ATypeOK, FlagTypes
  <1>6. CASE TurnEnd /\ Persist
    BY <1>6 DEF TurnEnd, Poll, Persist, HandleMessages, Calm, queues, inbox, tools, loopVars, archive, lists,
        history, ATypeOK, FlagTypes
  <1>7. CASE PrepareDone /\ Persist
    BY <1>7 DEF PrepareDone, Poll, Persist, HandleMessages, Calm, queues, inbox, tools, loopVars, archive,
        lists, history, ATypeOK, FlagTypes
  <1>8. ASSUME NEW how \in Outcomes, NEW n \in 0..MaxCalls, Stream(how, n), HandleAnswer(how), Calm
        PROVE  FlagTypes'
    BY <1>8 DEF Stream, HandleAnswer, Calm, queues, inbox, tools, loopVars, archive, lists, history, ATypeOK,
        FlagTypes
  <1>9. ASSUME NEW how \in Errors \cup {"aborted"}, RecordFailure, HandleAnswer(how), Calm
        PROVE  FlagTypes'
    <2>1. UNCHANGED <<skip, aborted, sequential, torn, active, stop>>
      BY <1>9 DEF RecordFailure, HandleAnswer, Calm, queues, inbox, tools, loopVars, archive, lists, history
    <2>2. QED
      BY <2>1 DEF ATypeOK, FlagTypes
  <1>10. CASE ClearQueue \/ CompactMidRun
    <2>1. UNCHANGED <<skip, aborted, sequential, torn, active, stop>>
      BY <1>10 DEF ClearQueue, ClearAllQueues, CompactMidRun, Compacted, AppendCompaction, queues, inbox,
          tools, loopVars, archive, lists, history
    <2>2. QED
      BY <2>1 DEF ATypeOK, FlagTypes
  <1>11. CASE ThrowOut
    BY <1>11 DEF ThrowOut, Throw, queues, inbox, tools, loopVars, archive, lists, history, ATypeOK, FlagTypes
  <1>12. CASE SessionAbort
    BY <1>12 DEF SessionAbort, queues, inbox, tools, loopVars, archive, lists, history, ATypeOK, FlagTypes
  <1>13. CASE AbortRun
    BY <1>13 DEF AbortRun, Abort, hostVars, queues, inbox, tools, loopVars, archive, lists, history, ATypeOK,
        FlagTypes
  <1>14. ASSUME NEW m \in Messages,
               PromptCall(m) \/ Queue(m) \/ PreflightFails(m) \/ PreflightCompacts(m) \/
               SleepCancelled(m) \/ PrepareRetry(m) \/ PostChecked(m) \/ SleepOver(m) \/
               CompactDone(m) \/ CompactFails(m)
        PROVE  FlagTypes'
    <2>1. UNCHANGED <<skip, aborted, sequential, torn, active, stop>>
      BY <1>14 DEF PromptCall, Queue, Steer, FollowUp, PreflightFails, PreflightCompacts, RecoverOverflow,
          CompactBySize, Crossing, SleepCancelled, CheckCompaction, PrepareRetry, PostChecked, SleepOver,
          CompactDone, Compacted, AppendCompaction, CompactFails, queues, inbox, tools, loopVars, archive,
          lists, history
    <2>2. QED
      BY <2>1 DEF ATypeOK, FlagTypes
  <1>15. ASSUME NEW m \in Messages, RunRejected(m)
        PROVE  FlagTypes'
    BY <1>15 DEF RunRejected, Reject, FinishRun, Settle, queues, inbox, tools, loopVars, archive, lists,
        history, ATypeOK, FlagTypes
  <1>16. ASSUME NEW m \in Messages, BeginRun(m)
        PROVE  FlagTypes'
    BY <1>16 DEF BeginRun, Prompt, Open, Settle, queues, inbox, tools, loopVars, archive, lists, history,
        ATypeOK, FlagTypes
  <1>17. ASSUME NEW m \in Messages, RunFinished(m)
        PROVE  FlagTypes'
    BY <1>17 DEF RunFinished, Finish, FinishRun, queues, inbox, tools, loopVars, archive, lists, history,
        ATypeOK, FlagTypes
  <1>18. ASSUME NEW m \in Messages, PostStopped(m)
        PROVE  FlagTypes'
    BY <1>18 DEF PostStopped, Settle, queues, inbox, tools, loopVars, archive, lists, history, ATypeOK,
        FlagTypes
  <1>19. ASSUME NEW m \in Messages, ContinueRun(m)
        PROVE  FlagTypes'
    BY <1>19 DEF ContinueRun, Continue, Open, queues, inbox, tools, loopVars, archive, lists, history,
        ATypeOK, FlagTypes
  <1>20. ASSUME NEW m \in Messages, ContinueThrows(m)
        PROVE  FlagTypes'
    BY <1>20 DEF ContinueThrows, Settle, queues, inbox, tools, loopVars, archive, lists, history, ATypeOK,
        FlagTypes
  <1>21. ASSUME NEW m \in Messages, Done(m)
        PROVE  FlagTypes'
    BY <1>21 DEF Done, Settle, queues, inbox, tools, loopVars, archive, lists, history, ATypeOK, FlagTypes
  <1>22. QED
    BY <1>1, <1>2, <1>3, <1>4, <1>5, <1>6, <1>7, <1>8, <1>9, <1>10, <1>11, <1>12, <1>13, <1>14, <1>15, <1>16,
        <1>17, <1>18, <1>19, <1>20, <1>21 DEF SNext, Loop, LoopStep, HostStep, Persist, Calm

\* The queues and what a run holds of messages.
LEMMA QueueTypesKept ==
  ASSUME ATypeOK, SNext
  PROVE  QueueTypes'
  <1>1. CASE (PrepareParallel \/ LaunchParallel \/ RunSequential \/ ToolEnds \/ EmitResult \/ BatchDone) /\ Persist
    <2>1. UNCHANGED <<steering, followUp, prompts, pending>>
      BY <1>1 DEF PrepareParallel, Persist, HandleMessages, Calm, LaunchParallel, RunSequential, ToolEnds,
          EmitResult, BatchDone, queues, inbox, tools, loopVars, archive, lists, history
    <2>2. QED
      BY <2>1 DEF ATypeOK, QueueTypes
  <1>2. CASE EmitPrompt /\ Persist
    BY HeadTailProperties, <1>2 DEF EmitPrompt, Persist, HandleMessages, Calm, queues, inbox, tools, loopVars,
        archive, lists, history, ATypeOK, QueueTypes
  <1>3. CASE InitialPoll /\ Persist
    BY QueueFacts, <1>3 DEF InitialPoll, Poll, Persist, HandleMessages, Calm, queues, inbox, tools, loopVars,
        archive, lists, history, ATypeOK, QueueTypes
  <1>4. CASE Inject /\ Persist
    BY HeadTailProperties, <1>4 DEF Inject, Persist, HandleMessages, Calm, queues, inbox, tools, loopVars,
        archive, lists, history, ATypeOK, QueueTypes
  <1>5. CASE TurnEnd /\ Persist
    <2>1. /\ steering \in Seq(Nat) /\ followUp \in Seq(Nat) /\ prompts \in Seq(Nat) /\ <<>> \in Seq(Nat)
          /\ Drained(steering) \in Seq(Nat) /\ Rest(steering) \in Seq(Nat)
          /\ Drained(followUp) \in Seq(Nat) /\ Rest(followUp) \in Seq(Nat)
      BY QueueFacts DEF ATypeOK, QueueTypes
    <2>2. /\ steering' \in {steering, Rest(steering)} /\ followUp' \in {followUp, Rest(followUp)}
          /\ pending' \in {<<>>, Drained(steering), Drained(followUp)} /\ prompts' = prompts
      BY <1>5 DEF TurnEnd, Poll
    <2>3. QED
      BY <2>1, <2>2 DEF QueueTypes
  <1>6. CASE PrepareDone /\ Persist
    BY QueueFacts, <1>6 DEF PrepareDone, Poll, Persist, HandleMessages, Calm, queues, inbox, tools, loopVars,
        archive, lists, history, ATypeOK, QueueTypes
  <1>7. ASSUME NEW how \in Outcomes, NEW n \in 0..MaxCalls, Stream(how, n), HandleAnswer(how), Calm
        PROVE  QueueTypes'
    <2>1. UNCHANGED <<steering, followUp, prompts, pending>>
      BY <1>7 DEF Stream, HandleAnswer, Calm, queues, inbox, tools, loopVars, archive, lists, history
    <2>2. QED
      BY <2>1 DEF ATypeOK, QueueTypes
  <1>8. ASSUME NEW how \in Errors \cup {"aborted"}, RecordFailure, HandleAnswer(how), Calm
        PROVE  QueueTypes'
    <2>1. UNCHANGED <<steering, followUp, prompts, pending>>
      BY <1>8 DEF RecordFailure, HandleAnswer, Calm, queues, inbox, tools, loopVars, archive, lists, history
    <2>2. QED
      BY <2>1 DEF ATypeOK, QueueTypes
  <1>9. CASE SessionAbort \/ AbortRun \/ CompactMidRun
    <2>1. UNCHANGED <<steering, followUp, prompts, pending>>
      BY <1>9 DEF SessionAbort, AbortRun, Abort, hostVars, CompactMidRun, Compacted, AppendCompaction, queues,
          inbox, tools, loopVars, archive, lists, history
    <2>2. QED
      BY <2>1 DEF ATypeOK, QueueTypes
  <1>10. CASE ThrowOut
    BY <1>10 DEF ThrowOut, Throw, queues, inbox, tools, loopVars, archive, lists, history, ATypeOK, QueueTypes
  <1>11. CASE ClearQueue
    BY <1>11 DEF ClearQueue, ClearAllQueues, queues, inbox, tools, loopVars, archive, lists, history, ATypeOK,
        QueueTypes
  <1>12. ASSUME NEW m \in Messages,
               PromptCall(m) \/ PreflightFails(m) \/ PreflightCompacts(m) \/ RunRejected(m) \/
               SleepCancelled(m) \/ RunFinished(m) \/ PostStopped(m) \/ PrepareRetry(m) \/
               PostChecked(m) \/ SleepOver(m) \/ CompactDone(m) \/ CompactFails(m) \/
               ContinueThrows(m) \/ Done(m)
        PROVE  QueueTypes'
    <2>1. UNCHANGED <<steering, followUp, prompts, pending>>
      BY <1>12 DEF PromptCall, PreflightFails, PreflightCompacts, RecoverOverflow, CompactBySize, Crossing,
          RunRejected, Reject, FinishRun, Settle, SleepCancelled, CheckCompaction, RunFinished, Finish,
          PostStopped, PrepareRetry, PostChecked, SleepOver, CompactDone, Compacted, AppendCompaction,
          CompactFails, ContinueThrows, Done, queues, inbox, tools, loopVars, archive, lists, history
    <2>2. QED
      BY <2>1 DEF ATypeOK, QueueTypes
  <1>13. ASSUME NEW m \in Messages, Queue(m)
        PROVE  QueueTypes'
    <2>1. m \in Nat
      BY DEF Messages
    <2>2. Append(steering, m) \in Seq(Nat) /\ Append(followUp, m) \in Seq(Nat)
      BY <2>1, AppendProperties DEF ATypeOK, QueueTypes
    <2>3. /\ steering' \in {steering, Append(steering, m)} /\ followUp' \in {followUp, Append(followUp, m)}
          /\ prompts' = prompts /\ pending' = pending
      BY <1>13 DEF Queue, Steer, FollowUp, inbox
    <2>4. QED
      BY <2>2, <2>3 DEF ATypeOK, QueueTypes
  <1>14. ASSUME NEW m \in Messages, BeginRun(m)
        PROVE  QueueTypes'
    <2>1. m \in Nat
      BY DEF Messages
    <2>2. <<m>> \in Seq(Nat) /\ <<>> \in Seq(Nat)
      BY <2>1
    <2>3. /\ steering' = steering /\ followUp' = followUp
          /\ prompts' \in {prompts, <<m>>} /\ pending' \in {pending, <<>>}
      BY <1>14 DEF BeginRun, Prompt, Open, queues, inbox, loopVars
    <2>4. QED
      BY <2>2, <2>3 DEF ATypeOK, QueueTypes
  <1>15. ASSUME NEW m \in Messages, ContinueRun(m)
        PROVE  QueueTypes'
    <2>1. /\ steering \in Seq(Nat) /\ followUp \in Seq(Nat) /\ prompts \in Seq(Nat) /\ <<>> \in Seq(Nat)
          /\ Drained(steering) \in Seq(Nat) /\ Rest(steering) \in Seq(Nat)
          /\ Drained(followUp) \in Seq(Nat) /\ Rest(followUp) \in Seq(Nat)
      BY QueueFacts DEF ATypeOK, QueueTypes
    <2>2. /\ steering' \in {steering, Rest(steering)} /\ followUp' \in {followUp, Rest(followUp)}
          /\ prompts' \in {<<>>, Drained(steering), Drained(followUp)} /\ pending' = <<>>
      BY <1>15 DEF ContinueRun, Continue, Open, queues
    <2>3. QED
      BY <2>1, <2>2 DEF QueueTypes
  <1>16. QED
    BY <1>1, <1>2, <1>3, <1>4, <1>5, <1>6, <1>7, <1>8, <1>9, <1>10, <1>11, <1>12, <1>13, <1>14, <1>15 DEF
        SNext, Loop, LoopStep, HostStep, Persist, Calm

\* The calls of an answer.
LEMMA BatchTypesKept ==
  ASSUME ATypeOK, SNext
  PROVE  BatchTypes'
  <1>1. CASE (EmitPrompt \/ InitialPoll \/ Inject \/ TurnEnd \/ PrepareDone) /\ Persist
    <2>1. UNCHANGED <<batch, left, emitted>>
      BY <1>1 DEF EmitPrompt, Persist, HandleMessages, Calm, InitialPoll, Poll, Inject, TurnEnd, PrepareDone,
          queues, inbox, tools, loopVars, archive, lists, history
    <2>2. QED
      BY <2>1 DEF ATypeOK, BatchTypes
  <1>2. CASE PrepareParallel /\ Persist
    BY AppendProperties, <1>2 DEF PrepareParallel, Persist, HandleMessages, Calm, queues, inbox, tools,
        loopVars, archive, lists, history, ATypeOK, BatchTypes, Calls, Prepared
  <1>3. CASE LaunchParallel /\ Persist
    <2>1. batch \in Seq(Calls) /\ Len(batch) \in Nat /\ DOMAIN batch = 1..Len(batch)
      BY LenProperties DEF ATypeOK, BatchTypes
    <2>2. \A i \in 1..Len(batch) : batch[i] \in Calls
      BY <2>1, ElementOfSeq
    <2>3. batch' \in [1..Len(batch) -> Calls]
      BY <1>3, <2>1, <2>2 DEF LaunchParallel, Calls
    <2>4. batch' \in Seq(Calls)
      BY <2>1, <2>3
    <2>5. QED
      BY <1>3, <2>4 DEF LaunchParallel, ATypeOK, BatchTypes
  <1>4. CASE RunSequential /\ Persist
    BY AppendProperties, <1>4 DEF RunSequential, Persist, HandleMessages, Calm, queues, inbox, tools,
        loopVars, archive, lists, history, ATypeOK, BatchTypes, Calls, Prepared
  <1>5. CASE ToolEnds /\ Persist
    <2>1. PICK i \in DOMAIN batch : batch' = [batch EXCEPT ![i] = "done"]
      BY <1>5 DEF ToolEnds
    <2>2. batch \in Seq(Calls) /\ DOMAIN batch = 1..Len(batch)
      BY LenProperties DEF ATypeOK, BatchTypes
    <2>3. batch' \in Seq(Calls)
      BY <2>1, <2>2, ExceptSeq DEF Calls
    <2>4. QED
      BY <1>5, <2>3 DEF ToolEnds, ATypeOK, BatchTypes
  <1>6. CASE EmitResult /\ Persist
    BY <1>6 DEF EmitResult, Persist, HandleMessages, Calm, queues, inbox, tools, loopVars, archive, lists,
        history, ATypeOK, BatchTypes
  <1>7. CASE BatchDone /\ Persist
    BY <1>7 DEF BatchDone, Persist, HandleMessages, Calm, queues, inbox, tools, loopVars, archive, lists,
        history, ATypeOK, BatchTypes
  <1>8. ASSUME NEW how \in Outcomes, NEW n \in 0..MaxCalls, Stream(how, n), HandleAnswer(how), Calm
        PROVE  BatchTypes'
    <2>1. TruncatedBatch(n) \in Seq(Calls) /\ <<>> \in Seq(Calls)
      <3>1. n \in Nat /\ TruncatedBatch(n) \in [1..n -> Calls]
        BY DEF TruncatedBatch, Calls
      <3>2. QED
        BY <3>1
    <2>2. left' \in {0, n} /\ batch' \in {TruncatedBatch(n), <<>>}
      BY <1>8 DEF Stream
    <2>3. emitted' = 0 /\ n \in Nat
      BY <1>8 DEF Stream
    <2>4. batch' \in Seq(Calls)
      BY <2>1, <2>2
    <2>5. left' \in Nat
      BY <2>2, <2>3
    <2>6. QED
      BY <2>3, <2>4, <2>5 DEF BatchTypes
  <1>9. ASSUME NEW how \in Errors \cup {"aborted"}, RecordFailure, HandleAnswer(how), Calm
        PROVE  BatchTypes'
    <2>1. UNCHANGED <<batch, left, emitted>>
      BY <1>9 DEF RecordFailure, HandleAnswer, Calm, queues, inbox, tools, loopVars, archive, lists, history
    <2>2. QED
      BY <2>1 DEF ATypeOK, BatchTypes
  <1>10. CASE ClearQueue \/ SessionAbort \/ AbortRun \/ CompactMidRun
    <2>1. UNCHANGED <<batch, left, emitted>>
      BY <1>10 DEF ClearQueue, ClearAllQueues, SessionAbort, AbortRun, Abort, hostVars, CompactMidRun,
          Compacted, AppendCompaction, queues, inbox, tools, loopVars, archive, lists, history
    <2>2. QED
      BY <2>1 DEF ATypeOK, BatchTypes
  <1>11. CASE ThrowOut
    BY <1>11 DEF ThrowOut, Throw, queues, inbox, tools, loopVars, archive, lists, history, ATypeOK, BatchTypes
  <1>12. ASSUME NEW m \in Messages,
               PromptCall(m) \/ Queue(m) \/ PreflightFails(m) \/ PreflightCompacts(m) \/
               RunRejected(m) \/ SleepCancelled(m) \/ BeginRun(m) \/ RunFinished(m) \/
               PostStopped(m) \/ PrepareRetry(m) \/ PostChecked(m) \/ SleepOver(m) \/ CompactDone(m)
               \/ CompactFails(m) \/ ContinueRun(m) \/ ContinueThrows(m) \/ Done(m)
        PROVE  BatchTypes'
    <2>1. UNCHANGED <<batch, left, emitted>>
      BY <1>12 DEF PromptCall, Queue, Steer, FollowUp, PreflightFails, PreflightCompacts, RecoverOverflow,
          CompactBySize, Crossing, RunRejected, Reject, FinishRun, Settle, SleepCancelled, CheckCompaction,
          BeginRun, Prompt, Open, RunFinished, Finish, PostStopped, PrepareRetry, PostChecked, SleepOver,
          CompactDone, Compacted, AppendCompaction, CompactFails, ContinueRun, Continue, ContinueThrows, Done,
          queues, inbox, tools, loopVars, archive, lists, history
    <2>2. QED
      BY <2>1 DEF ATypeOK, BatchTypes
  <1>13. QED
    BY <1>1, <1>2, <1>3, <1>4, <1>5, <1>6, <1>7, <1>8, <1>9, <1>10, <1>11, <1>12 DEF SNext, Loop, LoopStep,
        HostStep, Persist, Calm

\* Where the prompt() calls are.
LEMMA HostTypesKept ==
  ASSUME ATypeOK, SNext
  PROVE  HostTypes'
  <1>1. CASE (EmitPrompt \/ InitialPoll \/ Inject \/ PrepareParallel \/ LaunchParallel \/ RunSequential \/ ToolEnds \/
    EmitResult \/ BatchDone \/ TurnEnd \/ PrepareDone) /\ Persist
    <2>1. UNCHANGED <<limits, host, last>>
      BY <1>1 DEF EmitPrompt, Persist, HandleMessages, Calm, InitialPoll, Poll, Inject, PrepareParallel,
          LaunchParallel, RunSequential, ToolEnds, EmitResult, BatchDone, TurnEnd, PrepareDone, queues, inbox,
          tools, loopVars, archive, lists, history
    <2>2. QED
      BY <2>1 DEF ATypeOK, HostTypes, StepTypes, Messages
  <1>2. ASSUME NEW how \in Outcomes, NEW n \in 0..MaxCalls, Stream(how, n), HandleAnswer(how), Calm
        PROVE  HostTypes'
    BY <1>2 DEF Stream, HandleAnswer, Calm, queues, inbox, tools, loopVars, archive, lists, history, ATypeOK,
        HostTypes, StepTypes, Messages
  <1>3. ASSUME NEW how \in Errors \cup {"aborted"}, RecordFailure, HandleAnswer(how), Calm
        PROVE  HostTypes'
    BY <1>3 DEF RecordFailure, HandleAnswer, Calm, queues, inbox, tools, loopVars, archive, lists, history,
        ATypeOK, HostTypes, StepTypes, Messages, Outcomes, Errors
  <1>4. CASE ThrowOut \/ ClearQueue \/ SessionAbort \/ AbortRun \/ CompactMidRun
    <2>1. UNCHANGED <<limits, host, last>>
      BY <1>4 DEF ThrowOut, Throw, ClearQueue, ClearAllQueues, SessionAbort, AbortRun, Abort, hostVars,
          CompactMidRun, Compacted, AppendCompaction, queues, inbox, tools, loopVars, archive, lists, history
    <2>2. QED
      BY <2>1 DEF ATypeOK, HostTypes, StepTypes, Messages
  <1>5. ASSUME NEW m \in Messages,
               Queue(m)
        PROVE  HostTypes'
    <2>1. UNCHANGED <<limits, host, last>>
      BY <1>5 DEF Queue, Steer, FollowUp, queues, inbox, tools, loopVars, archive, lists, history
    <2>2. QED
      BY <2>1 DEF ATypeOK, HostTypes, StepTypes, Messages
  <1>6. ASSUME NEW m \in Messages, PromptCall(m)
        PROVE  HostTypes'
    BY <1>6 DEF PromptCall, queues, inbox, tools, loopVars, archive, lists, history, ATypeOK, HostTypes,
        StepTypes, Messages, Phases, InRun, Preflight
  <1>7. ASSUME NEW m \in Messages, PreflightFails(m)
        PROVE  HostTypes'
    BY <1>7 DEF PreflightFails, queues, inbox, tools, loopVars, archive, lists, history, ATypeOK, HostTypes,
        StepTypes, Messages, Phases, InRun, Preflight
  <1>8. ASSUME NEW m \in Messages, PreflightCompacts(m)
        PROVE  HostTypes'
    BY <1>8 DEF PreflightCompacts, RecoverOverflow, CompactBySize, Crossing, queues, inbox, tools, loopVars,
        archive, lists, history, ATypeOK, HostTypes, StepTypes, Messages, Phases, InRun, Preflight
  <1>9. ASSUME NEW m \in Messages, RunRejected(m)
        PROVE  HostTypes'
    BY <1>9 DEF RunRejected, Reject, FinishRun, Settle, queues, inbox, tools, loopVars, archive, lists,
        history, ATypeOK, HostTypes, StepTypes, Messages, Phases, InRun, Preflight
  <1>10. ASSUME NEW m \in Messages, SleepCancelled(m)
        PROVE  HostTypes'
    BY <1>10 DEF SleepCancelled, CheckCompaction, RecoverOverflow, CompactBySize, Crossing, queues, inbox,
        tools, loopVars, archive, lists, history, ATypeOK, HostTypes, StepTypes, Messages, Phases, InRun,
        Preflight
  <1>11. ASSUME NEW m \in Messages, BeginRun(m)
        PROVE  HostTypes'
    BY <1>11 DEF BeginRun, Prompt, Open, Settle, queues, inbox, tools, loopVars, archive, lists, history,
        ATypeOK, HostTypes, StepTypes, Messages, Phases, InRun, Preflight
  <1>12. ASSUME NEW m \in Messages, RunFinished(m)
        PROVE  HostTypes'
    BY <1>12 DEF RunFinished, Finish, FinishRun, queues, inbox, tools, loopVars, archive, lists, history,
        ATypeOK, HostTypes, StepTypes, Messages, Phases, InRun, Preflight
  <1>13. ASSUME NEW m \in Messages, PostStopped(m)
        PROVE  HostTypes'
    BY <1>13 DEF PostStopped, Settle, queues, inbox, tools, loopVars, archive, lists, history, ATypeOK,
        HostTypes, StepTypes, Messages, Phases, InRun, Preflight
  <1>14. ASSUME NEW m \in Messages, PrepareRetry(m)
        PROVE  HostTypes'
    BY <1>14 DEF PrepareRetry, Crossing, queues, inbox, tools, loopVars, archive, lists, history, ATypeOK,
        HostTypes, StepTypes, Messages, Phases, InRun, Preflight
  <1>15. ASSUME NEW m \in Messages, PostChecked(m)
        PROVE  HostTypes'
    BY <1>15 DEF PostChecked, CheckCompaction, RecoverOverflow, CompactBySize, Crossing, queues, inbox, tools,
        loopVars, archive, lists, history, ATypeOK, HostTypes, StepTypes, Messages, Phases, InRun, Preflight
  <1>16. ASSUME NEW m \in Messages, SleepOver(m)
        PROVE  HostTypes'
    BY <1>16 DEF SleepOver, queues, inbox, tools, loopVars, archive, lists, history, ATypeOK, HostTypes,
        StepTypes, Messages, Phases, InRun, Preflight
  <1>17. ASSUME NEW m \in Messages, CompactDone(m)
        PROVE  HostTypes'
    BY <1>17 DEF CompactDone, Compacted, AppendCompaction, Crossing, queues, inbox, tools, loopVars, archive,
        lists, history, ATypeOK, HostTypes, StepTypes, Messages, Phases, InRun, Preflight, AfterCompaction,
        Compacting
  <1>18. ASSUME NEW m \in Messages, CompactFails(m)
        PROVE  HostTypes'
    BY <1>18 DEF CompactFails, queues, inbox, tools, loopVars, archive, lists, history, ATypeOK, HostTypes,
        StepTypes, Messages, Phases, InRun, Preflight, AfterCompaction, Compacting
  <1>19. ASSUME NEW m \in Messages, ContinueRun(m)
        PROVE  HostTypes'
    BY <1>19 DEF ContinueRun, Continue, Open, queues, inbox, tools, loopVars, archive, lists, history,
        ATypeOK, HostTypes, StepTypes, Messages, Phases, InRun, Preflight
  <1>20. ASSUME NEW m \in Messages, ContinueThrows(m)
        PROVE  HostTypes'
    BY <1>20 DEF ContinueThrows, Settle, queues, inbox, tools, loopVars, archive, lists, history, ATypeOK,
        HostTypes, StepTypes, Messages, Phases, InRun, Preflight
  <1>21. ASSUME NEW m \in Messages, Done(m)
        PROVE  HostTypes'
    BY <1>21 DEF Done, Settle, queues, inbox, tools, loopVars, archive, lists, history, ATypeOK, HostTypes,
        StepTypes, Messages, Phases, InRun, Preflight
  <1>22. QED
    BY <1>1, <1>2, <1>3, <1>4, <1>5, <1>6, <1>7, <1>8, <1>9, <1>10, <1>11, <1>12, <1>13, <1>14, <1>15, <1>16,
        <1>17, <1>18, <1>19, <1>20, <1>21 DEF SNext, Loop, LoopStep, HostStep, Persist, Calm

\* Removing a trailing answer leaves a sequence of messages.
LEMMA DropTypes ==
  ASSUME NEW s \in Seq(Entry)
  PROVE  /\ DropAssistant(s) \in Seq(Entry)
         /\ DropFailed(s) \in Seq(Entry)
  BY WithoutLastFacts DEF DropAssistant, DropFailed, EndsWithAssistant

\* What a compaction makes of the log and of the transcript.
LEMMA CompactedShape ==
  ASSUME log \in Seq(Entry), NEW cut \in CutPoints, NEW drop \in BOOLEAN, Compacted(cut, drop)
  PROVE  /\ cut \in 2..Len(log) /\ log[cut].role # "toolResult"
         /\ Kept(cut) \in Seq(Entry) /\ BuildSessionContext(Kept(cut)) \in Seq(Entry)
         /\ log' = Append(Kept(cut), CompactionEntry)
         /\ transcript' \in {BuildSessionContext(Kept(cut)), DropFailed(BuildSessionContext(Kept(cut)))}
         /\ ~drop => transcript' = BuildSessionContext(Kept(cut))
  <1>1. cut \in 2..Len(log) /\ log[cut].role # "toolResult"
    BY DEF CutPoints
  <1>2. Kept(cut) \in Seq(Entry)
    BY <1>1, KeptFacts DEF Kept
  <1>3. BuildSessionContext(Kept(cut)) \in Seq(Entry)
    BY <1>2, BuildFacts
  <1>4. QED
    BY <1>1, <1>2, <1>3 DEF Compacted, AppendCompaction

\* A user message of the run goes to the transcript and to the log.
LEMMA EmitShape ==
  ASSUME ATypeOK, EmitPrompt \/ Inject, Persist
  PROVE  \E m \in Nat : /\ transcript' = Append(transcript, User(m)) /\ log' = Append(log, User(m))
                        /\ EmitPrompt => context' = context /\ m = Head(prompts)
                        /\ Inject => context' = Append(context, User(m)) /\ m = Head(pending)
  <1>1. CASE EmitPrompt
    <2>1. PICK m \in Nat : m = Head(prompts) /\ transcript' = Append(transcript, User(m)) /\ context' = context
      BY <1>1, HeadTailProperties DEF ATypeOK, QueueTypes, EmitPrompt
    <2>2. run # "turn"
      BY <1>1 DEF EmitPrompt
    <2>3. log' = Append(log, User(m))
      BY <2>1, EntryFacts, PersistOne DEF ATypeOK, MessageTypes
    <2>4. QED
      BY <2>1, <2>2, <2>3 DEF Inject
  <1>2. CASE Inject
    <2>1. PICK m \in Nat : /\ m = Head(pending) /\ transcript' = Append(transcript, User(m))
                           /\ context' = Append(context, User(m))
      BY <1>2, HeadTailProperties DEF ATypeOK, QueueTypes, Inject
    <2>2. run # "prompts"
      BY <1>2 DEF Inject
    <2>3. log' = Append(log, User(m))
      BY <2>1, EntryFacts, PersistOne DEF ATypeOK, MessageTypes
    <2>4. QED
      BY <2>1, <2>2, <2>3 DEF EmitPrompt
  <1>3. QED
    BY <1>1, <1>2

\* An emitted result goes to the transcript and to the log.
LEMMA ResultShape ==
  ASSUME ATypeOK, EmitResult, Persist
  PROVE  /\ emitted + 1 \in Nat /\ ToolResult(emitted + 1) \in Entry
         /\ transcript' = Append(transcript, ToolResult(emitted + 1))
         /\ log' = Append(log, ToolResult(emitted + 1))
  <1>1. emitted + 1 \in Nat /\ transcript' = Append(transcript, ToolResult(emitted + 1))
    BY DEF ATypeOK, BatchTypes, EmitResult
  <1>2. ToolResult(emitted + 1) \in Entry
    BY <1>1, EntryFacts
  <1>3. QED
    BY <1>1, <1>2, PersistOne DEF ATypeOK, MessageTypes

\* What is recorded of an answer is its last message.
LEMMA RecordedLast ==
  ASSUME transcript \in Seq(Entry), NEW e \in Entry, transcript' = Append(transcript, e),
         log' = Append(log, Last(transcript'))
  PROVE  log' = Append(log, e)
  <1>1. PICK t : t = transcript'
    OBVIOUS
  <1>2. Len(t) = Len(transcript) + 1 /\ t[Len(transcript) + 1] = e
    BY <1>1, AppendFacts
  <1>3. Last(t) = e
    BY <1>2 DEF Last
  <1>4. QED
    BY <1>1, <1>3

\* An answer goes to the transcript, the context and the log.
LEMMA AnswerShape ==
  ASSUME ATypeOK, NEW how \in Outcomes, NEW n \in 0..MaxCalls, Stream(how, n), HandleAnswer(how)
  PROVE  LET a == Assistant(StopReason(how), n)
         IN  /\ a \in Entry /\ a.role = "assistant" /\ a.stopReason = StopReason(how) /\ a.calls = n /\ n \in Nat
             /\ transcript' = Append(transcript, a) /\ context' = Append(context, a)
             /\ log' = Append(log, a)
  <1>1. StopReason(how) \in Stops /\ n \in Nat
    BY DEF StopReason, Stops, Outcomes, Errors
  <1>2. PICK a \in Entry : /\ a = Assistant(StopReason(how), n)
                         /\ a.role = "assistant" /\ a.stopReason = StopReason(how) /\ a.calls = n
    BY <1>1, EntryFacts
  <1>3. transcript' = Append(transcript, a) /\ context' = Append(context, a)
    BY <1>2 DEF Stream
  <1>4. log' = Append(log, a)
    BY <1>3, RecordedLast DEF ATypeOK, MessageTypes, HandleAnswer
  <1>5. QED
    BY <1>1, <1>2, <1>3, <1>4

\* A failure is an answer without calls.
LEMMA FailureShape ==
  ASSUME ATypeOK, NEW how, RecordFailure, HandleAnswer(how)
  PROVE  \E a \in Entry : /\ a.role = "assistant" /\ a.calls = 0
                          /\ transcript' = Append(transcript, a) /\ log' = Append(log, a)
  <1>1. PICK s \in Stops : s = IF aborted THEN "aborted" ELSE "error"
    BY DEF Stops
  <1>2. PICK a \in Entry : a = Assistant(s, 0) /\ a.role = "assistant" /\ a.calls = 0
    BY EntryFacts
  <1>3. transcript' = Append(transcript, a)
    BY <1>1, <1>2 DEF RecordFailure
  <1>4. log' = Append(log, a)
    BY <1>3, RecordedLast DEF ATypeOK, MessageTypes, HandleAnswer
  <1>5. QED
    BY <1>2, <1>3, <1>4

\* Appending one message keeps the types of the three sequences.
LEMMA MessageAppended ==
  ASSUME MessageTypes, NEW e \in Entry, transcript' = Append(transcript, e), log' = Append(log, e),
         context' \in {context, Append(context, e)}
  PROVE  MessageTypes'
  <1>1. Append(transcript, e) \in Seq(Entry) /\ Append(log, e) \in Seq(Entry) /\ Append(context, e) \in Seq(Entry)
    BY AppendProperties DEF MessageTypes
  <1>2. QED
    BY <1>1 DEF MessageTypes

\* The transcript, the context and the log.
LEMMA MessageTypesKept ==
  ASSUME ATypeOK, SNext
  PROVE  MessageTypes'
  <1>1. CASE (InitialPoll \/ PrepareParallel \/ LaunchParallel \/ RunSequential \/ ToolEnds \/ TurnEnd \/ PrepareDone) /\ Persist
    <2>1. UNCHANGED <<transcript, context>>
      BY <1>1 DEF InitialPoll, Poll, Persist, HandleMessages, Calm, PrepareParallel, LaunchParallel,
          RunSequential, ToolEnds, TurnEnd, PrepareDone, queues, inbox, tools, loopVars, archive, lists,
          history
    <2>2. log' = log
      BY <1>1, <2>1, PersistNone DEF ATypeOK, MessageTypes
    <2>3. QED
      BY <2>1, <2>2 DEF ATypeOK, MessageTypes
  <1>2. CASE EmitPrompt /\ Persist
    <2>1. PICK k \in Nat : /\ transcript' = Append(transcript, User(k)) /\ log' = Append(log, User(k))
                           /\ context' \in {context, Append(context, User(k))}
      BY <1>2, EmitShape
    <2>2. User(k) \in Entry
      BY EntryFacts
    <2>3. QED
      BY <2>1, <2>2, MessageAppended DEF ATypeOK
  <1>3. CASE Inject /\ Persist
    <2>1. PICK k \in Nat : /\ transcript' = Append(transcript, User(k)) /\ log' = Append(log, User(k))
                           /\ context' \in {context, Append(context, User(k))}
      BY <1>3, EmitShape
    <2>2. User(k) \in Entry
      BY EntryFacts
    <2>3. QED
      BY <2>1, <2>2, MessageAppended DEF ATypeOK
  <1>4. CASE EmitResult /\ Persist
    <2>1. context' = context
      BY <1>4 DEF EmitResult
    <2>2. QED
      BY <1>4, <2>1, ResultShape, MessageAppended DEF ATypeOK
  <1>5. CASE BatchDone /\ Persist
    <2>1. transcript' = transcript /\ context' = context \o Results(emitted)
      BY <1>5 DEF BatchDone
    <2>2. log' = log
      BY <1>5, <2>1, PersistNone DEF ATypeOK, MessageTypes
    <2>3. Results(emitted) \in Seq(Entry)
      BY ResultsFacts DEF ATypeOK, BatchTypes
    <2>4. context' \in Seq(Entry)
      BY <2>1, <2>3, ConcatProperties DEF ATypeOK, MessageTypes
    <2>5. QED
      BY <2>1, <2>2, <2>4 DEF ATypeOK, MessageTypes
  <1>6. ASSUME NEW how \in Outcomes, NEW n \in 0..MaxCalls, Stream(how, n), HandleAnswer(how), Calm
        PROVE  MessageTypes'
    <2>1. PICK a \in Entry : /\ transcript' = Append(transcript, a) /\ context' = Append(context, a)
                             /\ log' = Append(log, a)
      BY <1>6, AnswerShape
    <2>2. QED
      BY <2>1, MessageAppended DEF ATypeOK
  <1>7. ASSUME NEW how \in Errors \cup {"aborted"}, RecordFailure, HandleAnswer(how), Calm
        PROVE  MessageTypes'
    <2>1. context' = context
      BY <1>7 DEF RecordFailure
    <2>2. QED
      BY <1>7, <2>1, FailureShape, MessageAppended DEF ATypeOK
  <1>8. CASE ThrowOut \/ ClearQueue \/ SessionAbort \/ AbortRun
    <2>1. UNCHANGED <<transcript, context, log>>
      BY <1>8 DEF ThrowOut, Throw, ClearQueue, ClearAllQueues, SessionAbort, AbortRun, Abort, hostVars,
          queues, inbox, tools, loopVars, archive, lists, history
    <2>2. QED
      BY <2>1 DEF ATypeOK, MessageTypes
  <1>9. CASE CompactMidRun
    <2>1. PICK cut \in CutPoints, drop \in BOOLEAN : Compacted(cut, drop)
      BY <1>9 DEF CompactMidRun
    <2>2. /\ Kept(cut) \in Seq(Entry) /\ BuildSessionContext(Kept(cut)) \in Seq(Entry)
          /\ log' = Append(Kept(cut), CompactionEntry)
          /\ transcript' \in {BuildSessionContext(Kept(cut)), DropFailed(BuildSessionContext(Kept(cut)))}
      BY <2>1, CompactedShape DEF ATypeOK, MessageTypes
    <2>3. transcript' \in Seq(Entry)
      BY <2>2, DropTypes
    <2>4. log' \in Seq(Entry)
      BY <2>2, EntryFacts, AppendProperties
    <2>5. context' \in {context, transcript'}
      BY <1>9 DEF CompactMidRun
    <2>6. QED
      BY <2>3, <2>4, <2>5 DEF ATypeOK, MessageTypes
  <1>10. ASSUME NEW m \in Messages,
               PromptCall(m) \/ Queue(m) \/ PreflightFails(m) \/ PostStopped(m) \/ SleepOver(m) \/
               CompactFails(m) \/ ContinueThrows(m) \/ Done(m)
        PROVE  MessageTypes'
    <2>1. UNCHANGED <<transcript, context, log>>
      BY <1>10 DEF PromptCall, Queue, Steer, FollowUp, PreflightFails, PostStopped, Settle, SleepOver,
          CompactFails, ContinueThrows, Done, queues, inbox, tools, loopVars, archive, lists, history
    <2>2. QED
      BY <2>1 DEF ATypeOK, MessageTypes
  <1>11. ASSUME NEW m \in Messages, PreflightCompacts(m)
        PROVE  MessageTypes'
    BY DropTypes, <1>11 DEF PreflightCompacts, RecoverOverflow, CompactBySize, Crossing, queues, inbox, tools,
        loopVars, archive, lists, history, ATypeOK, MessageTypes
  <1>12. ASSUME NEW m \in Messages, RunRejected(m)
        PROVE  MessageTypes'
    BY <1>12 DEF RunRejected, Reject, FinishRun, Settle, queues, inbox, tools, loopVars, archive, lists,
        history, ATypeOK, MessageTypes
  <1>13. ASSUME NEW m \in Messages, SleepCancelled(m)
        PROVE  MessageTypes'
    BY DropTypes, <1>13 DEF SleepCancelled, CheckCompaction, RecoverOverflow, CompactBySize, Crossing, queues,
        inbox, tools, loopVars, archive, lists, history, ATypeOK, MessageTypes
  <1>14. ASSUME NEW m \in Messages, BeginRun(m)
        PROVE  MessageTypes'
    <2>1. <<m>> \in Seq(Nat)
      BY DEF Messages
    <2>2. transcript \o Users(<<m>>) \in Seq(Entry)
      BY <2>1, UsersFacts, ConcatProperties DEF ATypeOK, MessageTypes
    <2>3. transcript' = transcript /\ log' = log /\ context' \in {context, transcript \o Users(<<m>>)}
      BY <1>14 DEF BeginRun, Prompt, Open, loopVars
    <2>4. QED
      BY <2>2, <2>3 DEF ATypeOK, MessageTypes
  <1>15. ASSUME NEW m \in Messages, RunFinished(m)
        PROVE  MessageTypes'
    BY <1>15 DEF RunFinished, Finish, FinishRun, queues, inbox, tools, loopVars, archive, lists, history,
        ATypeOK, MessageTypes
  <1>16. ASSUME NEW m \in Messages, PrepareRetry(m)
        PROVE  MessageTypes'
    BY DropTypes, <1>16 DEF PrepareRetry, Crossing, queues, inbox, tools, loopVars, archive, lists, history,
        ATypeOK, MessageTypes
  <1>17. ASSUME NEW m \in Messages, PostChecked(m)
        PROVE  MessageTypes'
    BY DropTypes, <1>17 DEF PostChecked, CheckCompaction, RecoverOverflow, CompactBySize, Crossing, queues,
        inbox, tools, loopVars, archive, lists, history, ATypeOK, MessageTypes
  <1>18. ASSUME NEW m \in Messages, CompactDone(m)
        PROVE  MessageTypes'
    <2>1. PICK cut \in CutPoints, drop \in BOOLEAN : Compacted(cut, drop)
      <3>1. PICK cut \in CutPoints : Compacted(cut, host[m] \in {"recover", "prerecover"})
        BY <1>18 DEF CompactDone
      <3>2. Compacted(cut, TRUE) \/ Compacted(cut, FALSE)
        BY <3>1 DEF Compacted
      <3>3. QED
        BY <3>2
    <2>2. /\ Kept(cut) \in Seq(Entry) /\ BuildSessionContext(Kept(cut)) \in Seq(Entry)
          /\ log' = Append(Kept(cut), CompactionEntry)
          /\ transcript' \in {BuildSessionContext(Kept(cut)), DropFailed(BuildSessionContext(Kept(cut)))}
      BY <2>1, CompactedShape DEF ATypeOK, MessageTypes
    <2>3. transcript' \in Seq(Entry)
      BY <2>2, DropTypes
    <2>4. log' \in Seq(Entry)
      BY <2>2, EntryFacts, AppendProperties
    <2>5. context' \in {context, transcript'}
      BY <1>18 DEF CompactDone
    <2>6. QED
      BY <2>3, <2>4, <2>5 DEF ATypeOK, MessageTypes
  <1>19. ASSUME NEW m \in Messages, ContinueRun(m)
        PROVE  MessageTypes'
    <2>1. PICK q \in Seq(Nat) : context' = transcript \o Users(q)
      <3>1. <<>> \in Seq(Nat) /\ Drained(steering) \in Seq(Nat) /\ Drained(followUp) \in Seq(Nat)
        BY QueueFacts DEF ATypeOK, QueueTypes
      <3>2. QED
        BY <1>19, <3>1 DEF ContinueRun, Continue, Open
    <2>2. transcript \o Users(q) \in Seq(Entry)
      BY UsersFacts, ConcatProperties DEF ATypeOK, MessageTypes
    <2>3. transcript' = transcript /\ log' = log
      BY <1>19 DEF ContinueRun, Continue, Open
    <2>4. QED
      BY <2>1, <2>2, <2>3 DEF ATypeOK, MessageTypes
  <1>20. QED
    BY <1>1, <1>2, <1>3, <1>4, <1>5, <1>6, <1>7, <1>8, <1>9, <1>10, <1>11, <1>12, <1>13, <1>14, <1>15, <1>16,
        <1>17, <1>18, <1>19 DEF SNext, Loop, LoopStep, HostStep, Persist, Calm

\* The types hold in every state, of every budget.
THEOREM Types == SSpec => []ATypeOK
  <1>1. SInit => ATypeOK
    <2>1. SUFFICES ASSUME SInit PROVE ATypeOK
      OBVIOUS
    <2>2. StepTypes /\ FlagTypes
      BY <2>1 DEF SInit, Init, StepTypes, FlagTypes, Runs
    <2>3. MessageTypes /\ QueueTypes /\ BatchTypes
      BY <2>1 DEF SInit, Init, MessageTypes, QueueTypes, BatchTypes
    <2>4. HostTypes
      BY <2>1 DEF SInit, HostTypes, Phases
    <2>5. QED
      BY <2>2, <2>3, <2>4 DEF ATypeOK
  <1>2. ASSUME ATypeOK, [SNext]_vars PROVE ATypeOK'
    <2>1. CASE SNext
      BY <1>2, <2>1, StepTypesKept, FlagTypesKept, MessageTypesKept, QueueTypesKept, BatchTypesKept,
         HostTypesKept DEF ATypeOK
    <2>2. CASE UNCHANGED vars
      BY <1>2, <2>2 DEF vars, loopVars, hostVars, ATypeOK, StepTypes, FlagTypes, MessageTypes, QueueTypes,
         BatchTypes, HostTypes, Messages
    <2>3. QED
      BY <1>2, <2>1, <2>2
  <1>3. QED
    BY <1>1, <1>2, PTL DEF SSpec

-----------------------------------------------------------------------------
(***************************************************************************)
(* Steering and tools                                                      *)
(***************************************************************************)

\* A poll of a turn finds a steering message only when no other has.
LEMMA SteerKept ==
  ASSUME ATypeOK, SteerInv, SNext
  PROVE  SteerInv'
  <1>1. CASE (EmitPrompt \/ PrepareParallel \/ LaunchParallel \/ RunSequential \/ ToolEnds \/ EmitResult) /\ Persist
    <2>1. UNCHANGED <<run, steered, skip, pending>>
      BY <1>1 DEF EmitPrompt, Persist, HandleMessages, Calm, PrepareParallel, LaunchParallel, RunSequential,
          ToolEnds, EmitResult, queues, inbox, tools, loopVars, archive, lists, history
    <2>2. QED
      BY <2>1 DEF SteerInv
  <1>2. CASE InitialPoll /\ Persist
    BY QueueFacts, <1>2 DEF InitialPoll, Poll, Persist, HandleMessages, Calm, queues, inbox, tools, loopVars,
        archive, lists, history, SteerInv, ATypeOK, QueueTypes, StepTypes
  <1>3. CASE Inject /\ Persist
    BY <1>3 DEF Inject, Persist, HandleMessages, Calm, queues, inbox, tools, loopVars, archive, lists,
        history, SteerInv
  <1>4. CASE BatchDone /\ Persist
    BY <1>4 DEF BatchDone, Persist, HandleMessages, Calm, queues, inbox, tools, loopVars, archive, lists,
        history, SteerInv
  <1>5. CASE TurnEnd /\ Persist
    <2>1. /\ Len(Drained(steering)) \in Nat /\ Len(Drained(steering)) <= 1
          /\ Drained(steering) = <<>> => Len(Drained(steering)) = 0
      BY QueueFacts DEF ATypeOK, QueueTypes
    <2>2. steered = 0 /\ ~skip
      BY <1>5 DEF TurnEnd, SteerInv
    <2>3. CASE more \/ steering # <<>>
      BY <1>5, <2>1, <2>2, <2>3 DEF TurnEnd, Poll, SteerInv
    <2>4. CASE ~(more \/ steering # <<>>)
      BY <1>5, <2>2, <2>4 DEF TurnEnd, SteerInv
    <2>5. QED
      BY <2>3, <2>4
  <1>6. CASE PrepareDone /\ Persist
    BY QueueFacts, <1>6 DEF PrepareDone, Poll, Persist, HandleMessages, Calm, queues, inbox, tools, loopVars,
        archive, lists, history, SteerInv, ATypeOK, QueueTypes, StepTypes
  <1>7. ASSUME NEW how \in Outcomes, NEW n \in 0..MaxCalls, Stream(how, n), HandleAnswer(how), Calm
        PROVE  SteerInv'
    BY <1>7 DEF Stream, HandleAnswer, Calm, queues, inbox, tools, loopVars, archive, lists, history, SteerInv
  <1>8. ASSUME NEW how \in Errors \cup {"aborted"}, RecordFailure, HandleAnswer(how), Calm
        PROVE  SteerInv'
    BY <1>8 DEF RecordFailure, HandleAnswer, Calm, queues, inbox, tools, loopVars, archive, lists, history,
        SteerInv
  <1>9. CASE ClearQueue \/ SessionAbort \/ AbortRun \/ CompactMidRun
    <2>1. UNCHANGED <<run, steered, skip, pending>>
      BY <1>9 DEF ClearQueue, ClearAllQueues, SessionAbort, AbortRun, Abort, hostVars, CompactMidRun,
          Compacted, AppendCompaction, queues, inbox, tools, loopVars, archive, lists, history
    <2>2. QED
      BY <2>1 DEF SteerInv
  <1>10. CASE ThrowOut
    BY <1>10 DEF ThrowOut, Throw, queues, inbox, tools, loopVars, archive, lists, history, SteerInv
  <1>11. ASSUME NEW m \in Messages,
               PromptCall(m) \/ Queue(m) \/ PreflightFails(m) \/ PreflightCompacts(m) \/
               SleepCancelled(m) \/ PostStopped(m) \/ PrepareRetry(m) \/ PostChecked(m) \/
               SleepOver(m) \/ CompactDone(m) \/ CompactFails(m) \/ ContinueThrows(m) \/ Done(m)
        PROVE  SteerInv'
    <2>1. UNCHANGED <<run, steered, skip, pending>>
      BY <1>11 DEF PromptCall, Queue, Steer, FollowUp, PreflightFails, PreflightCompacts, RecoverOverflow,
          CompactBySize, Crossing, SleepCancelled, CheckCompaction, PostStopped, Settle, PrepareRetry,
          PostChecked, SleepOver, CompactDone, Compacted, AppendCompaction, CompactFails, ContinueThrows,
          Done, queues, inbox, tools, loopVars, archive, lists, history
    <2>2. QED
      BY <2>1 DEF SteerInv
  <1>12. ASSUME NEW m \in Messages, RunRejected(m)
        PROVE  SteerInv'
    BY <1>12 DEF RunRejected, Reject, FinishRun, Settle, queues, inbox, tools, loopVars, archive, lists,
        history, SteerInv
  <1>13. ASSUME NEW m \in Messages, BeginRun(m)
        PROVE  SteerInv'
    BY <1>13 DEF BeginRun, Prompt, Open, Settle, queues, inbox, tools, loopVars, archive, lists, history,
        SteerInv
  <1>14. ASSUME NEW m \in Messages, RunFinished(m)
        PROVE  SteerInv'
    BY <1>14 DEF RunFinished, Finish, FinishRun, queues, inbox, tools, loopVars, archive, lists, history,
        SteerInv
  <1>15. ASSUME NEW m \in Messages, ContinueRun(m)
        PROVE  SteerInv'
    BY <1>15 DEF ContinueRun, Continue, Open, queues, inbox, tools, loopVars, archive, lists, history,
        SteerInv
  <1>16. QED
    BY <1>1, <1>2, <1>3, <1>4, <1>5, <1>6, <1>7, <1>8, <1>9, <1>10, <1>11, <1>12, <1>13, <1>14, <1>15 DEF
        SNext, Loop, LoopStep, HostStep, Persist, Calm

\* In every state, of every budget, a turn has taken at most one steering message.
THEOREM Steering == SSpec => []OneSteeringPerTurn
  <1>1. SInit => SteerInv
    BY DEF SInit, Init, SteerInv
  <1>2. ASSUME ATypeOK, SteerInv, [SNext]_vars PROVE SteerInv'
    BY <1>2, SteerKept DEF SteerInv, vars, loopVars
  <1>3. SteerInv => OneSteeringPerTurn
    BY DEF SteerInv, OneSteeringPerTurn
  <1>4. QED
    BY <1>1, <1>2, <1>3, Types, PTL DEF SSpec

\* After an abort the tools that run were running.
LEMMA StartedKept ==
  ASSUME ATypeOK, aborted, SNext
  PROVE  Started' \subseteq Started
  <1>1. CASE (EmitPrompt \/ InitialPoll \/ Inject \/ EmitResult \/ TurnEnd \/ PrepareDone) /\ Persist
    <2>1. UNCHANGED <<batch>>
      BY <1>1 DEF EmitPrompt, Persist, HandleMessages, Calm, InitialPoll, Poll, Inject, EmitResult, TurnEnd,
          PrepareDone, queues, inbox, tools, loopVars, archive, lists, history
    <2>2. QED
      BY <2>1 DEF Started
  <1>2. CASE PrepareParallel /\ Persist
    <2>1. aborted => batch' = Append(batch, "done")
      BY <1>2 DEF PrepareParallel, Prepared
    <2>2. batch \in Seq(Calls) /\ "done" \in Calls /\ DOMAIN batch = 1..Len(batch)
      BY LenProperties DEF ATypeOK, BatchTypes, Calls
    <2>3. PICK b \in Seq(Calls) : b = Append(batch, "done")
      BY <2>2, AppendFacts
    <2>4. /\ DOMAIN b = 1..Len(batch) + 1 /\ Len(batch) \in Nat
          /\ \A i \in 1..Len(batch) : b[i] = batch[i]
          /\ b[Len(batch) + 1] = "done"
      <3>1. Len(b) = Len(batch) + 1 /\ DOMAIN b = 1..Len(b)
        BY <2>2, <2>3, AppendFacts, LenProperties
      <3>2. QED
        BY <2>2, <2>3, <3>1, AppendFacts
    <2>5. \A i \in DOMAIN b : b[i] = "running" => i \in DOMAIN batch /\ batch[i] = "running"
      BY <2>2, <2>4
    <2>6. QED
      BY <2>1, <2>3, <2>5 DEF Started
  <1>3. CASE LaunchParallel /\ Persist
    BY <1>3 DEF LaunchParallel, Persist, HandleMessages, Calm, queues, inbox, tools, loopVars, archive, lists,
        history, Started
  <1>4. CASE RunSequential /\ Persist
    <2>1. aborted => batch' = Append(batch, "done")
      BY <1>4 DEF RunSequential, Prepared
    <2>2. batch \in Seq(Calls) /\ "done" \in Calls /\ DOMAIN batch = 1..Len(batch)
      BY LenProperties DEF ATypeOK, BatchTypes, Calls
    <2>3. PICK b \in Seq(Calls) : b = Append(batch, "done")
      BY <2>2, AppendFacts
    <2>4. /\ DOMAIN b = 1..Len(batch) + 1 /\ Len(batch) \in Nat
          /\ \A i \in 1..Len(batch) : b[i] = batch[i]
          /\ b[Len(batch) + 1] = "done"
      <3>1. Len(b) = Len(batch) + 1 /\ DOMAIN b = 1..Len(b)
        BY <2>2, <2>3, AppendFacts, LenProperties
      <3>2. QED
        BY <2>2, <2>3, <3>1, AppendFacts
    <2>5. \A i \in DOMAIN b : b[i] = "running" => i \in DOMAIN batch /\ batch[i] = "running"
      BY <2>2, <2>4
    <2>6. QED
      BY <2>1, <2>3, <2>5 DEF Started
  <1>5. CASE ToolEnds /\ Persist
    BY <1>5 DEF ToolEnds, Persist, HandleMessages, Calm, queues, inbox, tools, loopVars, archive, lists,
        history, Started
  <1>6. CASE BatchDone /\ Persist
    BY <1>6 DEF BatchDone, Persist, HandleMessages, Calm, queues, inbox, tools, loopVars, archive, lists,
        history, Started
  <1>7. ASSUME NEW how \in Outcomes, NEW n \in 0..MaxCalls, Stream(how, n), HandleAnswer(how), Calm
        PROVE  Started' \subseteq Started
    <2>1. batch' = TruncatedBatch(n) \/ batch' = <<>>
      BY <1>7 DEF Stream
    <2>2. \A i \in DOMAIN TruncatedBatch(n) : TruncatedBatch(n)[i] # "running"
      BY DEF TruncatedBatch
    <2>3. QED
      BY <2>1, <2>2 DEF Started
  <1>8. ASSUME NEW how \in Errors \cup {"aborted"}, RecordFailure, HandleAnswer(how), Calm
        PROVE  Started' \subseteq Started
    <2>1. UNCHANGED <<batch>>
      BY <1>8 DEF RecordFailure, HandleAnswer, Calm, queues, inbox, tools, loopVars, archive, lists, history
    <2>2. QED
      BY <2>1 DEF Started
  <1>9. CASE ClearQueue \/ SessionAbort \/ AbortRun \/ CompactMidRun
    <2>1. UNCHANGED <<batch>>
      BY <1>9 DEF ClearQueue, ClearAllQueues, SessionAbort, AbortRun, Abort, hostVars, CompactMidRun,
          Compacted, AppendCompaction, queues, inbox, tools, loopVars, archive, lists, history
    <2>2. QED
      BY <2>1 DEF Started
  <1>10. CASE ThrowOut
    BY <1>10 DEF ThrowOut, Throw, queues, inbox, tools, loopVars, archive, lists, history, Started
  <1>11. ASSUME NEW m \in Messages,
               PromptCall(m) \/ Queue(m) \/ PreflightFails(m) \/ PreflightCompacts(m) \/
               RunRejected(m) \/ SleepCancelled(m) \/ BeginRun(m) \/ RunFinished(m) \/
               PostStopped(m) \/ PrepareRetry(m) \/ PostChecked(m) \/ SleepOver(m) \/ CompactDone(m)
               \/ CompactFails(m) \/ ContinueRun(m) \/ ContinueThrows(m) \/ Done(m)
        PROVE  Started' \subseteq Started
    <2>1. UNCHANGED <<batch>>
      BY <1>11 DEF PromptCall, Queue, Steer, FollowUp, PreflightFails, PreflightCompacts, RecoverOverflow,
          CompactBySize, Crossing, RunRejected, Reject, FinishRun, Settle, SleepCancelled, CheckCompaction,
          BeginRun, Prompt, Open, RunFinished, Finish, PostStopped, PrepareRetry, PostChecked, SleepOver,
          CompactDone, Compacted, AppendCompaction, CompactFails, ContinueRun, Continue, ContinueThrows, Done,
          queues, inbox, tools, loopVars, archive, lists, history
    <2>2. QED
      BY <2>1 DEF Started
  <1>12. QED
    BY <1>1, <1>2, <1>3, <1>4, <1>5, <1>6, <1>7, <1>8, <1>9, <1>10, <1>11 DEF SNext, Loop, LoopStep, HostStep,
        Persist, Calm

\* No tool starts once the run is aborted, whatever its batch.
THEOREM NoLateTool == SSpec => NoToolAfterAbort
  <1>1. ASSUME ATypeOK, [SNext]_vars PROVE [aborted => Started' \subseteq Started]_vars
    BY <1>1, StartedKept
  <1>2. QED
    BY <1>1, Types, PTL DEF SSpec, NoToolAfterAbort

-----------------------------------------------------------------------------
(***************************************************************************)
(* The prompt() calls and the run                                          *)
(***************************************************************************)

\* A call is in _runAgentPrompt, in its preflight, or not under way.
LEMMA BusyFacts ==
  ASSUME HostTypes, NEW m \in Messages
  PROVE  /\ Busy(m) <=> host[m] \in InRun
         /\ host[m] \in Phases /\ "none" \notin InRun /\ "run" \in InRun
  BY DEF HostTypes, Phases, Busy, InRun, Preflight

\* A call that is under way moves.
LEMMA FreshMoves ==
  ASSUME HostTypes, FreshInv, limits' = limits, given' = given, NEW m \in Messages, NEW x,
         host[m] # "none", host' = [host EXCEPT ![m] = x]
  PROVE  FreshInv'
  <1>1. Messages' = Messages
    BY DEF Messages
  <1>2. \A k \in Messages : k > given => k # m /\ host'[k] = host[k]
    BY DEF FreshInv, HostTypes
  <1>3. QED
    BY <1>1, <1>2 DEF FreshInv

\* The call m moves to x, and the run with it.
LEMMA HostMoves ==
  ASSUME HostTypes, RunInv, AloneInv, limits' = limits, NEW m \in Messages, NEW x \in Phases,
         host' = [host EXCEPT ![m] = x],
         \/ (host[m] = "run" <=> x = "run") /\ run' = run
         \/ host[m] = "run" /\ x # "run" /\ run' = "idle"
         \/ run = "idle" /\ x = "run" /\ run' = "prompts",
         ~overlap' => ~overlap \/ \A k \in Messages \ {m} : host[k] \notin InRun,
         ~overlap' /\ x \in InRun /\ host[m] \notin InRun => \A k \in Messages \ {m} : host[k] \notin InRun,
         host[m] \notin InRun /\ x \notin InRun => last' = last /\ run' = run,
         x = "run" => run' = "prompts",
         ~overlap' /\ x = "post" => last' # "none"
  PROVE  RunInv' /\ AloneInv'
  <1>1. PICK g : g = host'
    OBVIOUS
  <1>2. PICK M : M = Messages /\ M = Messages'
    BY DEF Messages
  <1>3. m \in M /\ g[m] = x /\ \A k \in M : k # m => g[k] = host[k]
    BY <1>1, <1>2 DEF HostTypes
  <1>4. (run # "idle") <=> (\E k \in M : host[k] = "run")
    BY <1>2 DEF RunInv
  <1>5. \A j, k \in M : (host[j] = "run" /\ host[k] = "run") => j = k
    BY <1>2 DEF RunInv
  <1>6. (run' # "idle") <=> (\E k \in M : g[k] = "run")
    <2>1. CASE (host[m] = "run" <=> x = "run") /\ run' = run
      BY <1>3, <1>4, <2>1
    <2>2. CASE host[m] = "run" /\ x # "run" /\ run' = "idle"
      BY <1>3, <1>5, <2>2
    <2>3. CASE run = "idle" /\ x = "run" /\ run' = "prompts"
      BY <1>3, <2>3
    <2>4. QED
      BY <2>1, <2>2, <2>3
  <1>7. \A j, k \in M : (g[j] = "run" /\ g[k] = "run") => j = k
    <2>1. CASE (host[m] = "run" <=> x = "run") /\ run' = run
      BY <1>3, <1>5, <2>1
    <2>2. CASE host[m] = "run" /\ x # "run" /\ run' = "idle"
      BY <1>3, <1>5, <2>2
    <2>3. CASE run = "idle" /\ x = "run" /\ run' = "prompts"
      BY <1>3, <1>4, <2>3
    <2>4. QED
      BY <2>1, <2>2, <2>3
  <1>8. ASSUME ~overlap', \A k \in M : k # m => host[k] \notin InRun
        PROVE  /\ \A j, k \in M : (g[j] \in InRun /\ g[k] \in InRun) => j = k
               /\ run' \in {"tools", "turnEnd", "prepare", "ending", "failed"} => last' # "none"
               /\ \A k \in M : g[k] = "post" => last' # "none"
    <2>1. \A k \in M : g[k] \in InRun => k = m
      BY <1>3, <1>8
    <2>2. "run" \in InRun /\ "post" \in InRun
      BY DEF InRun
    <2>3. run' \notin {"tools", "turnEnd", "prepare", "ending", "failed"}
      <3>1. SUFFICES ASSUME run' \in {"tools", "turnEnd", "prepare", "ending", "failed"} PROVE FALSE
        OBVIOUS
      <3>2. x = "run"
        BY <1>3, <1>6, <2>1, <2>2, <3>1
      <3>3. QED
        BY <3>1, <3>2
    <2>4. \A k \in M : g[k] = "post" => last' # "none"
      BY <1>3, <1>8, <2>1, <2>2
    <2>5. QED
      BY <2>1, <2>3, <2>4
  <1>9. ASSUME ~overlap', ~overlap, host[m] \notin InRun, x \notin InRun
        PROVE  /\ \A j, k \in M : (g[j] \in InRun /\ g[k] \in InRun) => j = k
               /\ run' \in {"tools", "turnEnd", "prepare", "ending", "failed"} => last' # "none"
               /\ \A k \in M : g[k] = "post" => last' # "none"
    <2>1. \A k \in M : g[k] \in InRun => k # m /\ host[k] = g[k]
      BY <1>3, <1>9
    <2>2. last' = last /\ run' = run /\ "post" \in InRun
      BY <1>9 DEF InRun
    <2>3. QED
      BY <1>2, <1>9, <2>1, <2>2 DEF AloneInv
  <1>10. ASSUME ~overlap, host[m] \in InRun PROVE \A k \in M : k # m => host[k] \notin InRun
    BY <1>2, <1>10 DEF AloneInv
  <1>11. RunInv'
    BY <1>1, <1>2, <1>6, <1>7 DEF RunInv
  <1>12. AloneInv'
    <2>1. SUFFICES ASSUME ~overlap'
                   PROVE  /\ \A j, k \in M : (g[j] \in InRun /\ g[k] \in InRun) => j = k
                          /\ run' \in {"tools", "turnEnd", "prepare", "ending", "failed"} => last' # "none"
                          /\ \A k \in M : g[k] = "post" => last' # "none"
      BY <1>1, <1>2 DEF AloneInv
    <2>2. ~overlap \/ \A k \in M : k # m => host[k] \notin InRun
      BY <1>2, <2>1
    <2>3. x \in InRun /\ host[m] \notin InRun => \A k \in M : k # m => host[k] \notin InRun
      BY <1>2, <2>1
    <2>4. CASE \A k \in M : k # m => host[k] \notin InRun
      BY <1>8, <2>1, <2>4
    <2>5. CASE ~overlap /\ host[m] \notin InRun /\ x \notin InRun
      BY <1>9, <2>1, <2>5
    <2>6. QED
      BY <1>10, <2>2, <2>3, <2>4, <2>5
  <1>13. QED
    BY <1>11, <1>12

\* The run goes on under the same call.
LEMMA HostWaits ==
  ASSUME RunInv, AloneInv, UNCHANGED <<limits, host, overlap>>, run # "idle", run' # "idle",
         run' \in {"tools", "turnEnd", "prepare", "ending", "failed"} => last' # "none" \/ overlap
  PROVE  RunInv' /\ AloneInv'
  <1>1. PICK m \in Messages : host[m] = "run"
    BY DEF RunInv
  <1>2. ~overlap => ~\E k \in Messages : host[k] = "post"
    BY <1>1 DEF AloneInv, InRun
  <1>3. Messages' = Messages
    BY DEF Messages
  <1>4. RunInv'
    BY <1>1, <1>3 DEF RunInv
  <1>5. AloneInv'
    BY <1>2, <1>3 DEF AloneInv
  <1>6. QED
    BY <1>4, <1>5

\* A call is under way for a submitted message only.
LEMMA FreshKept ==
  ASSUME ATypeOK, FreshInv, SNext
  PROVE  FreshInv'
  <1>1. CASE (EmitPrompt \/ InitialPoll \/ Inject \/ PrepareParallel \/ LaunchParallel \/ RunSequential \/ ToolEnds \/
    EmitResult \/ BatchDone \/ TurnEnd \/ PrepareDone) /\ Persist
    <2>1. UNCHANGED <<host, given, limits>>
      BY <1>1 DEF EmitPrompt, Persist, HandleMessages, Calm, InitialPoll, Poll, Inject, PrepareParallel,
          LaunchParallel, RunSequential, ToolEnds, EmitResult, BatchDone, TurnEnd, PrepareDone, queues, inbox,
          tools, loopVars, archive, lists, history
    <2>2. QED
      BY <2>1 DEF FreshInv, Messages
  <1>2. ASSUME NEW how \in Outcomes, NEW n \in 0..MaxCalls, Stream(how, n), HandleAnswer(how), Calm
        PROVE  FreshInv'
    <2>1. UNCHANGED <<host, given, limits>>
      BY <1>2 DEF Stream, HandleAnswer, Calm, queues, inbox, tools, loopVars, archive, lists, history
    <2>2. QED
      BY <2>1 DEF FreshInv, Messages
  <1>3. ASSUME NEW how \in Errors \cup {"aborted"}, RecordFailure, HandleAnswer(how), Calm
        PROVE  FreshInv'
    <2>1. UNCHANGED <<host, given, limits>>
      BY <1>3 DEF RecordFailure, HandleAnswer, Calm, queues, inbox, tools, loopVars, archive, lists, history
    <2>2. QED
      BY <2>1 DEF FreshInv, Messages
  <1>4. CASE ThrowOut \/ ClearQueue \/ SessionAbort \/ AbortRun \/ CompactMidRun
    <2>1. UNCHANGED <<host, given, limits>>
      BY <1>4 DEF ThrowOut, Throw, ClearQueue, ClearAllQueues, SessionAbort, AbortRun, Abort, hostVars,
          CompactMidRun, Compacted, AppendCompaction, queues, inbox, tools, loopVars, archive, lists, history
    <2>2. QED
      BY <2>1 DEF FreshInv, Messages
  <1>5. ASSUME NEW m \in Messages, PromptCall(m)
        PROVE  FreshInv'
    <2>1. PICK g : g = host'
      OBVIOUS
    <2>2. Messages' = Messages /\ given' = given + 1 /\ m = given + 1 /\ given \in Nat
      BY <1>5 DEF PromptCall, FreshInv, Messages, loopVars
    <2>3. \A k \in Messages : k # m => g[k] = host[k]
      BY <1>5, <2>1 DEF PromptCall, HostTypes, ATypeOK
    <2>4. \A k \in Messages : k \in Int
      BY DEF Messages
    <2>5. \A k \in Messages : k > given' => g[k] = "none"
      BY <2>2, <2>3, <2>4 DEF FreshInv
    <2>6. QED
      BY <2>1, <2>2, <2>5 DEF FreshInv
  <1>6. ASSUME NEW m \in Messages, Queue(m)
        PROVE  FreshInv'
    <2>1. Messages' = Messages /\ given' = given + 1 /\ given \in Nat /\ host' = host
      BY <1>6 DEF Queue, Steer, FollowUp, FreshInv, Messages
    <2>2. \A k \in Messages : k \in Int
      BY DEF Messages
    <2>3. QED
      BY <2>1, <2>2 DEF FreshInv
  <1>7. ASSUME NEW m \in Messages, PreflightFails(m)
        PROVE  FreshInv'
    <2>1. /\ host[m] # "none" /\ limits' = limits /\ given' = given
          /\ \E x : host' = [host EXCEPT ![m] = x]
      BY <1>7 DEF PreflightFails, queues, inbox, tools, loopVars, archive, lists, history
    <2>2. QED
      BY <2>1, FreshMoves DEF ATypeOK
  <1>8. ASSUME NEW m \in Messages, PreflightCompacts(m)
        PROVE  FreshInv'
    <2>1. /\ host[m] # "none" /\ limits' = limits /\ given' = given
          /\ \E x : host' = [host EXCEPT ![m] = x]
      BY <1>8 DEF PreflightCompacts, RecoverOverflow, CompactBySize, Crossing, queues, inbox, tools, loopVars,
          archive, lists, history
    <2>2. QED
      BY <2>1, FreshMoves DEF ATypeOK
  <1>9. ASSUME NEW m \in Messages, RunRejected(m)
        PROVE  FreshInv'
    <2>1. /\ host[m] # "none" /\ limits' = limits /\ given' = given
          /\ \E x : host' = [host EXCEPT ![m] = x]
      BY <1>9 DEF RunRejected, Reject, FinishRun, Settle, queues, inbox, tools, loopVars, archive, lists,
          history
    <2>2. QED
      BY <2>1, FreshMoves DEF ATypeOK
  <1>10. ASSUME NEW m \in Messages, SleepCancelled(m)
        PROVE  FreshInv'
    <2>1. /\ host[m] # "none" /\ limits' = limits /\ given' = given
          /\ \E x : host' = [host EXCEPT ![m] = x]
      BY <1>10 DEF SleepCancelled, CheckCompaction, RecoverOverflow, CompactBySize, Crossing, queues, inbox,
          tools, loopVars, archive, lists, history
    <2>2. QED
      BY <2>1, FreshMoves DEF ATypeOK
  <1>11. ASSUME NEW m \in Messages, BeginRun(m)
        PROVE  FreshInv'
    <2>1. /\ host[m] # "none" /\ limits' = limits /\ given' = given
          /\ \E x : host' = [host EXCEPT ![m] = x]
      BY <1>11 DEF BeginRun, Prompt, Open, Settle, queues, inbox, tools, loopVars, archive, lists, history
    <2>2. QED
      BY <2>1, FreshMoves DEF ATypeOK
  <1>12. ASSUME NEW m \in Messages, RunFinished(m)
        PROVE  FreshInv'
    <2>1. /\ host[m] # "none" /\ limits' = limits /\ given' = given
          /\ \E x : host' = [host EXCEPT ![m] = x]
      BY <1>12 DEF RunFinished, Finish, FinishRun, queues, inbox, tools, loopVars, archive, lists, history
    <2>2. QED
      BY <2>1, FreshMoves DEF ATypeOK
  <1>13. ASSUME NEW m \in Messages, PostStopped(m)
        PROVE  FreshInv'
    <2>1. /\ host[m] # "none" /\ limits' = limits /\ given' = given
          /\ \E x : host' = [host EXCEPT ![m] = x]
      BY <1>13 DEF PostStopped, Settle, queues, inbox, tools, loopVars, archive, lists, history
    <2>2. QED
      BY <2>1, FreshMoves DEF ATypeOK
  <1>14. ASSUME NEW m \in Messages, PrepareRetry(m)
        PROVE  FreshInv'
    <2>1. /\ host[m] # "none" /\ limits' = limits /\ given' = given
          /\ \E x : host' = [host EXCEPT ![m] = x]
      BY <1>14 DEF PrepareRetry, Crossing, queues, inbox, tools, loopVars, archive, lists, history
    <2>2. QED
      BY <2>1, FreshMoves DEF ATypeOK
  <1>15. ASSUME NEW m \in Messages, PostChecked(m)
        PROVE  FreshInv'
    <2>1. /\ host[m] # "none" /\ limits' = limits /\ given' = given
          /\ \E x : host' = [host EXCEPT ![m] = x]
      BY <1>15 DEF PostChecked, CheckCompaction, RecoverOverflow, CompactBySize, Crossing, queues, inbox, tools,
          loopVars, archive, lists, history
    <2>2. QED
      BY <2>1, FreshMoves DEF ATypeOK
  <1>16. ASSUME NEW m \in Messages, SleepOver(m)
        PROVE  FreshInv'
    <2>1. /\ host[m] # "none" /\ limits' = limits /\ given' = given
          /\ \E x : host' = [host EXCEPT ![m] = x]
      BY <1>16 DEF SleepOver, queues, inbox, tools, loopVars, archive, lists, history
    <2>2. QED
      BY <2>1, FreshMoves DEF ATypeOK
  <1>17. ASSUME NEW m \in Messages, CompactDone(m)
        PROVE  FreshInv'
    <2>1. /\ host[m] # "none" /\ limits' = limits /\ given' = given
          /\ \E x : host' = [host EXCEPT ![m] = x]
      BY <1>17 DEF CompactDone, Compacted, AppendCompaction, Crossing, queues, inbox, tools, loopVars, archive,
          lists, history, Compacting
    <2>2. QED
      BY <2>1, FreshMoves DEF ATypeOK
  <1>18. ASSUME NEW m \in Messages, CompactFails(m)
        PROVE  FreshInv'
    <2>1. /\ host[m] # "none" /\ limits' = limits /\ given' = given
          /\ \E x : host' = [host EXCEPT ![m] = x]
      BY <1>18 DEF CompactFails, queues, inbox, tools, loopVars, archive, lists, history, Compacting
    <2>2. QED
      BY <2>1, FreshMoves DEF ATypeOK
  <1>19. ASSUME NEW m \in Messages, ContinueRun(m)
        PROVE  FreshInv'
    <2>1. /\ host[m] # "none" /\ limits' = limits /\ given' = given
          /\ \E x : host' = [host EXCEPT ![m] = x]
      BY <1>19 DEF ContinueRun, Continue, Open, queues, inbox, tools, loopVars, archive, lists, history, Deciding
    <2>2. QED
      BY <2>1, FreshMoves DEF ATypeOK
  <1>20. ASSUME NEW m \in Messages, ContinueThrows(m)
        PROVE  FreshInv'
    <2>1. /\ host[m] # "none" /\ limits' = limits /\ given' = given
          /\ \E x : host' = [host EXCEPT ![m] = x]
      BY <1>20 DEF ContinueThrows, Settle, queues, inbox, tools, loopVars, archive, lists, history, Deciding
    <2>2. QED
      BY <2>1, FreshMoves DEF ATypeOK
  <1>21. ASSUME NEW m \in Messages, Done(m)
        PROVE  FreshInv'
    <2>1. /\ host[m] # "none" /\ limits' = limits /\ given' = given
          /\ \E x : host' = [host EXCEPT ![m] = x]
      BY <1>21 DEF Done, Settle, queues, inbox, tools, loopVars, archive, lists, history, Deciding
    <2>2. QED
      BY <2>1, FreshMoves DEF ATypeOK
  <1>22. QED
    BY <1>1, <1>2, <1>3, <1>4, <1>5, <1>6, <1>7, <1>8, <1>9, <1>10, <1>11, <1>12, <1>13, <1>14, <1>15, <1>16,
        <1>17, <1>18, <1>19, <1>20, <1>21 DEF SNext, Loop, LoopStep, HostStep, Persist, Calm

\* The run is that of one call, and while no call overlaps it knows its last answer.
LEMMA RunKept ==
  ASSUME ATypeOK, HostInv, SNext
  PROVE  RunInv' /\ AloneInv'
  <1>1. CASE (EmitPrompt \/ Inject \/ PrepareParallel \/ LaunchParallel \/ RunSequential \/ ToolEnds \/ EmitResult) /\ Persist
    <2>1. UNCHANGED <<run, host, last, overlap, limits>>
      BY <1>1 DEF EmitPrompt, Persist, HandleMessages, Calm, Inject, PrepareParallel, LaunchParallel,
          RunSequential, ToolEnds, EmitResult, queues, inbox, tools, loopVars, archive, lists, history
    <2>2. QED
      BY <2>1 DEF HostInv, RunInv, AloneInv, Messages
  <1>2. CASE InitialPoll /\ Persist
    <2>1. /\ UNCHANGED <<limits, host, overlap>> /\ run # "idle" /\ run' # "idle"
          /\ run' \in {"tools", "turnEnd", "prepare", "ending", "failed"} => last' # "none" \/ overlap
      BY <1>2 DEF InitialPoll, Poll, Persist, HandleMessages, Calm, queues, inbox, tools, loopVars, archive,
          lists, history, HostInv, AloneInv, Outcomes, Errors
    <2>2. QED
      BY <2>1, HostWaits DEF HostInv
  <1>3. CASE BatchDone /\ Persist
    <2>1. /\ UNCHANGED <<limits, host, overlap>> /\ run # "idle" /\ run' # "idle"
          /\ run' \in {"tools", "turnEnd", "prepare", "ending", "failed"} => last' # "none" \/ overlap
      BY <1>3 DEF BatchDone, Persist, HandleMessages, Calm, queues, inbox, tools, loopVars, archive, lists,
          history, HostInv, AloneInv, Outcomes, Errors
    <2>2. QED
      BY <2>1, HostWaits DEF HostInv
  <1>4. CASE TurnEnd /\ Persist
    <2>1. /\ UNCHANGED <<limits, host, overlap>> /\ run # "idle" /\ run' # "idle"
          /\ run' \in {"tools", "turnEnd", "prepare", "ending", "failed"} => last' # "none" \/ overlap
      BY <1>4 DEF TurnEnd, Poll, Persist, HandleMessages, Calm, queues, inbox, tools, loopVars, archive, lists,
          history, HostInv, AloneInv, Outcomes, Errors
    <2>2. QED
      BY <2>1, HostWaits DEF HostInv
  <1>5. CASE PrepareDone /\ Persist
    <2>1. /\ UNCHANGED <<limits, host, overlap>> /\ run # "idle" /\ run' # "idle"
          /\ run' \in {"tools", "turnEnd", "prepare", "ending", "failed"} => last' # "none" \/ overlap
      BY <1>5 DEF PrepareDone, Poll, Persist, HandleMessages, Calm, queues, inbox, tools, loopVars, archive,
          lists, history, HostInv, AloneInv, Outcomes, Errors
    <2>2. QED
      BY <2>1, HostWaits DEF HostInv
  <1>6. ASSUME NEW how \in Outcomes, NEW n \in 0..MaxCalls, Stream(how, n), HandleAnswer(how), Calm
        PROVE  RunInv' /\ AloneInv'
    <2>1. /\ UNCHANGED <<limits, host, overlap>> /\ run # "idle" /\ run' # "idle"
          /\ run' \in {"tools", "turnEnd", "prepare", "ending", "failed"} => last' # "none" \/ overlap
      BY <1>6 DEF Stream, HandleAnswer, Calm, queues, inbox, tools, loopVars, archive, lists, history, HostInv,
          AloneInv, Outcomes, Errors
    <2>2. QED
      BY <2>1, HostWaits DEF HostInv
  <1>7. ASSUME NEW how \in Errors \cup {"aborted"}, RecordFailure, HandleAnswer(how), Calm
        PROVE  RunInv' /\ AloneInv'
    <2>1. /\ UNCHANGED <<limits, host, overlap>> /\ run # "idle" /\ run' # "idle"
          /\ run' \in {"tools", "turnEnd", "prepare", "ending", "failed"} => last' # "none" \/ overlap
      BY <1>7 DEF RecordFailure, HandleAnswer, Calm, queues, inbox, tools, loopVars, archive, lists, history,
          HostInv, AloneInv, Outcomes, Errors
    <2>2. QED
      BY <2>1, HostWaits DEF HostInv
  <1>8. CASE ClearQueue \/ SessionAbort \/ AbortRun \/ CompactMidRun
    <2>1. UNCHANGED <<run, host, last, overlap, limits>>
      BY <1>8 DEF ClearQueue, ClearAllQueues, SessionAbort, AbortRun, Abort, hostVars, CompactMidRun,
          Compacted, AppendCompaction, queues, inbox, tools, loopVars, archive, lists, history
    <2>2. QED
      BY <2>1 DEF HostInv, RunInv, AloneInv, Messages
  <1>9. CASE ThrowOut
    <2>1. /\ UNCHANGED <<limits, host, overlap>> /\ run # "idle" /\ run' # "idle"
          /\ run' \in {"tools", "turnEnd", "prepare", "ending", "failed"} => last' # "none" \/ overlap
      BY <1>9 DEF ThrowOut, Throw, queues, inbox, tools, loopVars, archive, lists, history, HostInv, AloneInv,
          Outcomes, Errors
    <2>2. QED
      BY <2>1, HostWaits DEF HostInv
  <1>10. ASSUME NEW m \in Messages,
               Queue(m)
        PROVE  RunInv' /\ AloneInv'
    <2>1. UNCHANGED <<run, host, last, overlap, limits>>
      BY <1>10 DEF Queue, Steer, FollowUp, queues, inbox, tools, loopVars, archive, lists, history
    <2>2. QED
      BY <2>1 DEF HostInv, RunInv, AloneInv, Messages
  <1>11. ASSUME NEW m \in Messages, PromptCall(m)
        PROVE  RunInv' /\ AloneInv'
    <2>1. limits' = limits /\ host' = [host EXCEPT ![m] = "preflight"] /\ "preflight" \in Phases /\ "preflight" \notin InRun
          /\ run' = run /\ last' = last /\ overlap' = overlap
      BY <1>11 DEF PromptCall, queues, inbox, tools, loopVars, archive, lists, history, Phases, InRun, Preflight
    <2>2. host[m] = "none" /\ "none" \notin InRun
      BY <1>11 DEF PromptCall, HostInv, FreshInv, InRun, Messages
    <2>3. QED
      BY <2>1, <2>2, HostMoves DEF ATypeOK, HostInv, InRun
  <1>12. ASSUME NEW m \in Messages, PreflightFails(m)
        PROVE  RunInv' /\ AloneInv'
    <2>1. limits' = limits /\ host' = [host EXCEPT ![m] = "none"] /\ "none" \in Phases
          /\ run' = run /\ last' = last /\ overlap' = overlap
          /\ host[m] \notin InRun /\ "none" \notin InRun
      BY <1>12 DEF PreflightFails, queues, inbox, tools, loopVars, archive, lists, history, Phases, InRun,
          Preflight
    <2>2. QED
      BY <2>1, HostMoves DEF ATypeOK, HostInv, InRun
  <1>13. ASSUME NEW m \in Messages, PreflightCompacts(m)
        PROVE  RunInv' /\ AloneInv'
    <2>1. /\ limits' = limits /\ run' = run /\ last' = last /\ overlap' = overlap
          /\ host[m] \notin InRun
      BY <1>13 DEF PreflightCompacts, RecoverOverflow, CompactBySize, Crossing, queues, inbox, tools, loopVars,
          archive, lists, history, InRun
    <2>2. PICK x \in {"prerecover", "precompact"} : host' = [host EXCEPT ![m] = x]
      BY <1>13 DEF PreflightCompacts, RecoverOverflow, CompactBySize, Crossing, queues, inbox, tools, loopVars,
          archive, lists, history
    <2>3. x \in Phases /\ x \notin InRun
      BY DEF Phases, Preflight, InRun
    <2>4. QED
      BY <2>1, <2>2, <2>3, HostMoves DEF ATypeOK, HostInv, InRun
  <1>14. ASSUME NEW m \in Messages, RunRejected(m)
        PROVE  RunInv' /\ AloneInv'
    <2>1. limits' = limits /\ host' = [host EXCEPT ![m] = "none"] /\ "none" \in Phases /\ run' = "idle"
          /\ host[m] = "run" /\ "run" \in InRun /\ "none" \notin InRun
      BY <1>14 DEF RunRejected, Reject, FinishRun, Settle, queues, inbox, tools, loopVars, archive, lists,
          history, Phases, InRun, Preflight
    <2>2. ~overlap' => ~overlap \/ \A k \in Messages \ {m} : host[k] \notin InRun
      BY <1>14, BusyFacts DEF RunRejected, Settle, ATypeOK
    <2>3. QED
      BY <2>1, <2>2, HostMoves DEF ATypeOK, HostInv
  <1>15. ASSUME NEW m \in Messages, SleepCancelled(m)
        PROVE  RunInv' /\ AloneInv'
    <2>1. /\ limits' = limits /\ run' = run /\ overlap' = overlap
          /\ host[m] \in InRun /\ host[m] # "run"
      BY <1>15 DEF SleepCancelled, CheckCompaction, RecoverOverflow, CompactBySize, Crossing, queues, inbox,
          tools, loopVars, archive, lists, history, InRun
    <2>2. PICK x \in {"recover", "compact", "decide"} : host' = [host EXCEPT ![m] = x]
      BY <1>15 DEF SleepCancelled, CheckCompaction, RecoverOverflow, CompactBySize, Crossing, queues, inbox,
          tools, loopVars, archive, lists, history
    <2>3. x \in Phases /\ x \in InRun /\ x \notin {"run", "post"}
      BY DEF Phases, InRun
    <2>4. QED
      BY <2>1, <2>2, <2>3, HostMoves DEF ATypeOK, HostInv
  <1>16. ASSUME NEW m \in Messages, BeginRun(m)
        PROVE  RunInv' /\ AloneInv'
    <2>1. limits' = limits /\ last' = last /\ host[m] \notin InRun /\ host[m] # "run"
      BY <1>16 DEF BeginRun, Prompt, Open, Settle, queues, inbox, tools, loopVars, archive, lists, history, InRun
    <2>2. CASE run = "idle"
      <3>1. host' = [host EXCEPT ![m] = "run"] /\ run' = "prompts" /\ "run" \in Phases
        BY <1>16, <2>2 DEF BeginRun, Prompt, Open, Phases, InRun
      <3>2. ~overlap' => ~overlap /\ \A k \in Messages : host[k] \notin InRun
        BY <1>16, <2>2, BusyFacts DEF BeginRun, ATypeOK
      <3>3. QED
        BY <2>1, <2>2, <3>1, <3>2, HostMoves DEF ATypeOK, HostInv, InRun
    <2>3. CASE run # "idle"
      <3>1. host' = [host EXCEPT ![m] = "none"] /\ run' = run /\ "none" \in Phases /\ "none" \notin InRun
        BY <1>16, <2>3 DEF BeginRun, Settle, loopVars, Phases, InRun
      <3>2. ~overlap' => ~overlap \/ \A k \in Messages \ {m} : host[k] \notin InRun
        BY <1>16, <2>3, BusyFacts DEF BeginRun, Settle, ATypeOK
      <3>3. QED
        BY <2>1, <3>1, <3>2, HostMoves DEF ATypeOK, HostInv, InRun
    <2>4. QED
      BY <2>2, <2>3
  <1>17. ASSUME NEW m \in Messages, RunFinished(m)
        PROVE  RunInv' /\ AloneInv'
    <2>1. limits' = limits /\ host' = [host EXCEPT ![m] = "post"] /\ "post" \in Phases /\ run' = "idle" /\ last' = last
          /\ host[m] = "run" /\ "run" \in InRun /\ overlap' = overlap /\ run \in {"ending", "failed"}
      BY <1>17 DEF RunFinished, Finish, FinishRun, queues, inbox, tools, loopVars, archive, lists, history,
          Phases, InRun, Preflight
    <2>2. ~overlap' => last' # "none"
      BY <2>1 DEF HostInv, AloneInv
    <2>3. QED
      BY <2>1, <2>2, HostMoves DEF ATypeOK, HostInv
  <1>18. ASSUME NEW m \in Messages, PostStopped(m)
        PROVE  RunInv' /\ AloneInv'
    <2>1. limits' = limits /\ host' = [host EXCEPT ![m] = "none"] /\ "none" \in Phases /\ run' = run
          /\ host[m] \in InRun /\ host[m] # "run" /\ "none" \notin InRun
      BY <1>18 DEF PostStopped, Settle, queues, inbox, tools, loopVars, archive, lists, history, Phases, InRun,
          Preflight
    <2>2. ~overlap' => ~overlap \/ \A k \in Messages \ {m} : host[k] \notin InRun
      BY <1>18, BusyFacts DEF PostStopped, Settle, ATypeOK
    <2>3. QED
      BY <2>1, <2>2, HostMoves DEF ATypeOK, HostInv
  <1>19. ASSUME NEW m \in Messages, PrepareRetry(m)
        PROVE  RunInv' /\ AloneInv'
    <2>1. limits' = limits /\ host' = [host EXCEPT ![m] = "sleep"] /\ "sleep" \in Phases /\ run' = run /\ overlap' = overlap
          /\ host[m] \in InRun /\ host[m] # "run" /\ "sleep" \in InRun
      BY <1>19 DEF PrepareRetry, Crossing, queues, inbox, tools, loopVars, archive, lists, history, Phases,
          InRun, Preflight
    <2>2. QED
      BY <2>1, HostMoves DEF ATypeOK, HostInv
  <1>20. ASSUME NEW m \in Messages, PostChecked(m)
        PROVE  RunInv' /\ AloneInv'
    <2>1. /\ limits' = limits /\ run' = run /\ overlap' = overlap
          /\ host[m] \in InRun /\ host[m] # "run"
      BY <1>20 DEF PostChecked, CheckCompaction, RecoverOverflow, CompactBySize, Crossing, queues, inbox, tools,
          loopVars, archive, lists, history, InRun
    <2>2. PICK x \in {"recover", "compact", "decide"} : host' = [host EXCEPT ![m] = x]
      BY <1>20 DEF PostChecked, CheckCompaction, RecoverOverflow, CompactBySize, Crossing, queues, inbox, tools,
          loopVars, archive, lists, history
    <2>3. x \in Phases /\ x \in InRun /\ x \notin {"run", "post"}
      BY DEF Phases, InRun
    <2>4. QED
      BY <2>1, <2>2, <2>3, HostMoves DEF ATypeOK, HostInv
  <1>21. ASSUME NEW m \in Messages, SleepOver(m)
        PROVE  RunInv' /\ AloneInv'
    <2>1. limits' = limits /\ host' = [host EXCEPT ![m] = "resume"] /\ "resume" \in Phases /\ run' = run /\ overlap' = overlap
          /\ host[m] \in InRun /\ host[m] # "run" /\ "resume" \in InRun
      BY <1>21 DEF SleepOver, queues, inbox, tools, loopVars, archive, lists, history, Phases, InRun, Preflight
    <2>2. QED
      BY <2>1, HostMoves DEF ATypeOK, HostInv
  <1>22. ASSUME NEW m \in Messages, CompactDone(m)
        PROVE  RunInv' /\ AloneInv'
    <2>1. /\ limits' = limits /\ run' = run /\ last' = last /\ overlap' = overlap
          /\ host[m] \in Compacting /\ host' = [host EXCEPT ![m] = AfterCompaction(host[m], TRUE)]
      BY <1>22 DEF CompactDone, Compacted, AppendCompaction, Crossing, queues, inbox, tools, loopVars, archive,
          lists, history
    <2>2. PICK x : x = AfterCompaction(host[m], TRUE)
      OBVIOUS
    <2>3. x \in Phases /\ x \notin {"run", "post"} /\ host[m] # "run" /\ (x \in InRun <=> host[m] \in InRun)
      BY <2>1, <2>2 DEF AfterCompaction, Compacting, Phases, Preflight, InRun
    <2>4. QED
      BY <2>1, <2>2, <2>3, HostMoves DEF ATypeOK, HostInv
  <1>23. ASSUME NEW m \in Messages, CompactFails(m)
        PROVE  RunInv' /\ AloneInv'
    <2>1. /\ limits' = limits /\ run' = run /\ last' = last /\ overlap' = overlap
          /\ host[m] \in Compacting /\ host' = [host EXCEPT ![m] = AfterCompaction(host[m], FALSE)]
      BY <1>23 DEF CompactFails, queues, inbox, tools, loopVars, archive, lists, history
    <2>2. PICK x : x = AfterCompaction(host[m], FALSE)
      OBVIOUS
    <2>3. x \in Phases /\ x \notin {"run", "post"} /\ host[m] # "run" /\ (x \in InRun <=> host[m] \in InRun)
      BY <2>1, <2>2 DEF AfterCompaction, Compacting, Phases, Preflight, InRun
    <2>4. QED
      BY <2>1, <2>2, <2>3, HostMoves DEF ATypeOK, HostInv
  <1>24. ASSUME NEW m \in Messages, ContinueRun(m)
        PROVE  RunInv' /\ AloneInv'
    <2>1. limits' = limits /\ host' = [host EXCEPT ![m] = "run"] /\ "run" \in Phases /\ run' = "prompts" /\ run = "idle"
          /\ host[m] \in InRun /\ overlap' = overlap
      BY <1>24 DEF ContinueRun, Continue, Open, queues, inbox, tools, loopVars, archive, lists, history,
          Deciding, Phases, InRun, Preflight
    <2>2. QED
      BY <2>1, HostMoves DEF ATypeOK, HostInv
  <1>25. ASSUME NEW m \in Messages, ContinueThrows(m)
        PROVE  RunInv' /\ AloneInv'
    <2>1. limits' = limits /\ host' = [host EXCEPT ![m] = "none"] /\ "none" \in Phases /\ run' = run
          /\ host[m] \in InRun /\ host[m] # "run" /\ "none" \notin InRun
      BY <1>25 DEF ContinueThrows, Settle, queues, inbox, tools, loopVars, archive, lists, history, Deciding,
          Phases, InRun, Preflight
    <2>2. ~overlap' => ~overlap \/ \A k \in Messages \ {m} : host[k] \notin InRun
      BY <1>25, BusyFacts DEF ContinueThrows, Settle, ATypeOK
    <2>3. QED
      BY <2>1, <2>2, HostMoves DEF ATypeOK, HostInv
  <1>26. ASSUME NEW m \in Messages, Done(m)
        PROVE  RunInv' /\ AloneInv'
    <2>1. limits' = limits /\ host' = [host EXCEPT ![m] = "none"] /\ "none" \in Phases /\ run' = run
          /\ host[m] \in InRun /\ host[m] # "run" /\ "none" \notin InRun
      BY <1>26 DEF Done, Settle, queues, inbox, tools, loopVars, archive, lists, history, Deciding, Phases,
          InRun, Preflight
    <2>2. ~overlap' => ~overlap \/ \A k \in Messages \ {m} : host[k] \notin InRun
      BY <1>26, BusyFacts DEF Done, Settle, ATypeOK
    <2>3. QED
      BY <2>1, <2>2, HostMoves DEF ATypeOK, HostInv
  <1>27. QED
    BY <1>1, <1>2, <1>3, <1>4, <1>5, <1>6, <1>7, <1>8, <1>9, <1>10, <1>11, <1>12, <1>13, <1>14, <1>15, <1>16,
        <1>17, <1>18, <1>19, <1>20, <1>21, <1>22, <1>23, <1>24, <1>25, <1>26 DEF SNext, Loop, LoopStep,
        HostStep, Persist, Calm

\* Only the call m moves, to x: the others leave nothing behind.
LEMMA LeavesMoves ==
  ASSUME HostTypes, NEW m \in Messages, NEW x, host' = [host EXCEPT ![m] = x],
         (Busy(m) /\ host[m] # "run" /\ x = "none" /\ ~stop /\ ~overlap /\ transcript # <<>>) => ~Queued'
  PROVE  LeavesNone
  <1>1. \A k \in Messages : host'[k] = IF k = m THEN x ELSE host[k]
    BY DEF HostTypes
  <1>2. \A k \in Messages : Busy(k) => host[k] # "none"
    BY DEF Busy
  <1>3. QED
    BY <1>1, <1>2 DEF LeavesNone

\* A call that settles by itself leaves no queued message.
LEMMA LeavesKept ==
  ASSUME ATypeOK, HostInv, SNext
  PROVE  LeavesNone
  <1>1. CASE (EmitPrompt \/ InitialPoll \/ Inject \/ PrepareParallel \/ LaunchParallel \/ RunSequential \/ ToolEnds \/
    EmitResult \/ BatchDone \/ TurnEnd \/ PrepareDone) /\ Persist
    <2>1. UNCHANGED <<host>>
      BY <1>1 DEF EmitPrompt, Persist, HandleMessages, Calm, InitialPoll, Poll, Inject, PrepareParallel,
          LaunchParallel, RunSequential, ToolEnds, EmitResult, BatchDone, TurnEnd, PrepareDone, queues, inbox,
          tools, loopVars, archive, lists, history
    <2>2. QED
      BY <2>1 DEF LeavesNone, Busy
  <1>2. ASSUME NEW how \in Outcomes, NEW n \in 0..MaxCalls, Stream(how, n), HandleAnswer(how), Calm
        PROVE  LeavesNone
    <2>1. UNCHANGED <<host>>
      BY <1>2 DEF Stream, HandleAnswer, Calm, queues, inbox, tools, loopVars, archive, lists, history
    <2>2. QED
      BY <2>1 DEF LeavesNone, Busy
  <1>3. ASSUME NEW how \in Errors \cup {"aborted"}, RecordFailure, HandleAnswer(how), Calm
        PROVE  LeavesNone
    <2>1. UNCHANGED <<host>>
      BY <1>3 DEF RecordFailure, HandleAnswer, Calm, queues, inbox, tools, loopVars, archive, lists, history
    <2>2. QED
      BY <2>1 DEF LeavesNone, Busy
  <1>4. CASE ThrowOut \/ ClearQueue \/ SessionAbort \/ AbortRun \/ CompactMidRun
    <2>1. UNCHANGED <<host>>
      BY <1>4 DEF ThrowOut, Throw, ClearQueue, ClearAllQueues, SessionAbort, AbortRun, Abort, hostVars,
          CompactMidRun, Compacted, AppendCompaction, queues, inbox, tools, loopVars, archive, lists, history
    <2>2. QED
      BY <2>1 DEF LeavesNone, Busy
  <1>5. ASSUME NEW m \in Messages,
               Queue(m)
        PROVE  LeavesNone
    <2>1. UNCHANGED <<host>>
      BY <1>5 DEF Queue, Steer, FollowUp, queues, inbox, tools, loopVars, archive, lists, history
    <2>2. QED
      BY <2>1 DEF LeavesNone, Busy
  <1>6. ASSUME NEW m \in Messages, PromptCall(m)
        PROVE  LeavesNone
    <2>1. host' = [host EXCEPT ![m] = "preflight"] /\ "preflight" # "none"
      BY <1>6 DEF PromptCall, queues, inbox, tools, loopVars, archive, lists, history
    <2>2. QED
      BY <2>1, LeavesMoves DEF ATypeOK
  <1>7. ASSUME NEW m \in Messages, PreflightFails(m)
        PROVE  LeavesNone
    <2>1. host' = [host EXCEPT ![m] = "none"] /\ (~Busy(m) \/ host[m] = "run")
      BY <1>7 DEF PreflightFails, queues, inbox, tools, loopVars, archive, lists, history, Busy, Preflight
    <2>2. QED
      BY <2>1, LeavesMoves DEF ATypeOK
  <1>8. ASSUME NEW m \in Messages, PreflightCompacts(m)
        PROVE  LeavesNone
    <2>1. PICK x : host' = [host EXCEPT ![m] = x] /\ x # "none"
      BY <1>8 DEF PreflightCompacts, RecoverOverflow, CompactBySize, Crossing, queues, inbox, tools, loopVars,
          archive, lists, history
    <2>2. QED
      BY <2>1, LeavesMoves DEF ATypeOK
  <1>9. ASSUME NEW m \in Messages, RunRejected(m)
        PROVE  LeavesNone
    <2>1. host' = [host EXCEPT ![m] = "none"] /\ (~Busy(m) \/ host[m] = "run")
      BY <1>9 DEF RunRejected, Reject, FinishRun, Settle, queues, inbox, tools, loopVars, archive, lists,
          history, Busy, Preflight
    <2>2. QED
      BY <2>1, LeavesMoves DEF ATypeOK
  <1>10. ASSUME NEW m \in Messages, SleepCancelled(m)
        PROVE  LeavesNone
    <2>1. PICK x : host' = [host EXCEPT ![m] = x] /\ x # "none"
      BY <1>10 DEF SleepCancelled, CheckCompaction, RecoverOverflow, CompactBySize, Crossing, queues, inbox,
          tools, loopVars, archive, lists, history
    <2>2. QED
      BY <2>1, LeavesMoves DEF ATypeOK
  <1>11. ASSUME NEW m \in Messages, BeginRun(m)
        PROVE  LeavesNone
    <2>1. ~Busy(m) /\ \E x : host' = [host EXCEPT ![m] = x]
      BY <1>11 DEF BeginRun, Prompt, Open, Settle, queues, inbox, tools, loopVars, archive, lists, history, Busy,
          Preflight
    <2>2. QED
      BY <2>1, LeavesMoves DEF ATypeOK
  <1>12. ASSUME NEW m \in Messages, RunFinished(m)
        PROVE  LeavesNone
    <2>1. host' = [host EXCEPT ![m] = "post"] /\ "post" # "none"
      BY <1>12 DEF RunFinished, Finish, FinishRun, queues, inbox, tools, loopVars, archive, lists, history
    <2>2. QED
      BY <2>1, LeavesMoves DEF ATypeOK
  <1>13. ASSUME NEW m \in Messages, PostStopped(m)
        PROVE  LeavesNone
    <2>1. host' = [host EXCEPT ![m] = "none"] /\ host[m] = "post" /\ (stop \/ last = "none")
      BY <1>13 DEF PostStopped, Settle
    <2>2. stop \/ overlap
      BY <2>1 DEF HostInv, AloneInv
    <2>3. QED
      BY <2>1, <2>2, LeavesMoves DEF ATypeOK
  <1>14. ASSUME NEW m \in Messages, PrepareRetry(m)
        PROVE  LeavesNone
    <2>1. host' = [host EXCEPT ![m] = "sleep"] /\ "sleep" # "none"
      BY <1>14 DEF PrepareRetry, Crossing, queues, inbox, tools, loopVars, archive, lists, history
    <2>2. QED
      BY <2>1, LeavesMoves DEF ATypeOK
  <1>15. ASSUME NEW m \in Messages, PostChecked(m)
        PROVE  LeavesNone
    <2>1. PICK x : host' = [host EXCEPT ![m] = x] /\ x # "none"
      BY <1>15 DEF PostChecked, CheckCompaction, RecoverOverflow, CompactBySize, Crossing, queues, inbox, tools,
          loopVars, archive, lists, history
    <2>2. QED
      BY <2>1, LeavesMoves DEF ATypeOK
  <1>16. ASSUME NEW m \in Messages, SleepOver(m)
        PROVE  LeavesNone
    <2>1. host' = [host EXCEPT ![m] = "resume"] /\ "resume" # "none"
      BY <1>16 DEF SleepOver, queues, inbox, tools, loopVars, archive, lists, history
    <2>2. QED
      BY <2>1, LeavesMoves DEF ATypeOK
  <1>17. ASSUME NEW m \in Messages, CompactDone(m)
        PROVE  LeavesNone
    <2>1. host' = [host EXCEPT ![m] = AfterCompaction(host[m], TRUE)] /\ AfterCompaction(host[m], TRUE) # "none"
      BY <1>17 DEF CompactDone, Compacted, AppendCompaction, Crossing, queues, inbox, tools, loopVars, archive,
          lists, history, Compacting, AfterCompaction
    <2>2. QED
      BY <2>1, LeavesMoves DEF ATypeOK
  <1>18. ASSUME NEW m \in Messages, CompactFails(m)
        PROVE  LeavesNone
    <2>1. host' = [host EXCEPT ![m] = AfterCompaction(host[m], FALSE)] /\ AfterCompaction(host[m], FALSE) # "none"
      BY <1>18 DEF CompactFails, queues, inbox, tools, loopVars, archive, lists, history, Compacting,
          AfterCompaction
    <2>2. QED
      BY <2>1, LeavesMoves DEF ATypeOK
  <1>19. ASSUME NEW m \in Messages, ContinueRun(m)
        PROVE  LeavesNone
    <2>1. host' = [host EXCEPT ![m] = "run"] /\ "run" # "none"
      BY <1>19 DEF ContinueRun, Continue, Open, queues, inbox, tools, loopVars, archive, lists, history, Deciding
    <2>2. QED
      BY <2>1, LeavesMoves DEF ATypeOK
  <1>20. ASSUME NEW m \in Messages, ContinueThrows(m)
        PROVE  LeavesNone
    <2>1. /\ host' = [host EXCEPT ![m] = "none"] /\ host[m] \in {"decide", "resume"}
          /\ run # "idle" \/ ~MayContinue
          /\ steering' = steering /\ followUp' = followUp
      BY <1>20 DEF ContinueThrows, Settle, Deciding, loopVars
    <2>2. ~overlap => run = "idle"
      <3>1. SUFFICES ASSUME ~overlap, run # "idle" PROVE FALSE
        OBVIOUS
      <3>2. PICK k \in Messages : host[k] = "run"
        BY <3>1 DEF HostInv, RunInv
      <3>3. host[k] \in InRun /\ host[m] \in InRun
        BY <2>1, <3>2 DEF InRun
      <3>4. k = m
        BY <3>1, <3>3 DEF HostInv, AloneInv
      <3>5. QED
        BY <2>1, <3>2, <3>4
    <2>3. ~MayContinue /\ transcript # <<>> => ~Queued
      BY DEF MayContinue, Queued
    <2>4. Queued' <=> Queued
      BY <2>1 DEF Queued
    <2>5. QED
      BY <2>1, <2>2, <2>3, <2>4, LeavesMoves DEF ATypeOK
  <1>21. ASSUME NEW m \in Messages, Done(m)
        PROVE  LeavesNone
    <2>1. /\ host' = [host EXCEPT ![m] = "none"] /\ ~GoOn(m)
          /\ steering' = steering /\ followUp' = followUp
      BY <1>21 DEF Done, Settle, loopVars
    <2>2. ~stop => ~Queued'
      BY <2>1 DEF GoOn, Queued
    <2>3. QED
      BY <2>1, <2>2, LeavesMoves DEF ATypeOK
  <1>22. QED
    BY <1>1, <1>2, <1>3, <1>4, <1>5, <1>6, <1>7, <1>8, <1>9, <1>10, <1>11, <1>12, <1>13, <1>14, <1>15, <1>16,
        <1>17, <1>18, <1>19, <1>20, <1>21 DEF SNext, Loop, LoopStep, HostStep, Persist, Calm

\* In every state one call at most has the run, whatever calls overlap (RunInv); and
\* while none overlap, a call whose run has ended has the answer of that run (AloneInv).
THEOREM OneRun == SSpec => []HostInv
  <1>1. SInit => HostInv
    BY DEF SInit, Init, HostInv, FreshInv, RunInv, AloneInv, InRun
  <1>2. ASSUME ATypeOK, HostInv, [SNext]_vars PROVE HostInv'
    <2>1. CASE SNext
      BY <1>2, <2>1, FreshKept, RunKept DEF HostInv
    <2>2. CASE UNCHANGED vars
      <3>1. UNCHANGED <<limits, host, given, run, last, overlap>>
        BY <2>2 DEF vars, loopVars, hostVars, history
      <3>2. QED
        BY <1>2, <3>1 DEF HostInv, FreshInv, RunInv, AloneInv, Messages
    <2>3. QED
      BY <1>2, <2>1, <2>2
  <1>3. QED
    BY <1>1, <1>2, Types, PTL DEF SSpec

\* NotStranded: a call that nobody aborted or overlapped leaves no queued message behind.
THEOREM Stranded == SSpec => NotStranded
  <1>1. ASSUME ATypeOK, HostInv, [SNext]_vars PROVE [LeavesNone]_vars
    BY <1>1, LeavesKept
  <1>2. QED
    BY <1>1, Types, OneRun, PTL DEF SSpec, NotStranded, LeavesNone

-----------------------------------------------------------------------------
(***************************************************************************)
(* The context and the transcript                                          *)
(***************************************************************************)

\* No prompt, and one prompt.
LEMMA UsersShort ==
  ASSUME NEW q \in Seq(Nat)
  PROVE  /\ q = <<>> => Users(q) = <<>>
         /\ Len(q) = 1 => Users(q) = <<User(Head(q))>> /\ Tail(q) = <<>> /\ q # <<>>
  <1>1. PICK u \in Seq(Entry) : u = Users(q) /\ Len(u) = Len(q) /\ \A i \in 1..Len(q) : u[i] = User(q[i])
    BY UsersFacts
  <1>2. ASSUME q = <<>> PROVE u = <<>>
    BY <1>1, <1>2, EmptySeq
  <1>3. ASSUME Len(q) = 1 PROVE u = <<User(Head(q))>> /\ Tail(q) = <<>> /\ q # <<>>
    <2>1. q # <<>> /\ Head(q) = q[1]
      <3>1. q # <<>>
        BY <1>3, EmptySeq
      <3>2. QED
        BY <3>1, HeadTailProperties
    <2>2. Len(u) = 1 /\ u[1] = User(Head(q))
      BY <1>1, <1>3, <2>1
    <2>3. u = <<User(Head(q))>>
      BY <1>1, <2>2
    <2>4. Tail(q) \in Seq(Nat) /\ Len(Tail(q)) = 0
      BY <1>3, <2>1, HeadTailProperties
    <2>5. QED
      BY <2>1, <2>3, <2>4, EmptySeq
  <1>4. QED
    BY <1>1, <1>2, <1>3

\* No result, and one more result.
LEMMA ResultsGrow ==
  ASSUME NEW c \in Seq(Entry), NEW n \in Nat
  PROVE  /\ c \o Results(0) = c
         /\ Append(c \o Results(n), ToolResult(n + 1)) = c \o Results(n + 1)
  <1>1. c \o Results(0) = c
    <2>1. Results(0) \in Seq(Entry) /\ Len(Results(0)) = 0
      BY ResultsFacts
    <2>2. Results(0) = <<>>
      BY <2>1, EmptySeq
    <2>3. QED
      BY <2>2, ConcatEmptySeq
  <1>2. PICK r \in Seq(Entry) : r = Results(n) /\ Len(r) = n /\ \A i \in 1..n : r[i] = ToolResult(i)
    BY ResultsFacts
  <1>3. PICK t \in Seq(Entry) : t = Results(n + 1) /\ Len(t) = n + 1 /\ \A i \in 1..n + 1 : t[i] = ToolResult(i)
    <2>1. n + 1 \in Nat
      OBVIOUS
    <2>2. QED
      BY <2>1, ResultsFacts
  <1>4. PICK e \in Entry : e = ToolResult(n + 1)
    BY EntryFacts
  <1>5. Append(r, e) = t
    <2>1. PICK a \in Seq(Entry) : a = Append(r, e)
      BY AppendFacts
    <2>2. /\ Len(a) = Len(r) + 1 /\ (\A i \in 1..Len(r) : a[i] = r[i])
          /\ a[Len(r) + 1] = e
      BY <2>1, AppendFacts
    <2>3. \A i \in 1..n + 1 : a[i] = t[i]
      BY <1>2, <1>3, <1>4, <2>2
    <2>4. a = t
      BY <1>2, <1>3, <2>2, <2>3, SeqEqual
    <2>5. QED
      BY <2>1, <2>4
  <1>6. Append(c \o r, e) = c \o Append(r, e)
    <2>1. c \o r \in Seq(Entry) /\ <<e>> \in Seq(Entry)
      BY ConcatProperties
    <2>2. Append(c \o r, e) = (c \o r) \o <<e>> /\ Append(r, e) = r \o <<e>>
      BY <2>1, AppendIsConcat
    <2>3. (c \o r) \o <<e>> = c \o (r \o <<e>>)
      BY <2>1, ConcatAssociative
    <2>4. QED
      BY <2>2, <2>3
  <1>7. QED
    BY <1>1, <1>2, <1>3, <1>4, <1>5, <1>6

\* Context and transcript advance together.
LEMMA SeenKept ==
  ASSUME ATypeOK, ~crossed', SeenInv, SNext
  PROVE  SeenInv'
  <1>1. CASE (PrepareParallel \/ LaunchParallel \/ RunSequential \/ ToolEnds) /\ Persist
    <2>1. UNCHANGED <<run, prompts, context, transcript, emitted>>
      BY <1>1 DEF PrepareParallel, Persist, HandleMessages, Calm, LaunchParallel, RunSequential, ToolEnds,
          queues, inbox, tools, loopVars, archive, lists, history
    <2>2. QED
      BY <2>1 DEF SeenInv
  <1>2. CASE EmitPrompt /\ Persist
    <2>1. PICK q \in Seq(Nat) : q = prompts /\ q # <<>> /\ prompts' = Tail(q) /\ Len(q) = 1
      <3>1. prompts \in Seq(Nat) /\ prompts # <<>> /\ Len(prompts) <= 1 /\ prompts' = Tail(prompts)
        BY <1>2 DEF ATypeOK, QueueTypes, EmitPrompt, SeenInv
      <3>2. Len(prompts) \in Nat \ {0}
        BY <3>1, EmptySeq
      <3>3. Len(prompts) = 1
        <4>1. PICK n \in Nat \ {0} : n = Len(prompts) /\ n <= 1
          BY <3>1, <3>2
        <4>2. n = 1
          BY <4>1
        <4>3. QED
          BY <4>1, <4>2
      <3>4. QED
        BY <3>1, <3>3
    <2>2. Users(q) = <<User(Head(q))>> /\ Tail(q) = <<>>
      BY <2>1, UsersShort
    <2>3. PICK e \in Entry : e = User(Head(q))
      BY <2>1, HeadTailProperties, EntryFacts
    <2>4. context = transcript \o <<e>> /\ transcript' = Append(transcript, e) /\ context' = context /\ run' = "prompts"
      BY <1>2, <2>1, <2>2, <2>3 DEF EmitPrompt, SeenInv
    <2>5. transcript' = context'
      BY <2>4, AppendIsConcat DEF ATypeOK, MessageTypes
    <2>6. prompts' = <<>> /\ Len(<<>>) = 0 /\ <<>> \in Seq(Nat)
      BY <2>1, <2>2
    <2>7. Users(<<>>) = <<>>
      BY <2>6, UsersShort
    <2>8. transcript' \in Seq(Entry)
      BY <2>4, AppendProperties DEF ATypeOK, MessageTypes
    <2>9. transcript' \o <<>> = transcript'
      BY <2>8, ConcatEmptySeq
    <2>10. QED
      BY <2>4, <2>5, <2>6, <2>7, <2>9 DEF SeenInv
  <1>3. CASE InitialPoll /\ Persist
    <2>1. context = transcript \o Users(prompts) /\ prompts = <<>> /\ <<>> \in Seq(Nat)
      BY <1>3 DEF InitialPoll, SeenInv
    <2>2. Users(prompts) = <<>>
      BY <2>1, UsersShort
    <2>3. context = transcript
      BY <2>1, <2>2, ConcatEmptySeq DEF ATypeOK, MessageTypes
    <2>4. QED
      BY <1>3, <2>3 DEF InitialPoll, SeenInv
  <1>4. CASE Inject /\ Persist
    BY <1>4 DEF Inject, Persist, HandleMessages, Calm, queues, inbox, tools, loopVars, archive, lists,
        history, SeenInv
  <1>5. CASE EmitResult /\ Persist
    <2>1. transcript = context \o Results(emitted) /\ emitted \in Nat /\ context \in Seq(Entry)
      BY <1>5 DEF EmitResult, SeenInv, ATypeOK, BatchTypes, MessageTypes
    <2>2. Append(transcript, ToolResult(emitted + 1)) = context \o Results(emitted + 1)
      BY <2>1, ResultsGrow
    <2>3. QED
      BY <1>5, <2>2 DEF EmitResult, SeenInv
  <1>6. CASE BatchDone /\ Persist
    BY <1>6 DEF BatchDone, Persist, HandleMessages, Calm, queues, inbox, tools, loopVars, archive, lists,
        history, SeenInv
  <1>7. CASE TurnEnd /\ Persist
    BY <1>7 DEF TurnEnd, Poll, Persist, HandleMessages, Calm, queues, inbox, tools, loopVars, archive, lists,
        history, SeenInv
  <1>8. CASE PrepareDone /\ Persist
    BY <1>8 DEF PrepareDone, Poll, Persist, HandleMessages, Calm, queues, inbox, tools, loopVars, archive,
        lists, history, SeenInv
  <1>9. ASSUME NEW how \in Outcomes, NEW n \in 0..MaxCalls, Stream(how, n), HandleAnswer(how), Calm
        PROVE  SeenInv'
    <2>1. PICK a \in Entry : transcript' = Append(transcript, a) /\ context' = Append(context, a)
      BY <1>9, AnswerShape
    <2>2. transcript' = context' /\ context' \in Seq(Entry)
      BY <1>9, <2>1, AppendProperties DEF Stream, SeenInv, ATypeOK, MessageTypes
    <2>3. PICK c \in Seq(Entry) : c = context'
      BY <2>2
    <2>4. context' \o Results(0) = context'
      BY <2>3, ResultsGrow
    <2>5. run' \in {"ending", "turnEnd", "tools"} /\ emitted' = 0
      BY <1>9 DEF Stream
    <2>6. QED
      BY <2>2, <2>4, <2>5 DEF SeenInv
  <1>10. ASSUME NEW how \in Errors \cup {"aborted"}, RecordFailure, HandleAnswer(how), Calm
        PROVE  SeenInv'
    BY <1>10 DEF RecordFailure, HandleAnswer, Calm, queues, inbox, tools, loopVars, archive, lists, history,
        SeenInv
  <1>11. CASE ClearQueue \/ SessionAbort \/ AbortRun
    <2>1. UNCHANGED <<run, prompts, context, transcript, emitted>>
      BY <1>11 DEF ClearQueue, ClearAllQueues, SessionAbort, AbortRun, Abort, hostVars, queues, inbox, tools,
          loopVars, archive, lists, history
    <2>2. QED
      BY <2>1 DEF SeenInv
  <1>12. CASE ThrowOut
    BY <1>12 DEF ThrowOut, Throw, queues, inbox, tools, loopVars, archive, lists, history, SeenInv
  <1>13. CASE CompactMidRun
    <2>1. run = "prepare" /\ run' = run /\ context' = transcript'
      BY <1>13 DEF CompactMidRun
    <2>2. QED
      BY <2>1 DEF SeenInv
  <1>14. ASSUME NEW m \in Messages,
               PromptCall(m) \/ Queue(m) \/ PreflightFails(m) \/ PostStopped(m) \/ SleepOver(m) \/
               CompactFails(m) \/ ContinueThrows(m) \/ Done(m)
        PROVE  SeenInv'
    <2>1. UNCHANGED <<run, prompts, context, transcript, emitted>>
      BY <1>14 DEF PromptCall, Queue, Steer, FollowUp, PreflightFails, PostStopped, Settle, SleepOver,
          CompactFails, ContinueThrows, Done, queues, inbox, tools, loopVars, archive, lists, history
    <2>2. QED
      BY <2>1 DEF SeenInv
  <1>15. ASSUME NEW m \in Messages, PreflightCompacts(m)
        PROVE  SeenInv'
    <2>1. run' = run /\ (run = "idle" \/ UNCHANGED <<prompts, context, transcript, emitted>>)
      BY <1>15 DEF PreflightCompacts, RecoverOverflow, CompactBySize, Crossing, queues, inbox, tools, loopVars,
          archive, lists, history
    <2>2. QED
      BY <2>1 DEF SeenInv
  <1>16. ASSUME NEW m \in Messages, RunRejected(m)
        PROVE  SeenInv'
    BY <1>16 DEF RunRejected, Reject, FinishRun, Settle, queues, inbox, tools, loopVars, archive, lists,
        history, SeenInv
  <1>17. ASSUME NEW m \in Messages, SleepCancelled(m)
        PROVE  SeenInv'
    <2>1. run' = run /\ (run = "idle" \/ UNCHANGED <<prompts, context, transcript, emitted>>)
      BY <1>17 DEF SleepCancelled, CheckCompaction, RecoverOverflow, CompactBySize, Crossing, queues, inbox,
          tools, loopVars, archive, lists, history
    <2>2. QED
      BY <2>1 DEF SeenInv
  <1>18. ASSUME NEW m \in Messages, BeginRun(m)
        PROVE  SeenInv'
    <2>1. <<m>> \in Seq(Nat) /\ Len(<<m>>) = 1
      BY DEF Messages
    <2>2. CASE run = "idle"
      <3>1. prompts' = <<m>> /\ context' = transcript \o Users(prompts') /\ transcript' = transcript /\ run' = "prompts"
        BY <1>18, <2>2 DEF BeginRun, Prompt, Open
      <3>2. Len(prompts') <= 1
        BY <2>1, <3>1
      <3>3. QED
        BY <3>1, <3>2 DEF SeenInv
    <2>3. CASE run # "idle"
      BY <1>18, <2>3 DEF BeginRun, loopVars, SeenInv
    <2>4. QED
      BY <2>2, <2>3
  <1>19. ASSUME NEW m \in Messages, RunFinished(m)
        PROVE  SeenInv'
    BY <1>19 DEF RunFinished, Finish, FinishRun, queues, inbox, tools, loopVars, archive, lists, history,
        SeenInv
  <1>20. ASSUME NEW m \in Messages, PrepareRetry(m)
        PROVE  SeenInv'
    <2>1. run' = run /\ (run = "idle" \/ UNCHANGED <<prompts, context, transcript, emitted>>)
      BY <1>20 DEF PrepareRetry, Crossing, queues, inbox, tools, loopVars, archive, lists, history
    <2>2. QED
      BY <2>1 DEF SeenInv
  <1>21. ASSUME NEW m \in Messages, PostChecked(m)
        PROVE  SeenInv'
    <2>1. run' = run /\ (run = "idle" \/ UNCHANGED <<prompts, context, transcript, emitted>>)
      BY <1>21 DEF PostChecked, CheckCompaction, RecoverOverflow, CompactBySize, Crossing, queues, inbox, tools,
          loopVars, archive, lists, history
    <2>2. QED
      BY <2>1 DEF SeenInv
  <1>22. ASSUME NEW m \in Messages, CompactDone(m)
        PROVE  SeenInv'
    <2>1. run' = run /\ (run = "idle" \/ UNCHANGED <<prompts, context, transcript, emitted>>)
      BY <1>22 DEF CompactDone, Compacted, AppendCompaction, Crossing, queues, inbox, tools, loopVars, archive,
          lists, history, Compacting
    <2>2. QED
      BY <2>1 DEF SeenInv
  <1>23. ASSUME NEW m \in Messages, ContinueRun(m)
        PROVE  SeenInv'
    <2>1. /\ Len(<<>>) = 0 /\ Len(Drained(steering)) <= 1 /\ Len(Drained(followUp)) <= 1
      BY QueueFacts DEF ATypeOK, QueueTypes
    <2>2. /\ run' = "prompts" /\ transcript' = transcript /\ context' = transcript \o Users(prompts')
          /\ prompts' \in {<<>>, Drained(steering), Drained(followUp)}
      BY <1>23 DEF ContinueRun, Continue, Open
    <2>3. QED
      BY <2>1, <2>2 DEF SeenInv
  <1>24. QED
    BY <1>1, <1>2, <1>3, <1>4, <1>5, <1>6, <1>7, <1>8, <1>9, <1>10, <1>11, <1>12, <1>13, <1>14, <1>15, <1>16,
        <1>17, <1>18, <1>19, <1>20, <1>21, <1>22, <1>23 DEF SNext, Loop, LoopStep, HostStep, Persist, Calm

\* What another call changes under a run is remembered for good.
LEMMA CrossedKept ==
  ASSUME SNext, ~crossed'
  PROVE  ~crossed
  BY DEF SNext, Loop, HostStep, ThrowOut, PromptCall, Queue, PreflightFails, PreflightCompacts, RunRejected,
     SleepCancelled, ClearQueue, SessionAbort, AbortRun, CompactMidRun, BeginRun, RunFinished, PostStopped,
     PrepareRetry, PostChecked, SleepOver, CompactDone, CompactFails, ContinueRun, ContinueThrows, Done,
     Settle, Crossing, RecoverOverflow, CompactBySize, CheckCompaction, history, hostVars

\* RequestSeesTranscript: a request is built from what the transcript shows, whatever was
\* steered, compacted or retried before it.
THEOREM Seen == SSpec => []RequestSeesTranscript
  <1>1. SInit => (~crossed => SeenInv)
    BY DEF SInit, Init, SeenInv
  <1>2. ASSUME ATypeOK, ~crossed => SeenInv, [SNext]_vars PROVE (~crossed => SeenInv)'
    <2>1. CASE SNext
      BY <1>2, <2>1, CrossedKept, SeenKept
    <2>2. CASE UNCHANGED vars
      BY <1>2, <2>2 DEF vars, loopVars, hostVars, history, SeenInv
    <2>3. QED
      BY <1>2, <2>1, <2>2
  <1>3. (~crossed => SeenInv) => RequestSeesTranscript
    BY DEF SeenInv, RequestSeesTranscript
  <1>4. QED
    BY <1>1, <1>2, <1>3, Types, PTL DEF SSpec

-----------------------------------------------------------------------------
(***************************************************************************)
(* Results follow calls                                                    *)
(***************************************************************************)

\* A message that is not a tool result does not come between.
LEMMA FollowedAppend ==
  ASSUME NEW s \in Seq(Entry), NEW e \in Entry, e.role # "toolResult", Followed(s)
  PROVE  Followed(Append(s, e))
  <1>1. /\ Len(Append(s, e)) = Len(s) + 1 /\ Len(s) \in Nat
        /\ \A i \in 1..Len(s) : Append(s, e)[i] = s[i]
        /\ Append(s, e)[Len(s) + 1] = e
    BY AppendFacts
  <1>2. \A i \in 1..Len(s) : s[i] \in Entry
    BY ElementOfSeq
  <1>3. SUFFICES ASSUME NEW t, t = Append(s, e), NEW i \in 1..Len(t), t[i].role = "toolResult"
                 PROVE  /\ i - t[i].call >= 1
                        /\ IsAssistant(t[i - t[i].call]) /\ t[i].call <= t[i - t[i].call].calls
                        /\ \A j \in (i - t[i].call + 1)..i : t[j] = ToolResult(j - (i - t[i].call))
    BY DEF Followed
  <1>4. i \in 1..Len(s) /\ t[i] = s[i]
    BY <1>1, <1>3
  <1>5. PICK c \in Nat : c = s[i].call
    BY <1>2, <1>3, <1>4, EntryFacts
  <1>6. /\ i - c >= 1 /\ IsAssistant(s[i - c]) /\ c <= s[i - c].calls
        /\ \A j \in (i - c + 1)..i : s[j] = ToolResult(j - (i - c))
    BY <1>3, <1>4, <1>5 DEF Followed
  <1>7. i - c \in 1..Len(s) /\ \A j \in (i - c + 1)..i : j \in 1..Len(s)
    BY <1>1, <1>4, <1>5, <1>6
  <1>8. t[i - c] = s[i - c] /\ \A j \in (i - c + 1)..i : t[j] = s[j]
    BY <1>1, <1>3, <1>7
  <1>9. QED
    BY <1>4, <1>5, <1>6, <1>8

\* The next result of the open answer follows.
LEMMA FollowedResult ==
  ASSUME NEW s \in Seq(Entry), NEW n \in Nat, NEW k \in Nat, k + 1 <= n,
         Tip(s, n, k), Followed(s)
  PROVE  Followed(Append(s, ToolResult(k + 1))) /\ Tip(Append(s, ToolResult(k + 1)), n, k + 1)
  <1>1. PICK e \in Entry : e = ToolResult(k + 1) /\ e.role = "toolResult" /\ e.call = k + 1
    BY EntryFacts
  <1>2. PICK t \in Seq(Entry) : t = Append(s, e)
    BY AppendFacts
  <1>3. /\ Len(t) = Len(s) + 1 /\ Len(s) \in Nat
        /\ \A i \in 1..Len(s) : t[i] = s[i]
        /\ t[Len(s) + 1] = e
    BY <1>2, AppendFacts
  <1>4. /\ Len(s) - k >= 1 /\ IsAssistant(s[Len(s) - k]) /\ s[Len(s) - k].calls = n
        /\ \A j \in 1..k : s[Len(s) - k + j] = ToolResult(j)
    BY DEF Tip
  <1>5. Len(t) - (k + 1) = Len(s) - k /\ Len(s) - k \in 1..Len(s)
    BY <1>3, <1>4
  <1>6. \A j \in 1..k + 1 : t[Len(s) - k + j] = ToolResult(j)
    <2>1. SUFFICES ASSUME NEW j \in 1..k + 1 PROVE t[Len(s) - k + j] = ToolResult(j)
      OBVIOUS
    <2>2. CASE j \in 1..k
      <3>1. Len(s) - k + j \in 1..Len(s)
        BY <1>3, <1>4, <2>2
      <3>2. QED
        BY <1>3, <1>4, <2>2, <3>1
    <2>3. CASE j = k + 1
      <3>1. Len(s) - k + j = Len(s) + 1
        BY <1>3, <2>3
      <3>2. QED
        BY <1>1, <1>3, <2>3, <3>1
    <2>4. QED
      BY <2>2, <2>3
  <1>7. Tip(t, n, k + 1)
    BY <1>3, <1>4, <1>5, <1>6 DEF Tip
  <1>8. Followed(t)
    <2>1. \A i \in 1..Len(s) : s[i] \in Entry
      BY ElementOfSeq
    <2>2. SUFFICES ASSUME NEW i \in 1..Len(t), t[i].role = "toolResult"
                   PROVE  /\ i - t[i].call >= 1
                          /\ IsAssistant(t[i - t[i].call]) /\ t[i].call <= t[i - t[i].call].calls
                          /\ \A j \in (i - t[i].call + 1)..i : t[j] = ToolResult(j - (i - t[i].call))
      BY DEF Followed
    <2>3. CASE i = Len(s) + 1
      <3>1. t[i].call = k + 1 /\ i - t[i].call = Len(s) - k
        BY <1>1, <1>3, <2>3
      <3>2. t[Len(s) - k] = s[Len(s) - k]
        BY <1>3, <1>5
      <3>3. ASSUME NEW j \in (Len(s) - k + 1)..i PROVE t[j] = ToolResult(j - (Len(s) - k))
        <4>0. Len(s) \in Nat /\ i \in Int /\ j \in Int
          BY <1>3, <2>3
        <4>1. PICK d \in 1..k + 1 : d = j - (Len(s) - k)
          <5>1. j - (Len(s) - k) \in 1..k + 1
            BY <2>3, <4>0
          <5>2. QED
            BY <5>1
        <4>2. Len(s) - k + d = j
          BY <1>3, <4>1
        <4>3. QED
          BY <1>6, <4>1, <4>2
      <3>4. QED
        BY <1>4, <3>1, <3>2, <3>3
    <2>4. CASE i \in 1..Len(s)
      <3>1. t[i] = s[i]
        BY <1>3, <2>4
      <3>2. PICK c \in Nat : c = s[i].call
        BY <2>1, <2>2, <2>4, <3>1, EntryFacts
      <3>3. /\ i - c >= 1 /\ IsAssistant(s[i - c]) /\ c <= s[i - c].calls
            /\ \A j \in (i - c + 1)..i : s[j] = ToolResult(j - (i - c))
        BY <2>2, <2>4, <3>1, <3>2 DEF Followed
      <3>4. i - c \in 1..Len(s) /\ \A j \in (i - c + 1)..i : j \in 1..Len(s)
        <4>1. Len(s) \in Nat /\ i - c >= 1
          BY <1>3, <3>3
        <4>2. QED
          BY <2>4, <4>1
      <3>5. t[i - c] = s[i - c] /\ \A j \in (i - c + 1)..i : t[j] = s[j]
        BY <1>3, <3>4
      <3>6. QED
        BY <3>1, <3>2, <3>3, <3>5
    <2>5. QED
      BY <1>3, <2>3, <2>4
  <1>9. QED
    BY <1>1, <1>2, <1>7, <1>8

\* Moving messages keeps results behind their answers, when no answer is left behind.
LEMMA FollowedShift ==
  ASSUME NEW s \in Seq(Entry), NEW t \in Seq(Entry), NEW d \in Int, Shift(s, t, d), Followed(s),
         \A i \in 1..Len(t) : t[i].role = "toolResult" => i - t[i].call >= 1
  PROVE  Followed(t)
  <1>1. SUFFICES ASSUME NEW i \in 1..Len(t), t[i].role = "toolResult"
                 PROVE  /\ i - t[i].call >= 1
                        /\ IsAssistant(t[i - t[i].call]) /\ t[i].call <= t[i - t[i].call].calls
                        /\ \A j \in (i - t[i].call + 1)..i : t[j] = ToolResult(j - (i - t[i].call))
    BY DEF Followed
  <1>2. PICK n \in Nat : n = Len(t)
    BY LenProperties
  <1>3. PICK c \in Nat : c = t[i].call
    BY <1>1, ElementOfSeq, EntryFacts
  <1>4. i + d \in 1..Len(s) /\ s[i + d] = t[i]
    BY <1>1 DEF Shift
  <1>5. /\ (i + d) - c >= 1 /\ IsAssistant(s[(i + d) - c]) /\ c <= s[(i + d) - c].calls
        /\ \A j \in ((i + d) - c + 1)..(i + d) : s[j] = ToolResult(j - ((i + d) - c))
    BY <1>1, <1>3, <1>4 DEF Followed
  <1>6. PICK b \in 1..Len(t) : b = i - c /\ b + d = (i + d) - c /\ b + d \in 1..Len(s)
    <2>1. i - c >= 1 /\ i \in 1..n
      BY <1>1, <1>2, <1>3
    <2>2. i - c \in 1..n
      BY <2>1
    <2>3. PICK z \in Nat : z = Len(s)
      BY LenProperties
    <2>4. i + d \in 1..z /\ (i + d) - c >= 1
      BY <1>4, <1>5, <2>3
    <2>5. (i - c) + d = (i + d) - c /\ (i - c) + d \in 1..z
      BY <2>4
    <2>6. QED
      BY <1>2, <2>2, <2>3, <2>5
  <1>7. t[b] = s[b + d]
    BY <1>5, <1>6 DEF Shift, IsAssistant
  <1>8. ASSUME NEW j \in (b + 1)..i PROVE t[j] = ToolResult(j - b)
    <2>1. j \in 1..Len(t) /\ j + d \in ((i + d) - c + 1)..(i + d) /\ (j + d) - ((i + d) - c) = j - b
      <3>1. i \in 1..n /\ b \in 1..n /\ b = i - c
        BY <1>2, <1>6
      <3>2. j \in 1..n
        BY <3>1
      <3>3. QED
        BY <1>2, <3>1, <3>2
    <2>2. j - b \in Nat
      BY <1>6
    <2>3. s[j + d] = ToolResult(j - b) /\ s[j + d].role = "toolResult"
      <3>1. PICK k \in ((i + d) - c + 1)..(i + d) : k = j + d /\ k - ((i + d) - c) = j - b
        BY <2>1
      <3>2. s[k] = ToolResult(j - b)
        BY <1>5, <3>1
      <3>3. QED
        BY <2>2, <3>1, <3>2, EntryFacts
    <2>4. j + d \in 1..Len(s)
      <3>1. PICK z \in Nat : z = Len(s)
        BY LenProperties
      <3>2. i + d \in 1..z /\ b + d >= 1 /\ j + d <= i + d /\ j + d >= b + d
        BY <1>4, <1>6, <2>1, <3>1
      <3>3. j + d \in 1..z
        BY <3>2
      <3>4. QED
        BY <3>1, <3>3
    <2>5. QED
      BY <2>1, <2>3, <2>4 DEF Shift
  <1>9. t[i].call = c /\ i - t[i].call = b /\ b >= 1
    BY <1>3, <1>6
  <1>10. IsAssistant(t[b]) /\ c <= t[b].calls
    BY <1>5, <1>6, <1>7
  <1>11. QED
    BY <1>8, <1>9, <1>10

\* Moving messages keeps calls answered, when no result is left behind.
LEMMA AnsweredShift ==
  ASSUME NEW s \in Seq(Entry), NEW t \in Seq(Entry), NEW d \in Int, Shift(s, t, d), AnsweredBut(s, 0),
         \A a \in 1..Len(t) : (Replayed(t[a]) /\ t[a].calls > 0) => a + t[a].calls <= Len(t)
  PROVE  AnsweredBut(t, 0)
  <1>1. SUFFICES ASSUME NEW a \in 1..Len(t), Replayed(t[a]), t[a].calls > 0
                 PROVE  a + t[a].calls \in 1..Len(t) /\ t[a + t[a].calls] = ToolResult(t[a].calls)
    BY DEF AnsweredBut
  <1>2. PICK k \in Nat : k = Len(t)
    BY LenProperties
  <1>3. PICK n \in Nat : n = t[a].calls /\ n > 0
    BY <1>1, ElementOfSeq, EntryFacts DEF IsAssistant, Replayed
  <1>4. a + d \in 1..Len(s) /\ s[a + d] = t[a]
    BY <1>1 DEF Shift, IsAssistant, Replayed
  <1>5. (a + d) + n \in 1..Len(s) /\ s[(a + d) + n] = ToolResult(n)
    BY <1>1, <1>3, <1>4 DEF AnsweredBut
  <1>6. a + n \in 1..Len(t) /\ (a + n) + d = (a + d) + n
    <2>1. a + n <= k /\ a \in 1..k
      BY <1>1, <1>2, <1>3
    <2>2. QED
      BY <1>2, <2>1
  <1>7. s[(a + n) + d].role = "toolResult" /\ (a + n) + d \in 1..Len(s)
    <2>1. ToolResult(n).role = "toolResult"
      BY EntryFacts
    <2>2. QED
      BY <1>5, <1>6, <2>1
  <1>8. t[a + n] = s[(a + n) + d]
    BY <1>6, <1>7 DEF Shift
  <1>9. QED
    BY <1>3, <1>5, <1>6, <1>8

\* Removing a trailing answer.
LEMMA DropSound ==
  ASSUME NEW s \in Seq(Entry), EndsWithAssistant(s)
  PROVE  /\ Followed(s) => Followed(WithoutLast(s))
         /\ AnsweredBut(s, 0) => AnsweredBut(WithoutLast(s), 0)
  <1>1. s # <<>> /\ IsAssistant(s[Len(s)])
    BY DEF EndsWithAssistant, Last
  <1>2. PICK n \in Nat : n + 1 = Len(s)
    <2>1. Len(s) \in Nat \ {0}
      BY <1>1, EmptySeq
    <2>2. Len(s) - 1 \in Nat /\ (Len(s) - 1) + 1 = Len(s)
      BY <2>1
    <2>3. QED
      BY <2>2
  <1>3. PICK t \in Seq(Entry) : t = WithoutLast(s) /\ Len(t) = n /\ \A i \in 1..n : t[i] = s[i]
    <2>1. Len(s) - 1 = n
      BY <1>2
    <2>2. QED
      BY <1>1, <2>1, WithoutLastFacts
  <1>4. Shift(s, t, 0)
    <2>1. \A i \in 1..n : i + 0 = i /\ i \in 1..n + 1
      OBVIOUS
    <2>2. QED
      BY <1>2, <1>3, <2>1 DEF Shift
  <1>5. ASSUME Followed(s) PROVE Followed(t)
    <2>1. ASSUME NEW i \in 1..Len(t), t[i].role = "toolResult" PROVE i - t[i].call >= 1
      <3>1. i \in 1..Len(s) /\ s[i] = t[i]
        BY <1>2, <1>3
      <3>2. QED
        BY <1>5, <2>1, <3>1 DEF Followed
    <2>2. QED
      BY <1>4, <1>5, <2>1, FollowedShift
  <1>6. ASSUME AnsweredBut(s, 0) PROVE AnsweredBut(t, 0)
    <2>1. ASSUME NEW a \in 1..Len(t), Replayed(t[a]), t[a].calls > 0 PROVE a + t[a].calls <= Len(t)
      <3>1. a \in 1..n + 1 /\ s[a] = t[a] /\ a # 0
        BY <1>3
      <3>2. PICK c \in Nat : c = s[a].calls
        BY <1>2, <2>1, <3>1, ElementOfSeq, EntryFacts DEF IsAssistant, Replayed
      <3>3. a + c \in 1..n + 1 /\ s[a + c] = ToolResult(c)
        BY <1>2, <1>6, <2>1, <3>1, <3>2 DEF AnsweredBut
      <3>4. a + c # n + 1
        BY <1>1, <1>2, <3>2, <3>3, EntryFacts DEF IsAssistant, Replayed
      <3>5. a + c <= n
        BY <3>3, <3>4
      <3>6. QED
        BY <1>3, <3>1, <3>2, <3>5
    <2>2. QED
      BY <1>4, <1>6, <2>1, AnsweredShift
  <1>7. QED
    BY <1>3, <1>5, <1>6

\* Keeping what follows a cut that is not at a tool result.
LEMMA KeptSound ==
  ASSUME NEW q \in Seq(Entry), NEW cut \in 2..Len(q), q[cut].role # "toolResult"
  PROVE  /\ Followed(q) => Followed(SubSeq(q, cut, Len(q)))
         /\ AnsweredBut(q, 0) => AnsweredBut(SubSeq(q, cut, Len(q)), 0)
  <1>1. PICK n \in Nat : n = Len(q) /\ cut \in 2..n
    BY LenProperties
  <1>2. PICK t \in Seq(Entry) : /\ t = SubSeq(q, cut, Len(q)) /\ Len(t) = n - cut + 1
                                /\ \A i \in 1..n - cut + 1 : t[i] = q[i + cut - 1]
    BY <1>1, KeptFacts
  <1>3. PICK d \in Nat : d = cut - 1
    <2>1. cut - 1 \in Nat
      BY <1>1
    <2>2. QED
      BY <2>1
  <1>4. \A i \in 1..Len(t) : i + d \in 1..n /\ t[i] = q[i + d]
    <2>1. \A i \in 1..n - cut + 1 : i + d \in 1..n /\ i + cut - 1 = i + d
      BY <1>1, <1>3
    <2>2. QED
      BY <1>2, <2>1
  <1>5. Shift(q, t, d)
    BY <1>1, <1>4 DEF Shift
  <1>6. ASSUME Followed(q) PROVE Followed(t)
    <2>1. ASSUME NEW i \in 1..Len(t), t[i].role = "toolResult" PROVE i - t[i].call >= 1
      <3>1. i + d \in 1..n /\ t[i] = q[i + d]
        BY <1>4
      <3>2. PICK c \in Nat : c = t[i].call
        BY <2>1, ElementOfSeq, EntryFacts
      <3>3. \A j \in ((i + d) - c + 1)..(i + d) : q[j] = ToolResult(j - ((i + d) - c))
        BY <1>1, <1>6, <2>1, <3>1, <3>2 DEF Followed
      <3>4. SUFFICES ASSUME i - c < 1 PROVE FALSE
        <4>1. i \in Int
          BY <1>1, <1>2
        <4>2. QED
          BY <3>2, <4>1
      <3>5. cut \in ((i + d) - c + 1)..(i + d) /\ cut - ((i + d) - c) \in Nat
        <4>1. i \in Int /\ i >= 1
          BY <1>1, <1>2
        <4>2. QED
          BY <1>1, <1>3, <3>2, <3>4, <4>1
      <3>6. QED
        BY <3>3, <3>5, EntryFacts
    <2>2. QED
      BY <1>5, <1>6, <2>1, FollowedShift
  <1>7. ASSUME AnsweredBut(q, 0) PROVE AnsweredBut(t, 0)
    <2>1. ASSUME NEW a \in 1..Len(t), Replayed(t[a]), t[a].calls > 0 PROVE a + t[a].calls <= Len(t)
      <3>1. a + d \in 1..n /\ t[a] = q[a + d] /\ a + d # 0
        BY <1>4
      <3>2. PICK c \in Nat : c = t[a].calls
        BY <2>1, ElementOfSeq, EntryFacts DEF IsAssistant, Replayed
      <3>3. (a + d) + c \in 1..n
        BY <1>1, <1>7, <2>1, <3>1, <3>2 DEF AnsweredBut
      <3>4. a \in Int /\ Len(t) = n - d
        BY <1>1, <1>2, <1>3
      <3>5. a + c <= n - d
        BY <3>2, <3>3, <3>4
      <3>6. QED
        BY <3>2, <3>4, <3>5
    <2>2. QED
      BY <1>5, <1>7, <2>1, AnsweredShift
  <1>8. QED
    BY <1>2, <1>6, <1>7

\* Rebuilding the transcript from what is kept.
LEMMA BuildSound ==
  ASSUME NEW q \in Seq(Entry)
  PROVE  /\ Followed(q) => Followed(BuildSessionContext(q))
         /\ AnsweredBut(q, 0) => AnsweredBut(BuildSessionContext(q), 0)
  <1>1. PICK n \in Nat : n = Len(q)
    BY LenProperties
  <1>2. PICK t \in Seq(Entry) :
            /\ t = BuildSessionContext(q) /\ Len(t) = n + 1 /\ t[1] = Summary
            /\ \A i \in 1..n : t[i + 1] = IF q[i].role = "compaction" THEN Summary ELSE q[i]
    BY <1>1, BuildFacts
  <1>3. \A i \in 1..n : \/ t[i + 1] = q[i]
                        \/ /\ t[i + 1].role \notin {"assistant", "toolResult"}
                           /\ q[i].role \notin {"assistant", "toolResult"}
    BY <1>2, EntryFacts
  <1>4. \A i \in 1..n + 1 : i = 1 \/ (i - 1 \in 1..n /\ (i - 1) + 1 = i /\ i + (-1) = i - 1)
    OBVIOUS
  <1>5. Shift(q, t, -1)
    <2>1. SUFFICES ASSUME NEW i \in 1..n + 1
          PROVE  /\ t[i].role \in {"assistant", "toolResult"} => i + (-1) \in 1..n /\ t[i] = q[i + (-1)]
                 /\ (i + (-1) \in 1..n /\ q[i + (-1)].role \in {"assistant", "toolResult"}) => t[i] = q[i + (-1)]
      BY <1>1, <1>2 DEF Shift
    <2>2. CASE i = 1
      <3>1. t[i].role = "summary"
        BY <1>2, <2>2, EntryFacts
      <3>2. i + (-1) \notin 1..n
        BY <2>2
      <3>3. QED
        BY <3>1, <3>2
    <2>3. CASE i - 1 \in 1..n /\ (i - 1) + 1 = i /\ i + (-1) = i - 1
      BY <1>3, <2>3
    <2>4. QED
      BY <1>4, <2>2, <2>3
  <1>6. ASSUME Followed(q) PROVE Followed(t)
    <2>1. ASSUME NEW i \in 1..Len(t), t[i].role = "toolResult" PROVE i - t[i].call >= 1
      <3>1. i + (-1) \in 1..n /\ t[i] = q[i + (-1)] /\ i \in 1..n + 1
        BY <1>1, <1>2, <1>5, <2>1 DEF Shift
      <3>2. PICK c \in Nat : c = t[i].call
        BY <2>1, ElementOfSeq, EntryFacts
      <3>3. (i + (-1)) - c >= 1
        BY <1>1, <1>6, <2>1, <3>1, <3>2 DEF Followed
      <3>4. i - c >= 1
        BY <3>1, <3>2, <3>3
      <3>5. QED
        BY <3>2, <3>4
    <2>2. QED
      BY <1>5, <1>6, <2>1, FollowedShift
  <1>7. ASSUME AnsweredBut(q, 0) PROVE AnsweredBut(t, 0)
    <2>1. ASSUME NEW a \in 1..Len(t), Replayed(t[a]), t[a].calls > 0 PROVE a + t[a].calls <= Len(t)
      <3>1. a + (-1) \in 1..n /\ t[a] = q[a + (-1)] /\ a \in 1..n + 1 /\ a + (-1) # 0
        BY <1>1, <1>2, <1>5, <2>1 DEF Shift, IsAssistant, Replayed
      <3>2. PICK c \in Nat : c = t[a].calls
        BY <2>1, ElementOfSeq, EntryFacts DEF IsAssistant, Replayed
      <3>3. (a + (-1)) + c \in 1..n
        BY <1>1, <1>7, <2>1, <3>1, <3>2 DEF AnsweredBut
      <3>4. a + c <= n + 1
        BY <3>1, <3>2, <3>3
      <3>5. QED
        BY <1>2, <3>2, <3>4
    <2>2. QED
      BY <1>5, <1>7, <2>1, AnsweredShift
  <1>8. QED
    BY <1>2, <1>6, <1>7

\* A new message: an answer with calls is the one that is open.
LEMMA AnsweredAppend ==
  ASSUME NEW s \in Seq(Entry), NEW e \in Entry, NEW k \in Nat, NEW j \in Nat, AnsweredBut(s, k),
         k \in 1..Len(s) => j = k,
         (Replayed(e) /\ e.calls > 0) => j = Len(s) + 1
  PROVE  AnsweredBut(Append(s, e), j)
  <1>1. PICK n \in Nat : n = Len(s)
    BY LenProperties
  <1>2. PICK t : t = Append(s, e) /\ Len(t) = n + 1 /\ (\A i \in 1..n : t[i] = s[i]) /\ t[n + 1] = e
    BY <1>1, AppendFacts
  <1>3. SUFFICES ASSUME NEW a \in 1..n + 1, a # j, Replayed(t[a]), t[a].calls > 0
                 PROVE  a + t[a].calls \in 1..n + 1 /\ t[a + t[a].calls] = ToolResult(t[a].calls)
    BY <1>2 DEF AnsweredBut
  <1>4. a # n + 1
    BY <1>1, <1>2, <1>3
  <1>5. a \in 1..n /\ t[a] = s[a]
    BY <1>2, <1>4
  <1>6. a # k
    BY <1>1, <1>3, <1>5
  <1>7. PICK c \in Nat : c = s[a].calls
    BY <1>1, <1>3, <1>5, ElementOfSeq, EntryFacts DEF IsAssistant, Replayed
  <1>8. a + c \in 1..n /\ s[a + c] = ToolResult(c)
    BY <1>1, <1>3, <1>5, <1>6, <1>7 DEF AnsweredBut
  <1>9. t[a + c] = s[a + c] /\ a + c \in 1..n + 1
    BY <1>2, <1>8
  <1>10. QED
    BY <1>5, <1>7, <1>8, <1>9

\* The open answer is answered when the results of all its calls are there.
LEMMA AnsweredClosed ==
  ASSUME NEW s \in Seq(Entry), NEW n \in Nat, Tip(s, n, n), AnsweredBut(s, Len(s) - n)
  PROVE  AnsweredBut(s, 0)
  <1>1. PICK z \in Nat : z = Len(s)
    BY LenProperties
  <1>2. PICK k \in 1..z : k = z - n /\ s[k].calls = n /\ \A j \in 1..n : s[k + j] = ToolResult(j)
    <2>1. z - n >= 1
      BY <1>1 DEF Tip
    <2>2. z - n \in 1..z
      BY <2>1
    <2>3. s[z - n].calls = n /\ \A j \in 1..n : s[z - n + j] = ToolResult(j)
      BY <1>1 DEF Tip
    <2>4. QED
      BY <2>2, <2>3
  <1>3. SUFFICES ASSUME NEW a \in 1..z, Replayed(s[a]), s[a].calls > 0
                 PROVE  a + s[a].calls \in 1..z /\ s[a + s[a].calls] = ToolResult(s[a].calls)
    BY <1>1 DEF AnsweredBut
  <1>4. CASE a # k
    BY <1>1, <1>2, <1>3, <1>4 DEF AnsweredBut
  <1>5. CASE a = k
    <2>1. s[a].calls = n /\ n > 0 /\ k + n = z
      <3>1. k = z - n /\ s[a].calls = n
        BY <1>2, <1>5
      <3>2. n > 0
        BY <1>3, <3>1
      <3>3. k + n = z
        BY <3>1
      <3>4. QED
        BY <3>1, <3>2, <3>3
    <2>2. n \in 1..n /\ z \in 1..z
      BY <1>2, <2>1
    <2>3. QED
      BY <1>2, <1>5, <2>1, <2>2
  <1>6. QED
    BY <1>4, <1>5

\* A compaction keeps answers and results together, in the log and in the transcript.
LEMMA CompactSound ==
  ASSUME log \in Seq(Entry), NEW cut \in CutPoints, NEW drop \in BOOLEAN, Compacted(cut, drop)
  PROVE  /\ Followed(log) => Followed(transcript') /\ Followed(log')
         /\ AnsweredBut(log, 0) => AnsweredBut(transcript', 0) /\ AnsweredBut(log', 0)
  <1>1. /\ cut \in 2..Len(log) /\ log[cut].role # "toolResult"
        /\ log' = Append(Kept(cut), CompactionEntry)
        /\ transcript' \in {BuildSessionContext(Kept(cut)), DropFailed(BuildSessionContext(Kept(cut)))}
    BY CompactedShape
  <1>2. PICK q \in Seq(Entry) : q = Kept(cut)
    BY CompactedShape
  <1>3. PICK b \in Seq(Entry) : b = BuildSessionContext(q)
    BY <1>2, CompactedShape
  <1>4. /\ Followed(log) => Followed(q) /\ Followed(b)
        /\ AnsweredBut(log, 0) => AnsweredBut(q, 0) /\ AnsweredBut(b, 0)
    BY <1>1, <1>2, <1>3, KeptSound, BuildSound DEF Kept
  <1>5. transcript' = b \/ (EndsWithAssistant(b) /\ transcript' = WithoutLast(b))
    BY <1>1, <1>2, <1>3 DEF DropFailed
  <1>6. /\ Followed(b) => Followed(transcript')
        /\ AnsweredBut(b, 0) => AnsweredBut(transcript', 0)
    BY <1>5, DropSound
  <1>7. PICK e \in Entry : e = CompactionEntry /\ e.role = "compaction"
    BY EntryFacts
  <1>8. /\ Followed(q) => Followed(Append(q, e))
        /\ AnsweredBut(q, 0) => AnsweredBut(Append(q, e), 0)
    <2>1. Followed(q) => Followed(Append(q, e))
      BY <1>7, FollowedAppend
    <2>2. 0 \in Nat /\ 0 \notin 1..Len(q) /\ ~Replayed(e)
      BY <1>7 DEF IsAssistant, Replayed
    <2>3. QED
      BY <2>1, <2>2, AnsweredAppend
  <1>9. QED
    BY <1>1, <1>2, <1>4, <1>6, <1>7, <1>8

\* So does the removal of a trailing answer.
LEMMA DropKeeps ==
  ASSUME transcript \in Seq(Entry), transcript' \in {transcript, DropAssistant(transcript)}
  PROVE  /\ Followed(transcript) => Followed(transcript')
         /\ AnsweredBut(transcript, 0) => AnsweredBut(transcript', 0)
  <1>1. transcript' = transcript \/ (EndsWithAssistant(transcript) /\ transcript' = WithoutLast(transcript))
    BY DEF DropAssistant
  <1>2. QED
    BY <1>1, DropSound

\* Results stay behind their answers.
LEMMA FollowKept ==
  ASSUME ATypeOK, FollowInv, BatchInv, SNext
  PROVE  FollowInv'
  <1>1. CASE (InitialPoll \/ PrepareParallel \/ LaunchParallel \/ RunSequential \/ ToolEnds \/ TurnEnd \/ PrepareDone) /\ Persist
    <2>1. UNCHANGED <<transcript>>
      BY <1>1 DEF InitialPoll, Poll, Persist, HandleMessages, Calm, PrepareParallel, LaunchParallel,
          RunSequential, ToolEnds, TurnEnd, PrepareDone, queues, inbox, tools, loopVars, archive, lists,
          history
    <2>2. log' = log
      BY <1>1, <2>1, PersistNone DEF ATypeOK, MessageTypes
    <2>3. QED
      BY <2>1, <2>2 DEF FollowInv
  <1>2. CASE EmitPrompt /\ Persist
    <2>1. PICK k \in Nat : transcript' = Append(transcript, User(k)) /\ log' = Append(log, User(k))
      BY <1>2, EmitShape
    <2>2. QED
      BY <2>1, EntryFacts, FollowedAppend DEF ATypeOK, MessageTypes, FollowInv
  <1>3. CASE Inject /\ Persist
    <2>1. PICK k \in Nat : transcript' = Append(transcript, User(k)) /\ log' = Append(log, User(k))
      BY <1>3, EmitShape
    <2>2. QED
      BY <2>1, EntryFacts, FollowedAppend DEF ATypeOK, MessageTypes, FollowInv
  <1>4. CASE EmitResult /\ Persist
    <2>1. /\ transcript' = Append(transcript, ToolResult(emitted + 1))
          /\ log' = Append(log, ToolResult(emitted + 1))
      BY <1>4, ResultShape
    <2>2. run = "tools" /\ emitted < Len(batch)
      BY <1>4 DEF EmitResult, ResultReady
    <2>3. PICK n \in Nat : Tip(transcript, n, emitted) /\ Tip(log, n, emitted) /\ left + Len(batch) <= n
      BY <2>2 DEF BatchInv
    <2>4. emitted \in Nat /\ emitted + 1 <= n
      <3>1. emitted \in Nat /\ left \in Nat /\ Len(batch) \in Nat
        BY LenProperties DEF ATypeOK, BatchTypes
      <3>2. QED
        BY <2>2, <2>3, <3>1
    <2>5. QED
      BY <2>1, <2>3, <2>4, FollowedResult DEF ATypeOK, MessageTypes, FollowInv
  <1>5. CASE BatchDone /\ Persist
    <2>1. transcript' = transcript
      BY <1>5 DEF BatchDone
    <2>2. log' = log
      BY <1>5, <2>1, PersistNone DEF ATypeOK, MessageTypes
    <2>3. QED
      BY <2>1, <2>2 DEF FollowInv
  <1>6. ASSUME NEW how \in Outcomes, NEW n \in 0..MaxCalls, Stream(how, n), HandleAnswer(how), Calm
        PROVE  FollowInv'
    <2>1. PICK a \in Entry : /\ a.role = "assistant"
                             /\ transcript' = Append(transcript, a) /\ log' = Append(log, a)
      BY <1>6, AnswerShape
    <2>2. QED
      BY <2>1, FollowedAppend DEF ATypeOK, MessageTypes, FollowInv
  <1>7. ASSUME NEW how \in Errors \cup {"aborted"}, RecordFailure, HandleAnswer(how), Calm
        PROVE  FollowInv'
    <2>1. PICK a \in Entry : /\ a.role = "assistant"
                             /\ transcript' = Append(transcript, a) /\ log' = Append(log, a)
      BY <1>7, FailureShape
    <2>2. QED
      BY <2>1, FollowedAppend DEF ATypeOK, MessageTypes, FollowInv
  <1>8. CASE ThrowOut \/ ClearQueue \/ SessionAbort \/ AbortRun
    <2>1. UNCHANGED <<transcript, log>>
      BY <1>8 DEF ThrowOut, Throw, ClearQueue, ClearAllQueues, SessionAbort, AbortRun, Abort, hostVars,
          queues, inbox, tools, loopVars, archive, lists, history
    <2>2. QED
      BY <2>1 DEF FollowInv
  <1>9. CASE CompactMidRun
    <2>1. PICK cut \in CutPoints, drop \in BOOLEAN : Compacted(cut, drop)
      BY <1>9 DEF CompactMidRun
    <2>2. QED
      BY <2>1, CompactSound DEF ATypeOK, MessageTypes, FollowInv
  <1>10. ASSUME NEW m \in Messages,
               PromptCall(m) \/ Queue(m) \/ PreflightFails(m) \/ RunRejected(m) \/ BeginRun(m) \/
               RunFinished(m) \/ PostStopped(m) \/ SleepOver(m) \/ CompactFails(m) \/ ContinueRun(m)
               \/ ContinueThrows(m) \/ Done(m)
        PROVE  FollowInv'
    <2>1. UNCHANGED <<transcript, log>>
      BY <1>10 DEF PromptCall, Queue, Steer, FollowUp, PreflightFails, RunRejected, Reject, FinishRun, Settle,
          BeginRun, Prompt, Open, RunFinished, Finish, PostStopped, SleepOver, CompactFails, ContinueRun,
          Continue, ContinueThrows, Done, queues, inbox, tools, loopVars, archive, lists, history
    <2>2. QED
      BY <2>1 DEF FollowInv
  <1>11. ASSUME NEW m \in Messages, PreflightCompacts(m)
        PROVE  FollowInv'
    <2>1. log' = log /\ transcript' \in {transcript, DropAssistant(transcript)}
      BY <1>11 DEF PreflightCompacts, RecoverOverflow, CompactBySize, Crossing, queues, inbox, tools, loopVars,
          archive, lists, history
    <2>2. QED
      BY <2>1, DropKeeps DEF ATypeOK, MessageTypes, FollowInv
  <1>12. ASSUME NEW m \in Messages, SleepCancelled(m)
        PROVE  FollowInv'
    <2>1. log' = log /\ transcript' \in {transcript, DropAssistant(transcript)}
      BY <1>12 DEF SleepCancelled, CheckCompaction, RecoverOverflow, CompactBySize, Crossing, queues, inbox,
          tools, loopVars, archive, lists, history
    <2>2. QED
      BY <2>1, DropKeeps DEF ATypeOK, MessageTypes, FollowInv
  <1>13. ASSUME NEW m \in Messages, PrepareRetry(m)
        PROVE  FollowInv'
    <2>1. log' = log /\ transcript' \in {transcript, DropAssistant(transcript)}
      BY <1>13 DEF PrepareRetry, Crossing, queues, inbox, tools, loopVars, archive, lists, history
    <2>2. QED
      BY <2>1, DropKeeps DEF ATypeOK, MessageTypes, FollowInv
  <1>14. ASSUME NEW m \in Messages, PostChecked(m)
        PROVE  FollowInv'
    <2>1. log' = log /\ transcript' \in {transcript, DropAssistant(transcript)}
      BY <1>14 DEF PostChecked, CheckCompaction, RecoverOverflow, CompactBySize, Crossing, queues, inbox, tools,
          loopVars, archive, lists, history
    <2>2. QED
      BY <2>1, DropKeeps DEF ATypeOK, MessageTypes, FollowInv
  <1>15. ASSUME NEW m \in Messages, CompactDone(m)
        PROVE  FollowInv'
    <2>1. PICK cut \in CutPoints, drop \in BOOLEAN : Compacted(cut, drop)
      <3>1. PICK cut \in CutPoints : Compacted(cut, host[m] \in {"recover", "prerecover"})
        BY <1>15 DEF CompactDone
      <3>2. Compacted(cut, TRUE) \/ Compacted(cut, FALSE)
        BY <3>1 DEF Compacted
      <3>3. QED
        BY <3>2
    <2>2. QED
      BY <2>1, CompactSound DEF ATypeOK, MessageTypes, FollowInv
  <1>16. QED
    BY <1>1, <1>2, <1>3, <1>4, <1>5, <1>6, <1>7, <1>8, <1>9, <1>10, <1>11, <1>12, <1>13, <1>14, <1>15 DEF
        SNext, Loop, LoopStep, HostStep, Persist, Calm

\* The batch accounts for the calls of its answer.
LEMMA BatchKept ==
  ASSUME ATypeOK, ~crossed', FollowInv, BatchInv, SNext
  PROVE  BatchInv'
  <1>1. CASE EmitPrompt /\ Persist
    <2>1. run' # "tools"
      BY <1>1 DEF EmitPrompt
    <2>2. QED
      BY <2>1 DEF BatchInv
  <1>2. CASE InitialPoll /\ Persist
    <2>1. run' # "tools"
      BY <1>2 DEF InitialPoll
    <2>2. QED
      BY <2>1 DEF BatchInv
  <1>3. CASE Inject /\ Persist
    <2>1. run' # "tools"
      BY <1>3 DEF Inject
    <2>2. QED
      BY <2>1 DEF BatchInv
  <1>4. CASE PrepareParallel /\ Persist
    <2>1. /\ run = "tools" /\ run' = run /\ transcript' = transcript /\ emitted' = emitted
      BY <1>4 DEF PrepareParallel
    <2>2. log' = log
      BY <1>4, <2>1, PersistNone DEF ATypeOK, MessageTypes
    <2>3. PICK n \in Nat : /\ Tip(transcript, n, emitted) /\ Tip(log, n, emitted)
                           /\ emitted <= Len(batch) /\ left + Len(batch) <= n
                           /\ ~torn => left + Len(batch) = n
      BY <2>1 DEF BatchInv
    <2>4. batch \in Seq(Calls) /\ Len(batch) \in Nat /\ left \in Nat /\ emitted \in Nat
      BY LenProperties DEF ATypeOK, BatchTypes
    <2>5. Len(batch') = Len(batch) + 1
      <3>1. PICK r \in Calls : batch' = Append(batch, r)
        BY <1>4 DEF PrepareParallel, Prepared, Calls
      <3>2. QED
        BY <2>4, <3>1, AppendFacts
    <2>6. /\ left > 0 /\ left' = IF aborted THEN 0 ELSE left - 1
          /\ ~torn' => ~torn /\ ~(aborted /\ left > 1)
      BY <1>4 DEF PrepareParallel
    <2>7. /\ emitted <= Len(batch') /\ left' + Len(batch') <= n
          /\ ~torn' => left' + Len(batch') = n
      BY <2>3, <2>4, <2>5, <2>6
    <2>8. QED
      BY <2>1, <2>2, <2>3, <2>7 DEF BatchInv
  <1>5. CASE LaunchParallel /\ Persist
    <2>1. /\ run = "tools" /\ run' = run /\ transcript' = transcript /\ emitted' = emitted
      BY <1>5 DEF LaunchParallel
    <2>2. log' = log
      BY <1>5, <2>1, PersistNone DEF ATypeOK, MessageTypes
    <2>3. PICK n \in Nat : /\ Tip(transcript, n, emitted) /\ Tip(log, n, emitted)
                           /\ emitted <= Len(batch) /\ left + Len(batch) <= n
                           /\ ~torn => left + Len(batch) = n
      BY <2>1 DEF BatchInv
    <2>4. batch \in Seq(Calls) /\ Len(batch) \in Nat /\ left \in Nat /\ emitted \in Nat
      BY LenProperties DEF ATypeOK, BatchTypes
    <2>5. Len(batch') = Len(batch)
      <3>1. batch' \in Seq(Calls) /\ DOMAIN batch' = DOMAIN batch
        BY <1>5, BatchTypesKept DEF BatchTypes, LaunchParallel
      <3>2. QED
        BY <2>4, <3>1, LenProperties
    <2>6. left' = left /\ torn' = torn
      BY <1>5 DEF LaunchParallel
    <2>7. QED
      BY <2>1, <2>2, <2>3, <2>5, <2>6 DEF BatchInv
  <1>6. CASE RunSequential /\ Persist
    <2>1. /\ run = "tools" /\ run' = run /\ transcript' = transcript /\ emitted' = emitted
      BY <1>6 DEF RunSequential
    <2>2. log' = log
      BY <1>6, <2>1, PersistNone DEF ATypeOK, MessageTypes
    <2>3. PICK n \in Nat : /\ Tip(transcript, n, emitted) /\ Tip(log, n, emitted)
                           /\ emitted <= Len(batch) /\ left + Len(batch) <= n
                           /\ ~torn => left + Len(batch) = n
      BY <2>1 DEF BatchInv
    <2>4. batch \in Seq(Calls) /\ Len(batch) \in Nat /\ left \in Nat /\ emitted \in Nat
      BY LenProperties DEF ATypeOK, BatchTypes
    <2>5. Len(batch') = Len(batch) + 1
      <3>1. PICK r \in Calls : batch' = Append(batch, r)
        BY <1>6 DEF RunSequential, Prepared, Calls
      <3>2. QED
        BY <2>4, <3>1, AppendFacts
    <2>6. left > 0 /\ left' = left - 1 /\ torn' = torn
      BY <1>6 DEF RunSequential
    <2>7. /\ emitted <= Len(batch') /\ left' + Len(batch') <= n
          /\ ~torn' => left' + Len(batch') = n
      BY <2>3, <2>4, <2>5, <2>6
    <2>8. QED
      BY <2>1, <2>2, <2>3, <2>7 DEF BatchInv
  <1>7. CASE ToolEnds /\ Persist
    <2>1. /\ run = "tools" /\ run' = run /\ transcript' = transcript /\ emitted' = emitted
      BY <1>7 DEF ToolEnds
    <2>2. log' = log
      BY <1>7, <2>1, PersistNone DEF ATypeOK, MessageTypes
    <2>3. PICK n \in Nat : /\ Tip(transcript, n, emitted) /\ Tip(log, n, emitted)
                           /\ emitted <= Len(batch) /\ left + Len(batch) <= n
                           /\ ~torn => left + Len(batch) = n
      BY <2>1 DEF BatchInv
    <2>4. batch \in Seq(Calls) /\ Len(batch) \in Nat /\ left \in Nat /\ emitted \in Nat
      BY LenProperties DEF ATypeOK, BatchTypes
    <2>5. Len(batch') = Len(batch)
      <3>1. batch' \in Seq(Calls) /\ DOMAIN batch' = DOMAIN batch
        BY <1>7, BatchTypesKept DEF BatchTypes, ToolEnds
      <3>2. QED
        BY <2>4, <3>1, LenProperties
    <2>6. left' = left /\ torn' = torn
      BY <1>7 DEF ToolEnds
    <2>7. QED
      BY <2>1, <2>2, <2>3, <2>5, <2>6 DEF BatchInv
  <1>8. CASE EmitResult /\ Persist
    <2>1. /\ run = "tools" /\ run' = run /\ batch' = batch /\ emitted' = emitted + 1 /\ emitted < Len(batch)
          /\ left' \in {0, left}
          /\ ~torn' => ~torn /\ left' = left
      <3>1. left' = (IF sequential /\ aborted THEN 0 ELSE left) /\ (left > 0 \/ left = 0)
        BY <1>8 DEF EmitResult, ATypeOK, BatchTypes
      <3>2. ~torn' => ~torn /\ ~(sequential /\ aborted /\ left > 0)
        BY <1>8 DEF EmitResult
      <3>3. /\ run = "tools" /\ run' = run /\ batch' = batch /\ emitted' = emitted + 1
            /\ emitted < Len(batch)
        BY <1>8 DEF EmitResult, ResultReady
      <3>4. QED
        BY <3>1, <3>2, <3>3
    <2>2. /\ transcript' = Append(transcript, ToolResult(emitted + 1))
          /\ log' = Append(log, ToolResult(emitted + 1))
      BY <1>8, ResultShape
    <2>3. PICK n \in Nat : /\ Tip(transcript, n, emitted) /\ Tip(log, n, emitted)
                           /\ emitted <= Len(batch) /\ left + Len(batch) <= n
                           /\ ~torn => left + Len(batch) = n
      BY <2>1 DEF BatchInv
    <2>4. Len(batch) \in Nat /\ left \in Nat /\ emitted \in Nat
      BY LenProperties DEF ATypeOK, BatchTypes
    <2>5. /\ emitted + 1 <= Len(batch) /\ emitted + 1 <= n /\ left' + Len(batch) <= n
          /\ ~torn' => left' + Len(batch) = n
      BY <2>1, <2>3, <2>4
    <2>6. /\ Tip(Append(transcript, ToolResult(emitted + 1)), n, emitted + 1)
          /\ Tip(Append(log, ToolResult(emitted + 1)), n, emitted + 1)
      BY <2>3, <2>4, <2>5, FollowedResult DEF ATypeOK, MessageTypes, FollowInv
    <2>7. QED
      BY <2>1, <2>2, <2>5, <2>6 DEF BatchInv
  <1>9. CASE BatchDone /\ Persist
    <2>1. run' # "tools"
      BY <1>9 DEF BatchDone
    <2>2. QED
      BY <2>1 DEF BatchInv
  <1>10. CASE TurnEnd /\ Persist
    <2>1. run' # "tools"
      BY <1>10 DEF TurnEnd
    <2>2. QED
      BY <2>1 DEF BatchInv
  <1>11. CASE PrepareDone /\ Persist
    <2>1. run' # "tools"
      BY <1>11 DEF PrepareDone
    <2>2. QED
      BY <2>1 DEF BatchInv
  <1>12. ASSUME NEW how \in Outcomes, NEW n \in 0..MaxCalls, Stream(how, n), HandleAnswer(how), Calm
        PROVE  BatchInv'
    <2>1. PICK a \in Entry : /\ a.role = "assistant" /\ a.calls = n /\ n \in Nat
                             /\ transcript' = Append(transcript, a) /\ log' = Append(log, a)
      BY <1>12, AnswerShape
    <2>2. ASSUME NEW s \in Seq(Entry) PROVE Tip(Append(s, a), n, 0)
      <3>1. PICK t : t = Append(s, a) /\ Len(t) = Len(s) + 1 /\ t[Len(s) + 1] = a /\ Len(s) \in Nat
        BY AppendFacts
      <3>2. Len(t) - 0 = Len(s) + 1 /\ Len(t) - 0 >= 1 /\ \A j \in 1..0 : FALSE
        BY <3>1
      <3>3. QED
        BY <2>1, <3>1, <3>2 DEF Tip, IsAssistant
    <2>3. Tip(transcript', n, 0) /\ Tip(log', n, 0)
      BY <2>1, <2>2 DEF ATypeOK, MessageTypes
    <2>4. Len(TruncatedBatch(n)) = n /\ Len(<<>>) = 0
      <3>1. n \in Nat /\ TruncatedBatch(n) \in [1..n -> Calls]
        BY <2>1 DEF TruncatedBatch, Calls
      <3>2. QED
        BY <3>1
    <2>5. run' = "tools" => (left' = 0 /\ batch' = TruncatedBatch(n)) \/ (left' = n /\ batch' = <<>>)
      <3>1. /\ run' = IF how \in Errors \cup {"aborted"} THEN "ending" ELSE IF n = 0 THEN "turnEnd" ELSE "tools"
            /\ left' = IF how = "toolUse" THEN n ELSE 0
            /\ batch' = IF how = "length" THEN TruncatedBatch(n) ELSE <<>>
            /\ <<how, n>> \in Answers
        BY <1>12 DEF Stream
      <3>2. how = "stop" => n = 0
        BY <3>1 DEF Answers, Errors
      <3>3. QED
        BY <3>1, <3>2 DEF Outcomes
    <2>6. run' = "tools" => 0 <= Len(batch') /\ left' + Len(batch') = n
      BY <2>1, <2>4, <2>5
    <2>7. run' = "tools" => left' + Len(batch') <= n
      BY <2>1, <2>6
    <2>8. emitted' = 0
      BY <1>12 DEF Stream
    <2>9. QED
      BY <2>1, <2>3, <2>6, <2>7, <2>8 DEF BatchInv
  <1>13. ASSUME NEW how \in Errors \cup {"aborted"}, RecordFailure, HandleAnswer(how), Calm
        PROVE  BatchInv'
    <2>1. run' # "tools"
      BY <1>13 DEF RecordFailure
    <2>2. QED
      BY <2>1 DEF BatchInv
  <1>14. CASE ClearQueue \/ SessionAbort \/ AbortRun
    <2>1. UNCHANGED <<run, transcript, log, emitted, batch, left, torn>>
      BY <1>14 DEF ClearQueue, ClearAllQueues, SessionAbort, AbortRun, Abort, hostVars, queues, inbox, tools,
          loopVars, archive, lists, history
    <2>2. QED
      BY <2>1 DEF BatchInv
  <1>15. CASE ThrowOut
    <2>1. run' # "tools"
      BY <1>15 DEF ThrowOut, Throw
    <2>2. QED
      BY <2>1 DEF BatchInv
  <1>16. CASE CompactMidRun
    <2>1. run' # "tools"
      BY <1>16 DEF CompactMidRun
    <2>2. QED
      BY <2>1 DEF BatchInv
  <1>17. ASSUME NEW m \in Messages,
               PromptCall(m) \/ Queue(m) \/ PreflightFails(m) \/ PostStopped(m) \/ SleepOver(m) \/
               CompactFails(m) \/ ContinueThrows(m) \/ Done(m)
        PROVE  BatchInv'
    <2>1. UNCHANGED <<run, transcript, log, emitted, batch, left, torn>>
      BY <1>17 DEF PromptCall, Queue, Steer, FollowUp, PreflightFails, PostStopped, Settle, SleepOver,
          CompactFails, ContinueThrows, Done, queues, inbox, tools, loopVars, archive, lists, history
    <2>2. QED
      BY <2>1 DEF BatchInv
  <1>18. ASSUME NEW m \in Messages, PreflightCompacts(m)
        PROVE  BatchInv'
    <2>1. run' = run /\ (run = "idle" \/ UNCHANGED <<transcript, log, emitted, batch, left, torn>>)
      BY <1>18 DEF PreflightCompacts, RecoverOverflow, CompactBySize, Crossing, queues, inbox, tools, loopVars,
          archive, lists, history
    <2>2. QED
      BY <2>1 DEF BatchInv
  <1>19. ASSUME NEW m \in Messages, RunRejected(m)
        PROVE  BatchInv'
    <2>1. run' # "tools"
      BY <1>19 DEF RunRejected, Reject, FinishRun
    <2>2. QED
      BY <2>1 DEF BatchInv
  <1>20. ASSUME NEW m \in Messages, SleepCancelled(m)
        PROVE  BatchInv'
    <2>1. run' = run /\ (run = "idle" \/ UNCHANGED <<transcript, log, emitted, batch, left, torn>>)
      BY <1>20 DEF SleepCancelled, CheckCompaction, RecoverOverflow, CompactBySize, Crossing, queues, inbox,
          tools, loopVars, archive, lists, history
    <2>2. QED
      BY <2>1 DEF BatchInv
  <1>21. ASSUME NEW m \in Messages, BeginRun(m)
        PROVE  BatchInv'
    <2>1. CASE run = "idle"
      <3>1. run' # "tools"
        BY <1>21, <2>1 DEF BeginRun, Prompt, Open
      <3>2. QED
        BY <3>1 DEF BatchInv
    <2>2. CASE run # "idle"
      BY <1>21, <2>2 DEF BeginRun, loopVars, BatchInv
    <2>3. QED
      BY <2>1, <2>2
  <1>22. ASSUME NEW m \in Messages, RunFinished(m)
        PROVE  BatchInv'
    <2>1. run' # "tools"
      BY <1>22 DEF RunFinished, Finish, FinishRun
    <2>2. QED
      BY <2>1 DEF BatchInv
  <1>23. ASSUME NEW m \in Messages, PrepareRetry(m)
        PROVE  BatchInv'
    <2>1. run' = run /\ (run = "idle" \/ UNCHANGED <<transcript, log, emitted, batch, left, torn>>)
      BY <1>23 DEF PrepareRetry, Crossing, queues, inbox, tools, loopVars, archive, lists, history
    <2>2. QED
      BY <2>1 DEF BatchInv
  <1>24. ASSUME NEW m \in Messages, PostChecked(m)
        PROVE  BatchInv'
    <2>1. run' = run /\ (run = "idle" \/ UNCHANGED <<transcript, log, emitted, batch, left, torn>>)
      BY <1>24 DEF PostChecked, CheckCompaction, RecoverOverflow, CompactBySize, Crossing, queues, inbox, tools,
          loopVars, archive, lists, history
    <2>2. QED
      BY <2>1 DEF BatchInv
  <1>25. ASSUME NEW m \in Messages, CompactDone(m)
        PROVE  BatchInv'
    <2>1. run' = run /\ (run = "idle" \/ UNCHANGED <<transcript, log, emitted, batch, left, torn>>)
      BY <1>25 DEF CompactDone, Compacted, AppendCompaction, Crossing, queues, inbox, tools, loopVars, archive,
          lists, history, Compacting
    <2>2. QED
      BY <2>1 DEF BatchInv
  <1>26. ASSUME NEW m \in Messages, ContinueRun(m)
        PROVE  BatchInv'
    <2>1. run' # "tools"
      BY <1>26 DEF ContinueRun, Continue, Open
    <2>2. QED
      BY <2>1 DEF BatchInv
  <1>27. QED
    BY <1>1, <1>2, <1>3, <1>4, <1>5, <1>6, <1>7, <1>8, <1>9, <1>10, <1>11, <1>12, <1>13, <1>14, <1>15, <1>16,
        <1>17, <1>18, <1>19, <1>20, <1>21, <1>22, <1>23, <1>24, <1>25, <1>26 DEF SNext, Loop, LoopStep,
        HostStep, Persist, Calm

\* Calls stay answered until a batch is cut short.
LEMMA AnswerKept ==
  ASSUME ATypeOK, ~crossed', BatchInv, AnswerInv, SNext
  PROVE  AnswerInv'
  <1>1. CASE (LaunchParallel \/ RunSequential \/ ToolEnds) /\ Persist
    <2>1. UNCHANGED <<run, transcript, emitted, torn>>
      BY <1>1 DEF LaunchParallel, Persist, HandleMessages, Calm, RunSequential, ToolEnds, queues, inbox,
          tools, loopVars, archive, lists, history
    <2>2. log' = log
      BY <1>1, <2>1, PersistNone DEF ATypeOK, MessageTypes
    <2>3. QED
      BY <2>1, <2>2 DEF AnswerInv, OpenAnswer
  <1>2. CASE EmitPrompt /\ Persist
    <2>1. PICK k \in Nat : transcript' = Append(transcript, User(k)) /\ log' = Append(log, User(k))
      BY <1>2, EmitShape
    <2>2. run # "tools" /\ run' = run /\ torn' = torn
      BY <1>2 DEF EmitPrompt
    <2>3. PICK e \in Entry : e = User(k) /\ ~Replayed(e)
      BY EntryFacts DEF IsAssistant, Replayed
    <2>4. \A s \in Seq(Entry) : AnsweredBut(s, 0) => AnsweredBut(Append(s, e), 0)
      <3>1. 0 \in Nat /\ \A s \in Seq(Entry) : 0 \notin 1..Len(s)
        OBVIOUS
      <3>2. QED
        BY <2>3, <3>1, AnsweredAppend
    <2>5. QED
      BY <2>1, <2>2, <2>3, <2>4 DEF AnswerInv, OpenAnswer, ATypeOK, MessageTypes
  <1>3. CASE InitialPoll /\ Persist
    <2>1. run # "tools" /\ run' # "tools" /\ transcript' = transcript /\ (torn' = torn \/ torn')
      BY <1>3 DEF InitialPoll
    <2>2. log' = log
      BY <1>3, <2>1, PersistNone DEF ATypeOK, MessageTypes
    <2>3. QED
      BY <2>1, <2>2 DEF AnswerInv, OpenAnswer
  <1>4. CASE Inject /\ Persist
    <2>1. PICK k \in Nat : transcript' = Append(transcript, User(k)) /\ log' = Append(log, User(k))
      BY <1>4, EmitShape
    <2>2. run # "tools" /\ run' = run /\ torn' = torn
      BY <1>4 DEF Inject
    <2>3. PICK e \in Entry : e = User(k) /\ ~Replayed(e)
      BY EntryFacts DEF IsAssistant, Replayed
    <2>4. \A s \in Seq(Entry) : AnsweredBut(s, 0) => AnsweredBut(Append(s, e), 0)
      <3>1. 0 \in Nat /\ \A s \in Seq(Entry) : 0 \notin 1..Len(s)
        OBVIOUS
      <3>2. QED
        BY <2>3, <3>1, AnsweredAppend
    <2>5. QED
      BY <2>1, <2>2, <2>3, <2>4 DEF AnswerInv, OpenAnswer, ATypeOK, MessageTypes
  <1>5. CASE PrepareParallel /\ Persist
    <2>1. UNCHANGED <<run, transcript, emitted>> /\ (~torn' => ~torn)
      BY <1>5 DEF PrepareParallel
    <2>2. log' = log
      BY <1>5, <2>1, PersistNone DEF ATypeOK, MessageTypes
    <2>3. QED
      BY <2>1, <2>2 DEF AnswerInv, OpenAnswer
  <1>6. CASE EmitResult /\ Persist
    <2>1. run = "tools" /\ run' = run /\ emitted' = emitted + 1 /\ emitted \in Nat /\ (~torn' => ~torn)
      BY <1>6 DEF EmitResult, ATypeOK, BatchTypes
    <2>2. PICK e \in Entry : /\ e.role = "toolResult"
                             /\ transcript' = Append(transcript, e) /\ log' = Append(log, e)
      BY <1>6, ResultShape, EntryFacts
    <2>3. PICK n \in Nat : Tip(transcript, n, emitted) /\ Tip(log, n, emitted)
      BY <2>1 DEF BatchInv
    <2>4. ASSUME NEW s \in Seq(Entry), Tip(s, n, emitted), AnsweredBut(s, Len(s) - emitted)
          PROVE  AnsweredBut(Append(s, e), Len(Append(s, e)) - (emitted + 1))
      <3>1. Len(s) \in Nat /\ Len(Append(s, e)) = Len(s) + 1 /\ Len(s) - emitted >= 1
        BY <2>4, AppendFacts DEF Tip
      <3>2. PICK k \in Nat : k = Len(s) - emitted /\ Len(Append(s, e)) - (emitted + 1) = k
        <4>1. Len(s) - emitted \in Nat /\ (Len(s) + 1) - (emitted + 1) = Len(s) - emitted
          BY <2>1, <3>1
        <4>2. QED
          BY <3>1, <4>1
      <3>3. QED
        BY <2>2, <2>4, <3>2, AnsweredAppend DEF IsAssistant, Replayed
    <2>5. QED
      BY <2>1, <2>2, <2>3, <2>4 DEF AnswerInv, OpenAnswer, ATypeOK, MessageTypes
  <1>7. CASE BatchDone /\ Persist
    <2>1. /\ run = "tools" /\ run' = "turnEnd" /\ transcript' = transcript /\ torn' = torn
          /\ left = 0 /\ emitted = Len(batch) /\ emitted \in Nat
      BY <1>7 DEF BatchDone, ATypeOK, BatchTypes
    <2>2. log' = log
      BY <1>7, <2>1, PersistNone DEF ATypeOK, MessageTypes
    <2>3. ~torn => Tip(transcript, emitted, emitted) /\ Tip(log, emitted, emitted)
      <3>1. PICK n \in Nat : /\ Tip(transcript, n, emitted) /\ Tip(log, n, emitted)
                             /\ ~torn => left + Len(batch) = n
        BY <2>1 DEF BatchInv
      <3>2. ~torn => n = emitted
        BY <2>1, <3>1
      <3>3. QED
        BY <3>1, <3>2
    <2>4. ~torn => AnsweredBut(transcript, Len(transcript) - emitted) /\ AnsweredBut(log, Len(log) - emitted)
      BY <2>1 DEF AnswerInv, OpenAnswer
    <2>5. ~torn => AnsweredBut(transcript, 0) /\ AnsweredBut(log, 0)
      BY <2>1, <2>3, <2>4, AnsweredClosed DEF ATypeOK, MessageTypes
    <2>6. QED
      BY <2>1, <2>2, <2>5 DEF AnswerInv, OpenAnswer
  <1>8. CASE TurnEnd /\ Persist
    <2>1. run # "tools" /\ run' # "tools" /\ transcript' = transcript /\ (torn' = torn \/ torn')
      BY <1>8 DEF TurnEnd
    <2>2. log' = log
      BY <1>8, <2>1, PersistNone DEF ATypeOK, MessageTypes
    <2>3. QED
      BY <2>1, <2>2 DEF AnswerInv, OpenAnswer
  <1>9. CASE PrepareDone /\ Persist
    <2>1. run # "tools" /\ run' # "tools" /\ transcript' = transcript /\ (torn' = torn \/ torn')
      BY <1>9 DEF PrepareDone
    <2>2. log' = log
      BY <1>9, <2>1, PersistNone DEF ATypeOK, MessageTypes
    <2>3. QED
      BY <2>1, <2>2 DEF AnswerInv, OpenAnswer
  <1>10. ASSUME NEW how \in Outcomes, NEW n \in 0..MaxCalls, Stream(how, n), HandleAnswer(how), Calm
        PROVE  AnswerInv'
    <2>1. PICK a \in Entry : /\ a.role = "assistant" /\ a.stopReason = StopReason(how)
                             /\ a.calls = n /\ n \in Nat
                             /\ transcript' = Append(transcript, a) /\ log' = Append(log, a)
      BY <1>10, AnswerShape
    <2>2. run # "tools" /\ emitted' = 0 /\ torn' = torn
      BY <1>10 DEF Stream
    <2>3. Replayed(a) /\ n > 0 => run' = "tools"
      <3>1. run' = IF how \in Errors \cup {"aborted"} THEN "ending" ELSE IF n = 0 THEN "turnEnd" ELSE "tools"
        BY <1>10 DEF Stream
      <3>2. Replayed(a) => how \notin Errors \cup {"aborted"}
        BY <2>1 DEF Replayed, StopReason
      <3>3. QED
        BY <2>1, <3>1, <3>2
    <2>4. ASSUME NEW s \in Seq(Entry), AnsweredBut(s, 0)
          PROVE  AnsweredBut(Append(s, a), IF run' = "tools" THEN Len(s) + 1 ELSE 0)
      <3>1. PICK j \in Nat : j = IF run' = "tools" THEN Len(s) + 1 ELSE 0
        <4>1. Len(s) + 1 \in Nat
          BY LenProperties
        <4>2. QED
          BY <4>1
      <3>2. 0 \in Nat /\ 0 \notin 1..Len(s) /\ (Replayed(a) /\ a.calls > 0 => j = Len(s) + 1)
        BY <2>1, <2>3, <3>1
      <3>3. QED
        BY <2>4, <3>1, <3>2, AnsweredAppend
    <2>5. Len(transcript') - 0 = Len(transcript) + 1 /\ Len(log') - 0 = Len(log) + 1
      <3>1. ASSUME NEW s \in Seq(Entry) PROVE Len(Append(s, a)) - 0 = Len(s) + 1
        BY AppendFacts
      <3>2. QED
        BY <2>1, <3>1 DEF ATypeOK, MessageTypes
    <2>6. ASSUME ~torn PROVE /\ AnsweredBut(transcript', IF run' = "tools" THEN Len(transcript) + 1 ELSE 0)
                             /\ AnsweredBut(log', IF run' = "tools" THEN Len(log) + 1 ELSE 0)
      BY <2>1, <2>2, <2>4, <2>6 DEF AnswerInv, OpenAnswer, ATypeOK, MessageTypes
    <2>7. CASE run' = "tools"
      BY <2>2, <2>5, <2>6, <2>7 DEF AnswerInv, OpenAnswer
    <2>8. CASE run' # "tools"
      BY <2>2, <2>6, <2>8 DEF AnswerInv, OpenAnswer
    <2>9. QED
      BY <2>7, <2>8
  <1>11. ASSUME NEW how \in Errors \cup {"aborted"}, RecordFailure, HandleAnswer(how), Calm
        PROVE  AnswerInv'
    <2>1. PICK a \in Entry : /\ a.role = "assistant" /\ a.calls = 0
                             /\ transcript' = Append(transcript, a) /\ log' = Append(log, a)
      BY <1>11, FailureShape
    <2>2. run # "tools" /\ run' # "tools" /\ torn' = torn
      BY <1>11 DEF RecordFailure
    <2>3. \A s \in Seq(Entry) : AnsweredBut(s, 0) => AnsweredBut(Append(s, a), 0)
      <3>1. 0 \in Nat /\ ~(a.calls > 0) /\ \A s \in Seq(Entry) : 0 \notin 1..Len(s)
        BY <2>1
      <3>2. QED
        BY <3>1, AnsweredAppend
    <2>4. QED
      BY <2>1, <2>2, <2>3 DEF AnswerInv, OpenAnswer, ATypeOK, MessageTypes
  <1>12. CASE ClearQueue \/ SessionAbort \/ AbortRun
    <2>1. UNCHANGED <<run, transcript, log, emitted, torn>>
      BY <1>12 DEF ClearQueue, ClearAllQueues, SessionAbort, AbortRun, Abort, hostVars, queues, inbox, tools,
          loopVars, archive, lists, history
    <2>2. QED
      BY <2>1 DEF AnswerInv, OpenAnswer
  <1>13. CASE ThrowOut
    <2>1. transcript' = transcript /\ log' = log /\ run' # "tools" /\ (~torn' => ~torn /\ run # "tools")
      BY <1>13 DEF ThrowOut, Throw
    <2>2. QED
      BY <2>1 DEF AnswerInv, OpenAnswer
  <1>14. CASE CompactMidRun
    <2>1. PICK cut \in CutPoints, drop \in BOOLEAN : Compacted(cut, drop)
      BY <1>14 DEF CompactMidRun
    <2>2. run = "prepare" /\ run' = run /\ torn' = torn
      BY <1>14 DEF CompactMidRun
    <2>3. QED
      BY <2>1, <2>2, CompactSound DEF AnswerInv, OpenAnswer, ATypeOK, MessageTypes
  <1>15. ASSUME NEW m \in Messages,
               PromptCall(m) \/ Queue(m) \/ PreflightFails(m) \/ PostStopped(m) \/ SleepOver(m) \/
               CompactFails(m) \/ ContinueThrows(m) \/ Done(m)
        PROVE  AnswerInv'
    <2>1. UNCHANGED <<run, transcript, log, emitted, torn>>
      BY <1>15 DEF PromptCall, Queue, Steer, FollowUp, PreflightFails, PostStopped, Settle, SleepOver,
          CompactFails, ContinueThrows, Done, queues, inbox, tools, loopVars, archive, lists, history
    <2>2. QED
      BY <2>1 DEF AnswerInv, OpenAnswer
  <1>16. ASSUME NEW m \in Messages, PreflightCompacts(m)
        PROVE  AnswerInv'
    <2>1. /\ run' = run /\ torn' = torn /\ emitted' = emitted /\ log' = log
          /\ transcript' = transcript \/ (run = "idle" /\ transcript' = DropAssistant(transcript))
      BY <1>16 DEF PreflightCompacts, RecoverOverflow, CompactBySize, Crossing, queues, inbox, tools, loopVars,
          archive, lists, history
    <2>2. QED
      BY <2>1, DropKeeps DEF AnswerInv, OpenAnswer, ATypeOK, MessageTypes
  <1>17. ASSUME NEW m \in Messages, RunRejected(m)
        PROVE  AnswerInv'
    <2>1. run # "tools" /\ run' # "tools" /\ transcript' = transcript /\ (torn' = torn \/ torn')
      BY <1>17 DEF RunRejected, Reject, FinishRun
    <2>2. log' = log
      BY <1>17 DEF RunRejected, Reject, FinishRun
    <2>3. QED
      BY <2>1, <2>2 DEF AnswerInv, OpenAnswer
  <1>18. ASSUME NEW m \in Messages, SleepCancelled(m)
        PROVE  AnswerInv'
    <2>1. /\ run' = run /\ torn' = torn /\ emitted' = emitted /\ log' = log
          /\ transcript' = transcript \/ (run = "idle" /\ transcript' = DropAssistant(transcript))
      BY <1>18 DEF SleepCancelled, CheckCompaction, RecoverOverflow, CompactBySize, Crossing, queues, inbox,
          tools, loopVars, archive, lists, history
    <2>2. QED
      BY <2>1, DropKeeps DEF AnswerInv, OpenAnswer, ATypeOK, MessageTypes
  <1>19. ASSUME NEW m \in Messages, BeginRun(m)
        PROVE  AnswerInv'
    <2>1. transcript' = transcript /\ log' = log /\ torn' = torn /\ emitted' = emitted
      BY <1>19 DEF BeginRun, Prompt, Open, loopVars, tools
    <2>2. run' = run \/ (run' # "tools" /\ run # "tools")
      BY <1>19 DEF BeginRun, Prompt, Open, loopVars
    <2>3. QED
      BY <2>1, <2>2 DEF AnswerInv, OpenAnswer
  <1>20. ASSUME NEW m \in Messages, RunFinished(m)
        PROVE  AnswerInv'
    <2>1. run # "tools" /\ run' # "tools" /\ transcript' = transcript /\ (torn' = torn \/ torn')
      BY <1>20 DEF RunFinished, Finish, FinishRun
    <2>2. log' = log
      BY <1>20 DEF RunFinished, Finish, FinishRun
    <2>3. QED
      BY <2>1, <2>2 DEF AnswerInv, OpenAnswer
  <1>21. ASSUME NEW m \in Messages, PrepareRetry(m)
        PROVE  AnswerInv'
    <2>1. /\ run' = run /\ torn' = torn /\ emitted' = emitted /\ log' = log
          /\ transcript' = transcript \/ (run = "idle" /\ transcript' = DropAssistant(transcript))
      BY <1>21 DEF PrepareRetry, Crossing, queues, inbox, tools, loopVars, archive, lists, history
    <2>2. QED
      BY <2>1, DropKeeps DEF AnswerInv, OpenAnswer, ATypeOK, MessageTypes
  <1>22. ASSUME NEW m \in Messages, PostChecked(m)
        PROVE  AnswerInv'
    <2>1. /\ run' = run /\ torn' = torn /\ emitted' = emitted /\ log' = log
          /\ transcript' = transcript \/ (run = "idle" /\ transcript' = DropAssistant(transcript))
      BY <1>22 DEF PostChecked, CheckCompaction, RecoverOverflow, CompactBySize, Crossing, queues, inbox, tools,
          loopVars, archive, lists, history
    <2>2. QED
      BY <2>1, DropKeeps DEF AnswerInv, OpenAnswer, ATypeOK, MessageTypes
  <1>23. ASSUME NEW m \in Messages, CompactDone(m)
        PROVE  AnswerInv'
    <2>1. PICK cut \in CutPoints, drop \in BOOLEAN : Compacted(cut, drop)
      <3>1. PICK cut \in CutPoints : Compacted(cut, host[m] \in {"recover", "prerecover"})
        BY <1>23 DEF CompactDone
      <3>2. Compacted(cut, TRUE) \/ Compacted(cut, FALSE)
        BY <3>1 DEF Compacted
      <3>3. QED
        BY <3>2
    <2>2. run = "idle" /\ run' = run /\ torn' = torn
      BY <1>23 DEF CompactDone, Crossing
    <2>3. QED
      BY <2>1, <2>2, CompactSound DEF AnswerInv, OpenAnswer, ATypeOK, MessageTypes
  <1>24. ASSUME NEW m \in Messages, ContinueRun(m)
        PROVE  AnswerInv'
    <2>1. run # "tools" /\ run' # "tools" /\ transcript' = transcript /\ (torn' = torn \/ torn')
      BY <1>24 DEF ContinueRun, Continue, Open
    <2>2. log' = log
      BY <1>24 DEF ContinueRun, Continue, Open
    <2>3. QED
      BY <2>1, <2>2 DEF AnswerInv, OpenAnswer
  <1>25. QED
    BY <1>1, <1>2, <1>3, <1>4, <1>5, <1>6, <1>7, <1>8, <1>9, <1>10, <1>11, <1>12, <1>13, <1>14, <1>15, <1>16,
        <1>17, <1>18, <1>19, <1>20, <1>21, <1>22, <1>23, <1>24 DEF SNext, Loop, LoopStep, HostStep, Persist,
        Calm

\* Answers and results belong together, in what is sent and in what is stored, until another
\* call changes the transcript under the run.
THEOREM Together == SSpec => [](~crossed => FollowInv /\ BatchInv /\ AnswerInv)
  <1>1. SInit => FollowInv /\ BatchInv /\ AnswerInv
    <2>1. SUFFICES ASSUME SInit PROVE FollowInv /\ BatchInv /\ AnswerInv
      OBVIOUS
    <2>2. transcript = <<>> /\ log = <<>> /\ run = "idle"
      BY <2>1 DEF SInit, Init
    <2>3. \A i \in 1..Len(<<>>) : FALSE
      OBVIOUS
    <2>4. Followed(<<>>) /\ AnsweredBut(<<>>, 0)
      BY <2>3 DEF Followed, AnsweredBut
    <2>5. QED
      BY <2>2, <2>4 DEF FollowInv, BatchInv, AnswerInv, OpenAnswer
  <1>2. ASSUME ATypeOK, ~crossed => FollowInv /\ BatchInv /\ AnswerInv, [SNext]_vars
        PROVE  (~crossed => FollowInv /\ BatchInv /\ AnswerInv)'
    <2>1. CASE SNext
      BY <1>2, <2>1, CrossedKept, FollowKept, BatchKept, AnswerKept
    <2>2. CASE UNCHANGED vars
      <3>1. UNCHANGED <<run, transcript, log, emitted, batch, left, torn, crossed>>
        BY <2>2 DEF vars, loopVars, hostVars, history
      <3>2. QED
        BY <1>2, <3>1 DEF FollowInv, BatchInv, AnswerInv, OpenAnswer
    <2>3. QED
      BY <1>2, <2>1, <2>2
  <1>3. QED
    BY <1>1, <1>2, Types, PTL DEF SSpec

\* ResultsFollowCalls: tool results directly follow the answer that made the calls, in the
\* order of the calls.
THEOREM ResultsInOrder == SSpec => []ResultsFollowCalls
  <1>1. ATypeOK /\ (~crossed => FollowInv /\ BatchInv /\ AnswerInv) => ResultsFollowCalls
    <2>1. SUFFICES ASSUME ATypeOK, ~crossed => FollowInv, ~crossed
                   PROVE  \A i \in DOMAIN transcript :
                             transcript[i].role = "toolResult" =>
                                 /\ i - transcript[i].call >= 1
                                 /\ IsAssistant(transcript[i - transcript[i].call])
                                 /\ transcript[i].call <= transcript[i - transcript[i].call].calls
                                 /\ \A j \in (i - transcript[i].call + 1)..i :
                                        transcript[j] = ToolResult(j - (i - transcript[i].call))
      BY DEF ResultsFollowCalls
    <2>2. DOMAIN transcript = 1..Len(transcript)
      BY LenProperties DEF ATypeOK, MessageTypes
    <2>3. QED
      BY <2>1, <2>2 DEF FollowInv, Followed
  <1>2. QED
    BY <1>1, Together, Types, PTL

\* CallsAnswered: no request is sent with unanswered calls of a replayed answer unless a
\* batch was cut short.
THEOREM AllAnswered == SSpec => []CallsAnswered
  <1>1. ATypeOK /\ (~crossed => FollowInv /\ BatchInv /\ AnswerInv) => CallsAnswered
    <2>1. SUFFICES ASSUME ATypeOK, ~crossed => AnswerInv, run = "turn", ~torn, ~crossed
                   PROVE  \A a \in DOMAIN transcript :
                             (Replayed(transcript[a]) /\ transcript[a].calls > 0) =>
                                 /\ a + transcript[a].calls \in DOMAIN transcript
                                 /\ transcript[a + transcript[a].calls] = ToolResult(transcript[a].calls)
      BY DEF CallsAnswered
    <2>2. DOMAIN transcript = 1..Len(transcript)
      BY LenProperties DEF ATypeOK, MessageTypes
    <2>3. AnsweredBut(transcript, 0) /\ \A a \in 1..Len(transcript) : a # 0
      BY <2>1 DEF AnswerInv, OpenAnswer
    <2>4. QED
      BY <2>2, <2>3 DEF AnsweredBut
  <1>2. QED
    BY <1>1, Together, Types, PTL

-----------------------------------------------------------------------------
(***************************************************************************)
(* Submitted messages                                                      *)
(***************************************************************************)

\* Membership in a queue, as messages come and go.
LEMMA InEmpty == \A m : ~In(m, <<>>) /\ Once(m, <<>>)
  BY DEF In, Once

\* What is in a queue after an append, and that it is there once.
LEMMA InAppend ==
  ASSUME NEW S, NEW q \in Seq(S), NEW e \in S, NEW m
  PROVE  /\ In(m, Append(q, e)) <=> (In(m, q) \/ m = e)
         /\ (Once(m, q) /\ (m = e => ~In(m, q))) => Once(m, Append(q, e))
  <1>1. PICK n \in Nat : n = Len(q)
    BY LenProperties
  <1>2. PICK t : t = Append(q, e) /\ Len(t) = n + 1 /\ (\A i \in 1..n : t[i] = q[i]) /\ t[n + 1] = e
    BY <1>1, AppendFacts
  <1>3. \A i \in 1..n + 1 : i \in 1..n \/ i = n + 1
    OBVIOUS
  <1>4. (1..n) \subseteq (1..n + 1) /\ n + 1 \in 1..n + 1
    OBVIOUS
  <1>5. In(m, t) <=> (In(m, q) \/ m = e)
    BY <1>1, <1>2, <1>3, <1>4 DEF In
  <1>6. ASSUME Once(m, q), m = e => ~In(m, q) PROVE Once(m, t)
    <2>1. SUFFICES ASSUME NEW i \in 1..n + 1, NEW j \in 1..n + 1, t[i] = m, t[j] = m PROVE i = j
      BY <1>2 DEF Once
    <2>2. CASE i \in 1..n /\ j \in 1..n
      BY <1>1, <1>2, <1>6, <2>1, <2>2 DEF Once
    <2>3. CASE i = n + 1 \/ j = n + 1
      BY <1>1, <1>2, <1>3, <1>6, <2>1, <2>3 DEF In
    <2>4. QED
      BY <1>3, <2>2, <2>3
  <1>7. QED
    BY <1>2, <1>5, <1>6

\* What is in a queue of one.
LEMMA InOne ==
  ASSUME NEW x, NEW m
  PROVE  (In(m, <<x>>) <=> m = x) /\ Once(m, <<x>>)
  <1>1. Len(<<x>>) = 1 /\ <<x>>[1] = x /\ \A i \in 1..1 : i = 1
    OBVIOUS
  <1>2. QED
    BY <1>1 DEF In, Once

\* What is in a queue after its head is taken.
LEMMA InTail ==
  ASSUME NEW S, NEW q \in Seq(S), q # <<>>, NEW m, Once(m, q)
  PROVE  /\ In(m, Tail(q)) <=> (In(m, q) /\ m # Head(q))
         /\ m = Head(q) => In(m, q)
         /\ Once(m, Tail(q))
  <1>1. PICK n \in Nat : n = Len(q) /\ n # 0
    BY EmptySeq
  <1>2. PICK t : t = Tail(q) /\ Len(t) = n - 1 /\ \A i \in 1..n - 1 : t[i] = q[i + 1]
    <2>1. Tail(q) \in Seq(S) /\ Len(Tail(q)) = Len(q) - 1 /\ \A i \in 1..Len(Tail(q)) : Tail(q)[i] = q[i + 1]
      BY HeadTailProperties
    <2>2. Len(Tail(q)) = n - 1
      BY <1>1, <2>1
    <2>3. QED
      BY <2>1, <2>2
  <1>3. Head(q) = q[1] /\ 1 \in 1..n
    BY <1>1, HeadTailProperties
  <1>4. \A i \in 1..n - 1 : i + 1 \in 1..n /\ i + 1 # 1
    BY <1>1
  <1>5. \A i \in 1..n : i = 1 \/ (i - 1 \in 1..n - 1 /\ (i - 1) + 1 = i)
    BY <1>1
  <1>6. m = Head(q) => In(m, q)
    BY <1>1, <1>3 DEF In
  <1>7. ASSUME In(m, t) PROVE In(m, q) /\ m # Head(q)
    <2>1. PICK i \in 1..n - 1 : q[i + 1] = m
      BY <1>2, <1>7 DEF In
    <2>2. QED
      BY <1>1, <1>3, <1>4, <2>1 DEF In, Once
  <1>8. ASSUME In(m, q), m # Head(q) PROVE In(m, t)
    <2>1. PICK i \in 1..n : q[i] = m
      BY <1>1, <1>8 DEF In
    <2>2. i # 1
      BY <1>3, <1>8, <2>1
    <2>3. t[i - 1] = m /\ i - 1 \in 1..n - 1
      BY <1>2, <1>5, <2>1, <2>2
    <2>4. QED
      BY <1>2, <2>3 DEF In
  <1>9. Once(m, t)
    <2>1. SUFFICES ASSUME NEW i \in 1..n - 1, NEW j \in 1..n - 1, t[i] = m, t[j] = m PROVE i = j
      BY <1>2 DEF Once
    <2>2. i + 1 = j + 1
      BY <1>1, <1>2, <1>4, <2>1 DEF Once
    <2>3. QED
      BY <2>2
  <1>10. QED
    BY <1>2, <1>6, <1>7, <1>8, <1>9

\* Draining moves at most one message.
LEMMA InDrained ==
  ASSUME NEW q \in Seq(Nat), NEW m, Once(m, q)
  PROVE  /\ In(m, Rest(q)) <=> (In(m, q) /\ ~In(m, Drained(q)))
         /\ In(m, Drained(q)) => In(m, q)
         /\ Once(m, Rest(q)) /\ Once(m, Drained(q))
  <1>1. CASE q = <<>>
    BY <1>1, InEmpty DEF Drained, Rest
  <1>2. CASE q # <<>>
    <2>1. Drained(q) = <<Head(q)>> /\ Rest(q) = Tail(q)
      BY <1>2 DEF Drained, Rest
    <2>2. (In(m, Drained(q)) <=> m = Head(q)) /\ Once(m, Drained(q))
      BY <2>1, InOne
    <2>3. QED
      BY <1>2, <2>1, <2>2, InTail
  <1>3. QED
    BY <1>1, <1>2

\* What compaction leaves behind of the log.
LEMMA InKept ==
  ASSUME NEW q \in Seq(Entry), NEW cut \in 2..Len(q), NEW e, Once(e, q)
  PROVE  /\ In(e, q) <=> (In(e, SubSeq(q, cut, Len(q))) \/ \E i \in 1..cut - 1 : q[i] = e)
         /\ ~(In(e, SubSeq(q, cut, Len(q))) /\ \E i \in 1..cut - 1 : q[i] = e)
         /\ Once(e, SubSeq(q, cut, Len(q)))
  <1>1. PICK n \in Nat : n = Len(q) /\ cut \in 2..n
    BY LenProperties
  <1>2. PICK t : /\ t = SubSeq(q, cut, Len(q)) /\ Len(t) = n - cut + 1
                 /\ \A i \in 1..n - cut + 1 : t[i] = q[i + cut - 1]
    BY <1>1, KeptFacts
  <1>3. \A i \in 1..n - cut + 1 : i + cut - 1 \in 1..n /\ i + cut - 1 \notin 1..cut - 1
    BY <1>1
  <1>4. \A i \in 1..n : i \in 1..cut - 1 \/ (i - cut + 1 \in 1..n - cut + 1 /\ (i - cut + 1) + cut - 1 = i)
    BY <1>1
  <1>5. \A i \in 1..cut - 1 : i \in 1..n
    BY <1>1
  <1>6. In(e, t) => \E i \in 1..n : q[i] = e /\ i \notin 1..cut - 1
    BY <1>2, <1>3 DEF In
  <1>7. ASSUME NEW i \in 1..n, q[i] = e, i \notin 1..cut - 1 PROVE In(e, t)
    <2>1. t[i - cut + 1] = e /\ i - cut + 1 \in 1..n - cut + 1
      BY <1>2, <1>4, <1>7
    <2>2. QED
      BY <1>2, <2>1 DEF In
  <1>8. Once(e, t)
    <2>1. SUFFICES ASSUME NEW i \in 1..n - cut + 1, NEW j \in 1..n - cut + 1, t[i] = e, t[j] = e PROVE i = j
      BY <1>2 DEF Once
    <2>2. i + cut - 1 = j + cut - 1
      BY <1>1, <1>2, <1>3, <2>1 DEF Once
    <2>3. QED
      BY <1>1, <2>2
  <1>9. In(e, q) <=> (In(e, t) \/ \E i \in 1..cut - 1 : q[i] = e)
    BY <1>1, <1>5, <1>6, <1>7 DEF In
  <1>10. ~(In(e, t) /\ \E i \in 1..cut - 1 : q[i] = e)
    BY <1>1, <1>5, <1>6 DEF Once
  <1>11. QED
    BY <1>2, <1>8, <1>9, <1>10

\* In a sequence that holds m at most once, the number of occurrences is 0 or 1.
LEMMA OccurrencesOnce ==
  ASSUME NEW S, NEW q \in Seq(S), NEW m, Once(m, q)
  PROVE  Occurrences(m, q) = IF In(m, q) THEN 1 ELSE 0
  <1> DEFINE I == {i \in DOMAIN q : q[i] = m}
  <1>1. DOMAIN q = 1..Len(q)
    BY LenProperties
  <1>2. Occurrences(m, q) = Cardinality(I)
    BY DEF Occurrences
  <1>3. CASE In(m, q)
    <2>1. PICK i \in 1..Len(q) : q[i] = m
      BY <1>3 DEF In
    <2>2. I = {i}
      BY <1>1, <2>1 DEF Once
    <2>3. QED
      BY <1>2, <1>3, <2>2, FS_Singleton
  <1>4. CASE ~In(m, q)
    <2>1. I = {}
      BY <1>1, <1>4 DEF In
    <2>2. QED
      BY <1>2, <1>4, <2>1, FS_EmptySet
  <1>5. QED
    BY <1>3, <1>4

\* Steps that move every message from one place to one place keep the invariants.
LEMMA PlacesKept ==
  ASSUME PlaceInv, limits' = limits, returned \subseteq returned', given' \in Nat, given' <= limits.messages,
         \A k \in Messages : OnceAt(k)' /\ Moves(k)
  PROVE  OnceInv' /\ PlaceInv'
  <1>1. PICK M : M = Messages /\ M = Messages'
    BY DEF Messages
  <1>2. OnceInv'
    BY <1>1 DEF OnceInv
  <1>3. ASSUME NEW k \in M
        PROVE  /\ \A p, r \in PlaceNames : (At(k, p)' /\ At(k, r)') => p = r
               /\ \A p \in PlaceNames : At(k, p)' => k <= given'
               /\ k <= given' => (k \in returned' \/ \E p \in PlaceNames : At(k, p)')
    <2>1. /\ \A p, r \in PlaceNames : (At(k, p) /\ At(k, r)) => p = r
          /\ \A p \in PlaceNames : At(k, p) => k <= given
          /\ k <= given => (k \in returned \/ \E p \in PlaceNames : At(k, p))
      BY <1>1 DEF PlaceInv
    <2>2. CASE (k <= given' <=> k <= given) /\ \A p \in PlaceNames : At(k, p)' <=> At(k, p)
      BY <2>1, <2>2
    <2>3. CASE k <= given' /\ \E p \in PlaceNames : \A r \in PlaceNames : At(k, r)' <=> r = p
      BY <2>3
    <2>4. CASE k \in returned' /\ \A p \in PlaceNames : ~At(k, p)'
      BY <2>4
    <2>5. QED
      BY <1>1, <2>2, <2>3, <2>4 DEF Moves
  <1>4. QED
    BY <1>1, <1>2, <1>3 DEF PlaceInv

\* Steps that change none of the places.
LEMMA PlaceSame ==
  ASSUME OnceInv, PlaceInv, UNCHANGED <<steering, followUp, prompts, pending, log, summarized, gone, returned, given, limits>>,
         \A k \in Messages : host'[k] \in Preflight <=> host[k] \in Preflight
  PROVE  OnceInv' /\ PlaceInv'
  <1>1. \A k \in Messages : OnceAt(k)'
    BY DEF OnceInv, OnceAt
  <1>2. \A k \in Messages : Moves(k)
    BY DEF Moves, At
  <1>3. given' \in Nat /\ given' <= limits.messages
    BY DEF PlaceInv
  <1>4. QED
    BY <1>1, <1>2, <1>3, PlacesKept

\* A call that goes on, before or after the start of its run.
LEMMA HostSame ==
  ASSUME HostTypes, NEW m \in Messages, NEW x, host' = [host EXCEPT ![m] = x],
         x \in Preflight <=> host[m] \in Preflight
  PROVE  \A k \in Messages : host'[k] \in Preflight <=> host[k] \in Preflight
  BY DEF HostTypes

\* Messages of the log and the user's messages in it.
LEMMA InLog ==
  ASSUME log \in Seq(Entry), NEW e \in Entry, NEW k \in Nat
  PROVE  /\ e.role # "user" => (In(User(k), Append(log, e)) <=> In(User(k), log))
         /\ \A h \in Nat : e = User(h) => (In(User(k), Append(log, e)) <=> In(User(k), log) \/ k = h)
         /\ (Once(User(k), log) /\ (e = User(k) => ~In(User(k), log))) => Once(User(k), Append(log, e))
  <1>1. User(k).role = "user" /\ \A h \in Nat : User(h) = User(k) => h = k
    BY DEF User
  <1>2. QED
    BY <1>1, InAppend

\* A message of the run that is not the user's goes to the log.
LEMMA LogGrows ==
  ASSUME ATypeOK, OnceInv, PlaceInv, NEW e \in Entry, e.role # "user", log' = Append(log, e),
         UNCHANGED <<steering, followUp, prompts, pending, summarized, host, gone, returned, given, limits>>
  PROVE  OnceInv' /\ PlaceInv'
  <1>1. SUFFICES ASSUME NEW k \in Messages PROVE OnceAt(k)' /\ Moves(k)
    BY PlacesKept DEF PlaceInv
  <1>2. k \in Nat /\ log \in Seq(Entry)
    BY DEF Messages, ATypeOK, MessageTypes
  <1>3. e # User(k)
    BY <1>2, EntryFacts
  <1>4. (In(User(k), log') <=> In(User(k), log)) /\ (Once(User(k), log) => Once(User(k), log'))
    BY <1>2, <1>3, InLog
  <1>5. OnceAt(k)'
    BY <1>4 DEF OnceInv, OnceAt
  <1>6. Moves(k)
    BY <1>4 DEF Moves, At
  <1>7. QED
    BY <1>5, <1>6

\* A steering message is taken by the loop.
LEMMA SteeringMoves ==
  ASSUME ATypeOK, OnceInv, PlaceInv, pending = <<>>, steering' = Rest(steering), pending' = Drained(steering),
         UNCHANGED <<followUp, prompts, log, summarized, gone, returned, given, limits>>,
         \A k \in Messages : host'[k] \in Preflight <=> host[k] \in Preflight
  PROVE  OnceInv' /\ PlaceInv'
  <1>1. SUFFICES ASSUME NEW k \in Messages PROVE OnceAt(k)' /\ Moves(k)
    BY PlacesKept DEF PlaceInv
  <1>2. /\ In(k, steering') <=> (In(k, steering) /\ ~In(k, pending'))
        /\ In(k, pending') => In(k, steering)
        /\ Once(k, steering') /\ Once(k, pending') /\ ~In(k, pending)
    BY InDrained, InEmpty DEF ATypeOK, QueueTypes, OnceInv, OnceAt
  <1>3. OnceAt(k)'
    BY <1>2 DEF OnceInv, OnceAt
  <1>4. CASE In(k, pending')
    <2>1. At(k, "steering") /\ k <= given'
      BY <1>2, <1>4 DEF At, PlaceInv, PlaceNames
    <2>2. \A r \in PlaceNames : At(k, r) => r = "steering"
      BY <2>1 DEF PlaceInv, PlaceNames
    <2>3. \A r \in PlaceNames : At(k, r)' <=> r = "pending"
      BY <1>2, <1>4, <2>2 DEF At, PlaceNames
    <2>4. QED
      BY <1>3, <2>1, <2>3 DEF Moves, PlaceNames
  <1>5. CASE ~(In(k, pending'))
    <2>1. \A r \in PlaceNames : At(k, r)' <=> At(k, r)
      BY <1>2, <1>5 DEF At, PlaceNames
    <2>2. QED
      BY <1>3, <2>1 DEF Moves
  <1>6. QED
    BY <1>4, <1>5

\* A follow-up is taken by the loop.
LEMMA FollowUpMoves ==
  ASSUME ATypeOK, OnceInv, PlaceInv, pending = <<>>, followUp' = Rest(followUp), pending' = Drained(followUp),
         UNCHANGED <<steering, prompts, log, summarized, gone, returned, given, limits>>,
         \A k \in Messages : host'[k] \in Preflight <=> host[k] \in Preflight
  PROVE  OnceInv' /\ PlaceInv'
  <1>1. SUFFICES ASSUME NEW k \in Messages PROVE OnceAt(k)' /\ Moves(k)
    BY PlacesKept DEF PlaceInv
  <1>2. /\ In(k, followUp') <=> (In(k, followUp) /\ ~In(k, pending'))
        /\ In(k, pending') => In(k, followUp)
        /\ Once(k, followUp') /\ Once(k, pending') /\ ~In(k, pending)
    BY InDrained, InEmpty DEF ATypeOK, QueueTypes, OnceInv, OnceAt
  <1>3. OnceAt(k)'
    BY <1>2 DEF OnceInv, OnceAt
  <1>4. CASE In(k, pending')
    <2>1. At(k, "followUp") /\ k <= given'
      BY <1>2, <1>4 DEF At, PlaceInv, PlaceNames
    <2>2. \A r \in PlaceNames : At(k, r) => r = "followUp"
      BY <2>1 DEF PlaceInv, PlaceNames
    <2>3. \A r \in PlaceNames : At(k, r)' <=> r = "pending"
      BY <1>2, <1>4, <2>2 DEF At, PlaceNames
    <2>4. QED
      BY <1>3, <2>1, <2>3 DEF Moves, PlaceNames
  <1>5. CASE ~(In(k, pending'))
    <2>1. \A r \in PlaceNames : At(k, r)' <=> At(k, r)
      BY <1>2, <1>5 DEF At, PlaceNames
    <2>2. QED
      BY <1>3, <2>1 DEF Moves
  <1>6. QED
    BY <1>4, <1>5

\* A run starts from a steering message.
LEMMA SteeringStarts ==
  ASSUME ATypeOK, OnceInv, PlaceInv, prompts = <<>>, steering' = Rest(steering), prompts' = Drained(steering),
         UNCHANGED <<followUp, pending, log, summarized, gone, returned, given, limits>>,
         \A k \in Messages : host'[k] \in Preflight <=> host[k] \in Preflight
  PROVE  OnceInv' /\ PlaceInv'
  <1>1. SUFFICES ASSUME NEW k \in Messages PROVE OnceAt(k)' /\ Moves(k)
    BY PlacesKept DEF PlaceInv
  <1>2. /\ In(k, steering') <=> (In(k, steering) /\ ~In(k, prompts'))
        /\ In(k, prompts') => In(k, steering)
        /\ Once(k, steering') /\ Once(k, prompts') /\ ~In(k, prompts)
    BY InDrained, InEmpty DEF ATypeOK, QueueTypes, OnceInv, OnceAt
  <1>3. OnceAt(k)'
    BY <1>2 DEF OnceInv, OnceAt
  <1>4. CASE In(k, prompts')
    <2>1. At(k, "steering") /\ k <= given'
      BY <1>2, <1>4 DEF At, PlaceInv, PlaceNames
    <2>2. \A r \in PlaceNames : At(k, r) => r = "steering"
      BY <2>1 DEF PlaceInv, PlaceNames
    <2>3. \A r \in PlaceNames : At(k, r)' <=> r = "prompts"
      BY <1>2, <1>4, <2>2 DEF At, PlaceNames
    <2>4. QED
      BY <1>3, <2>1, <2>3 DEF Moves, PlaceNames
  <1>5. CASE ~(In(k, prompts'))
    <2>1. \A r \in PlaceNames : At(k, r)' <=> At(k, r)
      BY <1>2, <1>5 DEF At, PlaceNames
    <2>2. QED
      BY <1>3, <2>1 DEF Moves
  <1>6. QED
    BY <1>4, <1>5

\* A run starts from a follow-up.
LEMMA FollowUpStarts ==
  ASSUME ATypeOK, OnceInv, PlaceInv, prompts = <<>>, followUp' = Rest(followUp), prompts' = Drained(followUp),
         UNCHANGED <<steering, pending, log, summarized, gone, returned, given, limits>>,
         \A k \in Messages : host'[k] \in Preflight <=> host[k] \in Preflight
  PROVE  OnceInv' /\ PlaceInv'
  <1>1. SUFFICES ASSUME NEW k \in Messages PROVE OnceAt(k)' /\ Moves(k)
    BY PlacesKept DEF PlaceInv
  <1>2. /\ In(k, followUp') <=> (In(k, followUp) /\ ~In(k, prompts'))
        /\ In(k, prompts') => In(k, followUp)
        /\ Once(k, followUp') /\ Once(k, prompts') /\ ~In(k, prompts)
    BY InDrained, InEmpty DEF ATypeOK, QueueTypes, OnceInv, OnceAt
  <1>3. OnceAt(k)'
    BY <1>2 DEF OnceInv, OnceAt
  <1>4. CASE In(k, prompts')
    <2>1. At(k, "followUp") /\ k <= given'
      BY <1>2, <1>4 DEF At, PlaceInv, PlaceNames
    <2>2. \A r \in PlaceNames : At(k, r) => r = "followUp"
      BY <2>1 DEF PlaceInv, PlaceNames
    <2>3. \A r \in PlaceNames : At(k, r)' <=> r = "prompts"
      BY <1>2, <1>4, <2>2 DEF At, PlaceNames
    <2>4. QED
      BY <1>3, <2>1, <2>3 DEF Moves, PlaceNames
  <1>5. CASE ~(In(k, prompts'))
    <2>1. \A r \in PlaceNames : At(k, r)' <=> At(k, r)
      BY <1>2, <1>5 DEF At, PlaceNames
    <2>2. QED
      BY <1>3, <2>1 DEF Moves
  <1>6. QED
    BY <1>4, <1>5

\* A prompt is emitted.
LEMMA PromptMoves ==
  ASSUME ATypeOK, OnceInv, PlaceInv, prompts # <<>>, prompts' = Tail(prompts), log' = Append(log, User(Head(prompts))),
         UNCHANGED <<steering, followUp, pending, summarized, host, gone, returned, given, limits>>
  PROVE  OnceInv' /\ PlaceInv'
  <1>1. SUFFICES ASSUME NEW k \in Messages PROVE OnceAt(k)' /\ Moves(k)
    BY PlacesKept DEF PlaceInv
  <1>2. PICK h \in Nat : h = Head(prompts)
    BY HeadTailProperties DEF ATypeOK, QueueTypes
  <1>3. k \in Nat /\ User(h) \in Entry /\ log \in Seq(Entry) /\ (User(h) = User(k) => h = k)
    BY EntryFacts DEF Messages, ATypeOK, MessageTypes, User
  <1>4. /\ In(k, prompts') <=> (In(k, prompts) /\ k # h)
        /\ k = h => In(k, prompts)
        /\ Once(k, prompts')
    BY <1>2, InTail DEF ATypeOK, QueueTypes, OnceInv, OnceAt
  <1>5. In(User(k), log') <=> (In(User(k), log) \/ k = h)
    BY <1>2, <1>3, InLog
  <1>6. Once(User(k), log')
    <2>1. k = h => ~In(User(k), log)
      BY <1>4 DEF PlaceInv, At, PlaceNames
    <2>2. Once(User(k), log)
      BY DEF OnceInv, OnceAt
    <2>3. QED
      BY <1>2, <1>3, <2>1, <2>2, InLog
  <1>7. OnceAt(k)'
    BY <1>4, <1>6 DEF OnceInv, OnceAt
  <1>8. CASE k = h
    <2>1. At(k, "prompts") /\ k <= given'
      BY <1>4, <1>5, <1>8 DEF At, PlaceInv, PlaceNames
    <2>2. \A r \in PlaceNames : At(k, r) => r = "prompts"
      BY <2>1 DEF PlaceInv, PlaceNames
    <2>3. \A r \in PlaceNames : At(k, r)' <=> r = "log"
      BY <1>4, <1>5, <1>8, <2>2 DEF At, PlaceNames
    <2>4. QED
      BY <1>7, <2>1, <2>3 DEF Moves, PlaceNames
  <1>9. CASE ~(k = h)
    <2>1. \A r \in PlaceNames : At(k, r)' <=> At(k, r)
      BY <1>4, <1>5, <1>9 DEF At, PlaceNames
    <2>2. QED
      BY <1>7, <2>1 DEF Moves
  <1>10. QED
    BY <1>8, <1>9

\* A pending message is injected.
LEMMA PendingMoves ==
  ASSUME ATypeOK, OnceInv, PlaceInv, pending # <<>>, pending' = Tail(pending), log' = Append(log, User(Head(pending))),
         UNCHANGED <<steering, followUp, prompts, summarized, host, gone, returned, given, limits>>
  PROVE  OnceInv' /\ PlaceInv'
  <1>1. SUFFICES ASSUME NEW k \in Messages PROVE OnceAt(k)' /\ Moves(k)
    BY PlacesKept DEF PlaceInv
  <1>2. PICK h \in Nat : h = Head(pending)
    BY HeadTailProperties DEF ATypeOK, QueueTypes
  <1>3. k \in Nat /\ User(h) \in Entry /\ log \in Seq(Entry) /\ (User(h) = User(k) => h = k)
    BY EntryFacts DEF Messages, ATypeOK, MessageTypes, User
  <1>4. /\ In(k, pending') <=> (In(k, pending) /\ k # h)
        /\ k = h => In(k, pending)
        /\ Once(k, pending')
    BY <1>2, InTail DEF ATypeOK, QueueTypes, OnceInv, OnceAt
  <1>5. In(User(k), log') <=> (In(User(k), log) \/ k = h)
    BY <1>2, <1>3, InLog
  <1>6. Once(User(k), log')
    <2>1. k = h => ~In(User(k), log)
      BY <1>4 DEF PlaceInv, At, PlaceNames
    <2>2. Once(User(k), log)
      BY DEF OnceInv, OnceAt
    <2>3. QED
      BY <1>2, <1>3, <2>1, <2>2, InLog
  <1>7. OnceAt(k)'
    BY <1>4, <1>6 DEF OnceInv, OnceAt
  <1>8. CASE k = h
    <2>1. At(k, "pending") /\ k <= given'
      BY <1>4, <1>5, <1>8 DEF At, PlaceInv, PlaceNames
    <2>2. \A r \in PlaceNames : At(k, r) => r = "pending"
      BY <2>1 DEF PlaceInv, PlaceNames
    <2>3. \A r \in PlaceNames : At(k, r)' <=> r = "log"
      BY <1>4, <1>5, <1>8, <2>2 DEF At, PlaceNames
    <2>4. QED
      BY <1>7, <2>1, <2>3 DEF Moves, PlaceNames
  <1>9. CASE ~(k = h)
    <2>1. \A r \in PlaceNames : At(k, r)' <=> At(k, r)
      BY <1>4, <1>5, <1>9 DEF At, PlaceNames
    <2>2. QED
      BY <1>7, <2>1 DEF Moves
  <1>10. QED
    BY <1>8, <1>9

\* What the loop held is gone with it.
LEMMA HeldLost ==
  ASSUME ATypeOK, OnceInv, PlaceInv, prompts' = <<>>, pending' = <<>>,
         \A k : k \in gone' <=> (k \in gone \/ In(k, prompts) \/ In(k, pending)),
         UNCHANGED <<steering, followUp, log, summarized, host, returned, given, limits>>
  PROVE  OnceInv' /\ PlaceInv'
  <1>1. SUFFICES ASSUME NEW k \in Messages PROVE OnceAt(k)' /\ Moves(k)
    BY PlacesKept DEF PlaceInv
  <1>2. ~In(k, prompts') /\ ~In(k, pending') /\ Once(k, prompts') /\ Once(k, pending')
    BY InEmpty
  <1>3. OnceAt(k)'
    BY <1>2 DEF OnceInv, OnceAt
  <1>4. CASE In(k, prompts) \/ In(k, pending)
    <2>1. PICK s \in {"prompts", "pending"} : At(k, s) /\ k <= given'
      BY <1>4 DEF At, PlaceInv, PlaceNames
    <2>2. \A r \in PlaceNames : At(k, r) => r = s
      BY <2>1 DEF PlaceInv, PlaceNames
    <2>3. \A r \in PlaceNames : At(k, r)' <=> r = "gone"
      BY <1>2, <1>4, <2>1, <2>2 DEF At, PlaceNames
    <2>4. QED
      BY <1>3, <2>1, <2>3 DEF Moves, PlaceNames
  <1>5. CASE ~(In(k, prompts) \/ In(k, pending))
    <2>1. \A r \in PlaceNames : At(k, r)' <=> At(k, r)
      BY <1>2, <1>5 DEF At, PlaceNames
    <2>2. QED
      BY <1>3, <2>1 DEF Moves
  <1>6. QED
    BY <1>4, <1>5

\* clearQueue(): what is queued is given back, and what the run holds stays where it is.
LEMMA QueuedCleared ==
  ASSUME ATypeOK, OnceInv, PlaceInv, ListInv, ClearQueue
  PROVE  OnceInv' /\ PlaceInv'
  <1>1. /\ steering' = <<>> /\ followUp' = <<>> /\ returned' = returned \cup listed
        /\ UNCHANGED <<prompts, pending, log, summarized, host, gone, given, limits>>
    BY DEF ClearQueue, ClearAllQueues, inbox, archive
  <1>2. SUFFICES ASSUME NEW k \in Messages PROVE OnceAt(k)' /\ Moves(k)
    BY <1>1, PlacesKept DEF PlaceInv
  <1>3. ~In(k, steering') /\ ~In(k, followUp') /\ Once(k, steering') /\ Once(k, followUp')
    BY <1>1, InEmpty
  <1>4. OnceAt(k)'
    BY <1>1, <1>3 DEF OnceInv, OnceAt
  <1>5. CASE InQueue(k)
    <2>1. PICK s \in {"steering", "followUp"} : At(k, s)
      BY <1>5 DEF At, InQueue
    <2>2. \A r \in PlaceNames : At(k, r) => r = s
      BY <2>1 DEF PlaceInv, PlaceNames
    <2>3. \A r \in PlaceNames : ~At(k, r)'
      BY <1>1, <1>3, <2>1, <2>2 DEF At, PlaceNames
    <2>4. k \in returned'
      BY <1>1, <1>5 DEF ListInv
    <2>5. QED
      BY <1>4, <2>3, <2>4 DEF Moves
  <1>6. CASE ~InQueue(k)
    <2>1. \A r \in PlaceNames : At(k, r)' <=> At(k, r)
      BY <1>1, <1>3, <1>6 DEF At, PlaceNames, InQueue
    <2>2. QED
      BY <1>1, <1>4, <2>1 DEF Moves
  <1>7. QED
    BY <1>5, <1>6

\* The message of a call becomes the prompt of a run.
LEMMA CallStarts ==
  ASSUME ATypeOK, OnceInv, PlaceInv, NEW m \in Messages,
         host[m] \in Preflight, prompts = <<>>, pending = <<>>, prompts' = <<m>>, pending' = <<>>,
         host' = [host EXCEPT ![m] = "run"],
         UNCHANGED <<steering, followUp, log, summarized, gone, returned, given, limits>>
  PROVE  OnceInv' /\ PlaceInv'
  <1>1. SUFFICES ASSUME NEW k \in Messages PROVE OnceAt(k)' /\ Moves(k)
    BY PlacesKept DEF PlaceInv
  <1>2. /\ In(k, prompts') <=> k = m
        /\ host[m] \in Preflight /\ (host'[k] \in Preflight <=> (host[k] \in Preflight /\ k # m))
        /\ Once(k, prompts') /\ ~In(k, prompts)
    BY InOne, InEmpty DEF ATypeOK, HostTypes, Preflight
  <1>3. OnceAt(k)'
    BY <1>2 DEF OnceInv, OnceAt
  <1>4. CASE k = m
    <2>1. At(k, "preflight") /\ k <= given'
      BY <1>2, <1>4 DEF At, PlaceInv, PlaceNames
    <2>2. \A r \in PlaceNames : At(k, r) => r = "preflight"
      BY <2>1 DEF PlaceInv, PlaceNames
    <2>3. \A r \in PlaceNames : At(k, r)' <=> r = "prompts"
      BY <1>2, <1>4, <2>2 DEF At, PlaceNames
    <2>4. QED
      BY <1>3, <2>1, <2>3 DEF Moves, PlaceNames
  <1>5. CASE ~(k = m)
    <2>1. \A r \in PlaceNames : At(k, r)' <=> At(k, r)
      BY <1>2, <1>5 DEF At, PlaceNames
    <2>2. QED
      BY <1>3, <2>1 DEF Moves
  <1>6. QED
    BY <1>4, <1>5

\* The message of a call that fails before its run is refused.
LEMMA CallRefused ==
  ASSUME ATypeOK, OnceInv, PlaceInv, NEW m \in Messages,
         host[m] \in Preflight, host' = [host EXCEPT ![m] = "none"], gone' = gone \cup {m},
         UNCHANGED <<steering, followUp, prompts, pending, log, summarized, returned, given, limits>>
  PROVE  OnceInv' /\ PlaceInv'
  <1>1. SUFFICES ASSUME NEW k \in Messages PROVE OnceAt(k)' /\ Moves(k)
    BY PlacesKept DEF PlaceInv
  <1>2. /\ k \in gone' <=> (k \in gone \/ k = m)
        /\ host[m] \in Preflight /\ (host'[k] \in Preflight <=> (host[k] \in Preflight /\ k # m))
    BY InOne, InEmpty DEF ATypeOK, HostTypes, Preflight
  <1>3. OnceAt(k)'
    BY <1>2 DEF OnceInv, OnceAt
  <1>4. CASE k = m
    <2>1. At(k, "preflight") /\ k <= given'
      BY <1>2, <1>4 DEF At, PlaceInv, PlaceNames
    <2>2. \A r \in PlaceNames : At(k, r) => r = "preflight"
      BY <2>1 DEF PlaceInv, PlaceNames
    <2>3. \A r \in PlaceNames : At(k, r)' <=> r = "gone"
      BY <1>2, <1>4, <2>2 DEF At, PlaceNames
    <2>4. QED
      BY <1>3, <2>1, <2>3 DEF Moves, PlaceNames
  <1>5. CASE ~(k = m)
    <2>1. \A r \in PlaceNames : At(k, r)' <=> At(k, r)
      BY <1>2, <1>5 DEF At, PlaceNames
    <2>2. QED
      BY <1>3, <2>1 DEF Moves
  <1>6. QED
    BY <1>4, <1>5

\* A message is submitted: it was nowhere before.
LEMMA Submitted ==
  ASSUME PlaceInv, OnceInv, NEW m \in Messages, m = given + 1, given' = m, limits' = limits, returned' = returned,
         NEW s \in PlaceNames, \A k \in Messages : OnceAt(k)',
         \A k \in Messages, r \in PlaceNames : At(k, r)' <=> (At(k, r) \/ (k = m /\ r = s))
  PROVE  OnceInv' /\ PlaceInv'
  <1>1. given \in Nat /\ given' \in Nat /\ given' <= limits.messages
    BY DEF PlaceInv, Messages
  <1>2. SUFFICES ASSUME NEW k \in Messages PROVE Moves(k)
    BY <1>1, PlacesKept
  <1>3. k \in Int
    BY DEF Messages
  <1>4. CASE k = m
    <2>1. ~(k <= given) /\ k <= given'
      BY <1>1, <1>4
    <2>2. \A r \in PlaceNames : ~At(k, r)
      BY <2>1 DEF PlaceInv
    <2>3. \A r \in PlaceNames : At(k, r)' <=> r = s
      BY <1>4, <2>2
    <2>4. QED
      BY <2>1, <2>3 DEF Moves
  <1>5. CASE k # m
    <2>1. k <= given' <=> k <= given
      BY <1>1, <1>3, <1>5
    <2>2. \A r \in PlaceNames : At(k, r)' <=> At(k, r)
      BY <1>5
    <2>3. QED
      BY <2>1, <2>2 DEF Moves
  <1>6. QED
    BY <1>4, <1>5

\* prompt() puts a new message into the preflight.
LEMMA PromptSubmitted ==
  ASSUME ATypeOK, OnceInv, PlaceInv, NEW m \in Messages, PromptCall(m)
  PROVE  OnceInv' /\ PlaceInv'
  <1>1. /\ m = given + 1 /\ given' = m /\ host' = [host EXCEPT ![m] = "preflight"]
        /\ UNCHANGED <<limits, steering, followUp, prompts, pending, log, summarized, gone, returned>>
    BY DEF PromptCall, loopVars, archive, lists
  <1>2. \A k \in Messages : OnceAt(k)'
    BY <1>1 DEF OnceInv, OnceAt
  <1>3. \A k \in Messages : host'[k] \in Preflight <=> (host[k] \in Preflight \/ k = m)
    BY <1>1 DEF ATypeOK, HostTypes, Preflight
  <1>4. \A k \in Messages, r \in PlaceNames : At(k, r)' <=> (At(k, r) \/ (k = m /\ r = "preflight"))
    BY <1>1, <1>3 DEF At
  <1>5. "preflight" \in PlaceNames
    BY DEF PlaceNames
  <1>6. QED
    BY <1>1, <1>2, <1>4, <1>5, Submitted

\* steer() and followUp() put a new message into their queue.
LEMMA QueueSubmitted ==
  ASSUME ATypeOK, OnceInv, PlaceInv, NEW m \in Messages, Queue(m)
  PROVE  OnceInv' /\ PlaceInv'
  <1>1. m = given + 1 /\ given' = m /\ UNCHANGED <<limits, prompts, pending, log, summarized, gone, returned, host>>
    BY DEF Queue, Steer, FollowUp, inbox, archive
  <1>2. m \in Nat /\ \A p \in PlaceNames : ~At(m, p)
    BY <1>1 DEF PlaceInv, Messages
  <1>3. ~In(m, steering) /\ ~In(m, followUp)
    BY <1>2 DEF At, PlaceNames
  <1>4. ASSUME NEW q \in Seq(Nat), ~In(m, q), NEW k \in Messages
        PROVE  /\ In(k, Append(q, m)) <=> (In(k, q) \/ k = m)
               /\ Once(k, q) => Once(k, Append(q, m))
    BY <1>2, <1>4, InAppend
  <1>5. CASE steering' = Append(steering, m) /\ followUp' = followUp
    <2>1. \A k \in Messages : /\ In(k, steering') <=> (In(k, steering) \/ k = m)
                              /\ Once(k, steering) => Once(k, steering')
      BY <1>3, <1>4, <1>5 DEF ATypeOK, QueueTypes
    <2>2. \A k \in Messages : OnceAt(k)'
      BY <1>1, <1>5, <2>1 DEF OnceInv, OnceAt
    <2>3. \A k \in Messages, r \in PlaceNames : At(k, r)' <=> (At(k, r) \/ (k = m /\ r = "steering"))
      BY <1>1, <1>5, <2>1 DEF At
    <2>4. "steering" \in PlaceNames
      BY DEF PlaceNames
    <2>5. QED
      BY <1>1, <2>2, <2>3, <2>4, Submitted
  <1>6. CASE followUp' = Append(followUp, m) /\ steering' = steering
    <2>1. \A k \in Messages : /\ In(k, followUp') <=> (In(k, followUp) \/ k = m)
                              /\ Once(k, followUp) => Once(k, followUp')
      BY <1>3, <1>4, <1>6 DEF ATypeOK, QueueTypes
    <2>2. \A k \in Messages : OnceAt(k)'
      BY <1>1, <1>6, <2>1 DEF OnceInv, OnceAt
    <2>3. \A k \in Messages, r \in PlaceNames : At(k, r)' <=> (At(k, r) \/ (k = m /\ r = "followUp"))
      BY <1>1, <1>6, <2>1 DEF At
    <2>4. "followUp" \in PlaceNames
      BY DEF PlaceNames
    <2>5. QED
      BY <1>1, <2>2, <2>3, <2>4, Submitted
  <1>7. QED
    BY <1>5, <1>6 DEF Queue, Steer, FollowUp

\* A compaction summarizes what it leaves behind.
LEMMA CompactMoves ==
  ASSUME ATypeOK, OnceInv, PlaceInv, NEW cut \in CutPoints, NEW drop \in BOOLEAN, Compacted(cut, drop),
         UNCHANGED <<steering, followUp, prompts, pending, gone, returned, given, limits>>,
         \A k \in Messages : host'[k] \in Preflight <=> host[k] \in Preflight
  PROVE  OnceInv' /\ PlaceInv'
  <1>1. SUFFICES ASSUME NEW k \in Messages PROVE OnceAt(k)' /\ Moves(k)
    BY PlacesKept DEF PlaceInv
  <1>2. PICK q \in Seq(Entry) : q = SubSeq(log, cut, Len(log)) /\ log' = Append(q, CompactionEntry)
    BY CompactedShape DEF Kept, ATypeOK, MessageTypes
  <1>3. k \in Nat /\ log \in Seq(Entry) /\ cut \in 2..Len(log) /\ Once(User(k), log)
    BY CompactedShape DEF Messages, ATypeOK, MessageTypes, OnceInv, OnceAt
  <1>4. PICK older \in BOOLEAN : older <=> \E i \in 1..cut - 1 : log[i] = User(k)
    OBVIOUS
  <1>5. /\ In(User(k), log) <=> (In(User(k), q) \/ older)
        /\ ~(In(User(k), q) /\ older) /\ Once(User(k), q)
    BY <1>2, <1>3, <1>4, InKept
  <1>6. (In(User(k), log') <=> In(User(k), q)) /\ Once(User(k), log')
    <2>1. CompactionEntry \in Entry /\ CompactionEntry # User(k)
      BY <1>3, EntryFacts
    <2>2. QED
      BY <1>2, <1>5, <2>1, InAppend
  <1>7. k \in summarized' <=> (k \in summarized \/ older)
    <2>1. \A i \in 1..cut - 1 : log[i] \in Entry
      <3>1. PICK n \in Nat : n = Len(log)
        BY <1>3, LenProperties
      <3>2. \A i \in 1..cut - 1 : i \in 1..n
        BY <1>3, <3>1
      <3>3. QED
        BY <1>3, <3>1, <3>2, ElementOfSeq
    <2>2. \A e \in Entry : (e.role = "user" /\ e.msg = k) <=> e = User(k)
      BY <1>3 DEF Entry, User, Summary, CompactionEntry
    <2>3. summarized' = summarized \cup {log[i].msg : i \in {j \in 1..(cut - 1) : log[j].role = "user"}}
      BY DEF Compacted, AppendCompaction
    <2>4. k \in {log[i].msg : i \in {j \in 1..(cut - 1) : log[j].role = "user"}} <=> \E i \in 1..cut - 1 : log[i] = User(k)
      BY <2>1, <2>2
    <2>5. QED
      BY <1>4, <2>3, <2>4
  <1>8. OnceAt(k)'
    BY <1>6 DEF OnceInv, OnceAt
  <1>9. CASE older
    <2>1. At(k, "log") /\ k <= given'
      BY <1>5, <1>9 DEF At, PlaceInv, PlaceNames
    <2>2. \A r \in PlaceNames : At(k, r) => r = "log"
      BY <2>1 DEF PlaceInv, PlaceNames
    <2>3. \A r \in PlaceNames : At(k, r)' <=> r = "summarized"
      BY <1>5, <1>6, <1>7, <1>9, <2>2 DEF At, PlaceNames
    <2>4. QED
      BY <1>8, <2>1, <2>3 DEF Moves, PlaceNames
  <1>10. CASE ~older
    <2>1. \A r \in PlaceNames : At(k, r)' <=> At(k, r)
      BY <1>5, <1>6, <1>7, <1>10 DEF At, PlaceNames
    <2>2. QED
      BY <1>8, <2>1 DEF Moves
  <1>11. QED
    BY <1>9, <1>10

\* Steps that take messages from the queues or the lists, but from the lists none that is
\* queued.
LEMMA ListShrinks ==
  ASSUME ListInv, limits' = limits, returned' = returned, given' = given,
         \A k \in Messages : /\ InQueue(k)' => InQueue(k)
                             /\ k \in listed' => k \in listed
                             /\ InQueue(k)' /\ k \in listed => k \in listed'
  PROVE  ListInv'
  <1>1. PICK M : M = Messages /\ M = Messages'
    BY DEF Messages
  <1>2. ASSUME NEW k \in M
        PROVE  /\ InQueue(k)' => k \in listed'
               /\ k \in listed' \cup returned' => k <= given'
               /\ ~(k \in listed' /\ k \in returned')
    <2>1. /\ InQueue(k) => k \in listed
          /\ k \in listed \cup returned => k <= given
          /\ ~(k \in listed /\ k \in returned)
      BY <1>1 DEF ListInv
    <2>2. QED
      BY <1>1, <2>1
  <1>3. QED
    BY <1>1, <1>2 DEF ListInv

\* Steps that change neither.
LEMMA ListSame ==
  ASSUME ListInv, UNCHANGED <<steering, followUp, listed, returned, given, limits>>
  PROVE  ListInv'
  <1>1. \A k \in Messages : InQueue(k)' <=> InQueue(k)
    BY DEF InQueue
  <1>2. QED
    BY <1>1, ListShrinks

\* A message that is submitted is on no list yet.
LEMMA ListGrows ==
  ASSUME ListInv, given \in Nat, NEW m \in Messages, m = given + 1, given' = m, limits' = limits,
         returned' = returned, NEW N \in SUBSET {m}, listed' = listed \cup N,
         \A k \in Messages : InQueue(k)' => (InQueue(k) \/ k \in N)
  PROVE  ListInv'
  <1>1. PICK M : M = Messages /\ M = Messages'
    BY DEF Messages
  <1>2. ASSUME NEW k \in M
        PROVE  /\ InQueue(k)' => k \in listed'
               /\ k \in listed' \cup returned' => k <= given'
               /\ ~(k \in listed' /\ k \in returned')
    <2>1. /\ InQueue(k) => k \in listed
          /\ k \in listed \cup returned => k <= given
          /\ ~(k \in listed /\ k \in returned)
      BY <1>1 DEF ListInv
    <2>2. k \in Int /\ m <= m /\ ~(m <= given) /\ (k <= given => k <= given')
      BY <1>1 DEF Messages
    <2>3. k \in N => k = m
      OBVIOUS
    <2>4. InQueue(k)' => k \in listed'
      BY <1>1, <2>1
    <2>5. k \in listed' \cup returned' => k <= given'
      BY <2>1, <2>2, <2>3
    <2>6. ~(k \in listed' /\ k \in returned')
      BY <2>1, <2>2, <2>3
    <2>7. QED
      BY <2>4, <2>5, <2>6
  <1>3. QED
    BY <1>1, <1>2 DEF ListInv

\* What is queued stays on the session's lists.
LEMMA ListKept ==
  ASSUME ATypeOK, OnceInv, PlaceInv, ListInv, SNext
  PROVE  ListInv'
  <1>1. CASE (PrepareParallel \/ LaunchParallel \/ RunSequential \/ ToolEnds \/ BatchDone) /\ Persist
    <2>1. UNCHANGED <<steering, followUp, returned, given, limits, transcript>>
      BY <1>1 DEF PrepareParallel, Persist, HandleMessages, Calm, LaunchParallel, RunSequential, ToolEnds,
          BatchDone, queues, inbox, tools, loopVars, archive, lists, history
    <2>2. listed' = listed
      BY <1>1, <2>1, PersistNone DEF ATypeOK, MessageTypes
    <2>3. QED
      BY <2>1, <2>2, ListSame
  <1>2. CASE EmitPrompt /\ Persist
    <2>1. /\ prompts # <<>> /\ transcript' = Append(transcript, User(Head(prompts)))
          /\ UNCHANGED <<steering, followUp, returned, given, limits>>
      BY <1>2 DEF EmitPrompt, Persist, HandleMessages, Calm, queues, inbox, tools, loopVars, archive, lists,
          history
    <2>2. PICK h \in Nat : h = Head(prompts)
      BY <2>1, HeadTailProperties DEF ATypeOK, QueueTypes
    <2>3. User(h) \in Entry /\ User(h).msg = h
      BY <2>2, EntryFacts DEF User
    <2>4. \A k : /\ k \in listed' => k \in listed
                 /\ (k \in listed /\ k # h) => k \in listed'
      BY <1>2, <2>1, <2>2, <2>3, PersistOne DEF ATypeOK, MessageTypes
    <2>5. ASSUME NEW k \in Messages, InQueue(k) PROVE k # h
      <3>1. k = h => In(k, prompts)
        BY <2>1, <2>2, InTail DEF ATypeOK, QueueTypes, OnceInv, OnceAt
      <3>2. ~In(k, prompts)
        BY <2>5 DEF InQueue, PlaceInv, At, PlaceNames
      <3>3. QED
        BY <3>1, <3>2
    <2>6. \A k \in Messages : InQueue(k)' <=> InQueue(k)
      BY <2>1 DEF InQueue
    <2>7. ASSUME NEW k \in Messages
          PROVE  /\ InQueue(k)' => InQueue(k)
                 /\ k \in listed' => k \in listed
                 /\ InQueue(k)' /\ k \in listed => k \in listed'
      <3>1. InQueue(k)' => InQueue(k)
        BY <2>6
      <3>2. k \in listed' => k \in listed
        BY <2>4
      <3>3. ASSUME InQueue(k)', k \in listed PROVE k \in listed'
        <4>1. k # h
          BY <2>5, <3>1, <3>3
        <4>2. QED
          BY <2>4, <3>3, <4>1
      <3>4. QED
        BY <3>1, <3>2, <3>3
    <2>8. QED
      BY <2>1, <2>7, ListShrinks
  <1>3. CASE InitialPoll /\ Persist
    <2>1. UNCHANGED <<transcript, returned, given, limits>>
      BY <1>3 DEF InitialPoll, Poll, Persist, HandleMessages, Calm, queues, inbox, tools, loopVars, archive,
          lists, history
    <2>2. listed' = listed
      BY <1>3, <2>1, PersistNone DEF ATypeOK, MessageTypes
    <2>3. steering' \in {steering, Rest(steering)} /\ followUp' \in {followUp, Rest(followUp)}
      BY <1>3 DEF InitialPoll, Poll, queues
    <2>4. ASSUME NEW k \in Messages, InQueue(k)' PROVE InQueue(k)
      BY <2>3, <2>4, InDrained DEF InQueue, ATypeOK, QueueTypes, OnceInv, OnceAt
    <2>5. QED
      BY <2>1, <2>2, <2>4, ListShrinks
  <1>4. CASE Inject /\ Persist
    <2>1. /\ pending # <<>> /\ transcript' = Append(transcript, User(Head(pending)))
          /\ UNCHANGED <<steering, followUp, returned, given, limits>>
      BY <1>4 DEF Inject, Persist, HandleMessages, Calm, queues, inbox, tools, loopVars, archive, lists, history
    <2>2. PICK h \in Nat : h = Head(pending)
      BY <2>1, HeadTailProperties DEF ATypeOK, QueueTypes
    <2>3. User(h) \in Entry /\ User(h).msg = h
      BY <2>2, EntryFacts DEF User
    <2>4. \A k : /\ k \in listed' => k \in listed
                 /\ (k \in listed /\ k # h) => k \in listed'
      BY <1>4, <2>1, <2>2, <2>3, PersistOne DEF ATypeOK, MessageTypes
    <2>5. ASSUME NEW k \in Messages, InQueue(k) PROVE k # h
      <3>1. k = h => In(k, pending)
        BY <2>1, <2>2, InTail DEF ATypeOK, QueueTypes, OnceInv, OnceAt
      <3>2. ~In(k, pending)
        BY <2>5 DEF InQueue, PlaceInv, At, PlaceNames
      <3>3. QED
        BY <3>1, <3>2
    <2>6. \A k \in Messages : InQueue(k)' <=> InQueue(k)
      BY <2>1 DEF InQueue
    <2>7. ASSUME NEW k \in Messages
          PROVE  /\ InQueue(k)' => InQueue(k)
                 /\ k \in listed' => k \in listed
                 /\ InQueue(k)' /\ k \in listed => k \in listed'
      <3>1. InQueue(k)' => InQueue(k)
        BY <2>6
      <3>2. k \in listed' => k \in listed
        BY <2>4
      <3>3. ASSUME InQueue(k)', k \in listed PROVE k \in listed'
        <4>1. k # h
          BY <2>5, <3>1, <3>3
        <4>2. QED
          BY <2>4, <3>3, <4>1
      <3>4. QED
        BY <3>1, <3>2, <3>3
    <2>8. QED
      BY <2>1, <2>7, ListShrinks
  <1>5. CASE EmitResult /\ Persist
    <2>1. UNCHANGED <<steering, followUp, returned, given, limits>>
      BY <1>5 DEF EmitResult, Persist, HandleMessages, Calm, queues, inbox, tools, loopVars, archive, lists,
          history
    <2>2. PICK e \in Entry : e.role # "user" /\ transcript' = Append(transcript, e)
      BY <1>5, ResultShape, EntryFacts
    <2>3. \A k : k \in listed' <=> k \in listed
      BY <1>5, <2>2, PersistOne DEF ATypeOK, MessageTypes
    <2>4. \A k \in Messages : InQueue(k)' <=> InQueue(k)
      BY <2>1 DEF InQueue
    <2>5. QED
      BY <2>1, <2>3, <2>4, ListShrinks
  <1>6. CASE TurnEnd /\ Persist
    <2>1. UNCHANGED <<transcript, returned, given, limits>>
      BY <1>6 DEF TurnEnd, Poll, Persist, HandleMessages, Calm, queues, inbox, tools, loopVars, archive, lists,
          history
    <2>2. listed' = listed
      BY <1>6, <2>1, PersistNone DEF ATypeOK, MessageTypes
    <2>3. steering' \in {steering, Rest(steering)} /\ followUp' \in {followUp, Rest(followUp)}
      BY <1>6 DEF TurnEnd, Poll, queues
    <2>4. ASSUME NEW k \in Messages, InQueue(k)' PROVE InQueue(k)
      BY <2>3, <2>4, InDrained DEF InQueue, ATypeOK, QueueTypes, OnceInv, OnceAt
    <2>5. QED
      BY <2>1, <2>2, <2>4, ListShrinks
  <1>7. CASE PrepareDone /\ Persist
    <2>1. UNCHANGED <<transcript, returned, given, limits>>
      BY <1>7 DEF PrepareDone, Poll, Persist, HandleMessages, Calm, queues, inbox, tools, loopVars, archive,
          lists, history
    <2>2. listed' = listed
      BY <1>7, <2>1, PersistNone DEF ATypeOK, MessageTypes
    <2>3. steering' \in {steering, Rest(steering)} /\ followUp' \in {followUp, Rest(followUp)}
      BY <1>7 DEF PrepareDone, Poll, queues
    <2>4. ASSUME NEW k \in Messages, InQueue(k)' PROVE InQueue(k)
      BY <2>3, <2>4, InDrained DEF InQueue, ATypeOK, QueueTypes, OnceInv, OnceAt
    <2>5. QED
      BY <2>1, <2>2, <2>4, ListShrinks
  <1>8. ASSUME NEW how \in Outcomes, NEW n \in 0..MaxCalls, Stream(how, n), HandleAnswer(how), Calm
        PROVE  ListInv'
    <2>1. UNCHANGED <<steering, followUp, listed, returned, given, limits>>
      BY <1>8 DEF Stream, HandleAnswer, Calm, queues, inbox, tools, loopVars, archive, lists, history
    <2>2. QED
      BY <2>1, ListSame
  <1>9. ASSUME NEW how \in Errors \cup {"aborted"}, RecordFailure, HandleAnswer(how), Calm
        PROVE  ListInv'
    <2>1. UNCHANGED <<steering, followUp, listed, returned, given, limits>>
      BY <1>9 DEF RecordFailure, HandleAnswer, Calm, queues, inbox, tools, loopVars, archive, lists, history
    <2>2. QED
      BY <2>1, ListSame
  <1>10. CASE SessionAbort \/ AbortRun \/ CompactMidRun
    <2>1. UNCHANGED <<steering, followUp, listed, returned, given, limits>>
      BY <1>10 DEF SessionAbort, AbortRun, Abort, hostVars, CompactMidRun, Compacted, AppendCompaction,
          queues, inbox, tools, loopVars, archive, lists, history
    <2>2. QED
      BY <2>1, ListSame
  <1>11. CASE ThrowOut
    <2>1. UNCHANGED <<steering, followUp, returned, given, limits>> /\ listed' \in {listed, listed \ Dropped}
      BY <1>11 DEF ThrowOut, Throw, queues
    <2>2. \A k : k \in Dropped <=> (In(k, prompts) \/ In(k, pending))
      BY LenProperties DEF Dropped, In, ATypeOK, QueueTypes
    <2>3. ASSUME NEW k \in Messages, InQueue(k) PROVE k \notin Dropped
      BY <2>2, <2>3 DEF InQueue, PlaceInv, At, PlaceNames
    <2>4. \A k \in Messages : InQueue(k)' <=> InQueue(k)
      BY <2>1 DEF InQueue
    <2>5. QED
      BY <2>1, <2>3, <2>4, ListShrinks
  <1>12. CASE ClearQueue
    <2>1. /\ steering' = <<>> /\ followUp' = <<>> /\ returned' = returned \cup listed /\ listed' = {}
          /\ given' = given /\ limits' = limits
      BY <1>12 DEF ClearQueue, ClearAllQueues
    <2>2. \A k : ~InQueue(k)'
      BY <2>1, InEmpty DEF InQueue
    <2>3. Messages' = Messages
      BY <2>1 DEF Messages
    <2>4. QED
      BY <2>1, <2>2, <2>3 DEF ListInv
  <1>13. ASSUME NEW m \in Messages,
               PreflightFails(m) \/ PreflightCompacts(m) \/ RunRejected(m) \/ SleepCancelled(m) \/
               BeginRun(m) \/ RunFinished(m) \/ PostStopped(m) \/ PrepareRetry(m) \/ PostChecked(m)
               \/ SleepOver(m) \/ CompactDone(m) \/ CompactFails(m) \/ ContinueThrows(m) \/ Done(m)
        PROVE  ListInv'
    <2>1. UNCHANGED <<steering, followUp, listed, returned, given, limits>>
      BY <1>13 DEF PreflightFails, PreflightCompacts, RecoverOverflow, CompactBySize, Crossing, RunRejected,
          Reject, FinishRun, Settle, SleepCancelled, CheckCompaction, BeginRun, Prompt, Open, RunFinished,
          Finish, PostStopped, PrepareRetry, PostChecked, SleepOver, CompactDone, Compacted, AppendCompaction,
          CompactFails, ContinueThrows, Done, queues, inbox, tools, loopVars, archive, lists, history
    <2>2. QED
      BY <2>1, ListSame
  <1>14. ASSUME NEW m \in Messages, PromptCall(m)
        PROVE  ListInv'
    <2>1. m = given + 1 /\ given' = m /\ UNCHANGED <<steering, followUp, listed, returned, limits>>
      BY <1>14 DEF PromptCall, loopVars, lists
    <2>2. {} \in SUBSET {m} /\ listed' = listed \cup {} /\ given \in Nat
      BY <2>1 DEF PlaceInv
    <2>3. \A k \in Messages : InQueue(k)' <=> InQueue(k)
      BY <2>1 DEF InQueue
    <2>4. QED
      BY <2>1, <2>2, <2>3, ListGrows
  <1>15. ASSUME NEW m \in Messages, Queue(m)
        PROVE  ListInv'
    <2>1. m = given + 1 /\ given' = m /\ listed' = listed \cup {m} /\ UNCHANGED <<returned, limits>>
      BY <1>15 DEF Queue, Steer, FollowUp
    <2>2. {m} \in SUBSET {m} /\ given \in Nat /\ m \in Nat
      BY DEF PlaceInv, Messages
    <2>3. ASSUME NEW q \in Seq(Nat), NEW k \in Messages PROVE In(k, Append(q, m)) <=> (In(k, q) \/ k = m)
      BY <2>2, InAppend
    <2>4. \/ steering' = Append(steering, m) /\ followUp' = followUp
          \/ followUp' = Append(followUp, m) /\ steering' = steering
      BY <1>15 DEF Queue, Steer, FollowUp
    <2>5. \A k \in Messages : InQueue(k)' => (InQueue(k) \/ k \in {m})
      <3>1. steering \in Seq(Nat) /\ followUp \in Seq(Nat)
        BY DEF ATypeOK, QueueTypes
      <3>2. \A k \in Messages : In(k, steering') => (In(k, steering) \/ k = m)
        BY <2>3, <2>4, <3>1
      <3>3. \A k \in Messages : In(k, followUp') => (In(k, followUp) \/ k = m)
        BY <2>3, <2>4, <3>1
      <3>4. QED
        BY <3>2, <3>3 DEF InQueue
    <2>6. QED
      BY <2>1, <2>2, <2>5, ListGrows
  <1>16. ASSUME NEW m \in Messages, ContinueRun(m)
        PROVE  ListInv'
    <2>1. UNCHANGED <<listed, returned, given, limits>>
      BY <1>16 DEF ContinueRun, Continue, Open, queues, inbox, tools, loopVars, archive, lists, history
    <2>2. listed' = listed
      BY <2>1
    <2>3. steering' \in {steering, Rest(steering)} /\ followUp' \in {followUp, Rest(followUp)}
      BY <1>16 DEF ContinueRun, Continue, Open, queues
    <2>4. ASSUME NEW k \in Messages, InQueue(k)' PROVE InQueue(k)
      BY <2>3, <2>4, InDrained DEF InQueue, ATypeOK, QueueTypes, OnceInv, OnceAt
    <2>5. QED
      BY <2>1, <2>2, <2>4, ListShrinks
  <1>17. QED
    BY <1>1, <1>2, <1>3, <1>4, <1>5, <1>6, <1>7, <1>8, <1>9, <1>10, <1>11, <1>12, <1>13, <1>14, <1>15, <1>16
        DEF SNext, Loop, LoopStep, HostStep, Persist, Calm

\* The run hands on what it holds before it moves on.
LEMMA InboxKept ==
  ASSUME InboxInv, SNext
  PROVE  InboxInv'
  <1>1. CASE (PrepareParallel \/ LaunchParallel \/ RunSequential \/ ToolEnds \/ EmitResult) /\ Persist
    <2>1. UNCHANGED <<run, prompts, pending>>
      BY <1>1 DEF PrepareParallel, Persist, HandleMessages, Calm, LaunchParallel, RunSequential, ToolEnds,
          EmitResult, queues, inbox, tools, loopVars, archive, lists, history
    <2>2. QED
      BY <2>1 DEF InboxInv
  <1>2. CASE EmitPrompt /\ Persist
    BY <1>2 DEF EmitPrompt, Persist, HandleMessages, Calm, queues, inbox, tools, loopVars, archive, lists,
        history, InboxInv
  <1>3. CASE InitialPoll /\ Persist
    BY <1>3 DEF InitialPoll, Poll, Persist, HandleMessages, Calm, queues, inbox, tools, loopVars, archive,
        lists, history, InboxInv
  <1>4. CASE Inject /\ Persist
    BY <1>4 DEF Inject, Persist, HandleMessages, Calm, queues, inbox, tools, loopVars, archive, lists,
        history, InboxInv
  <1>5. CASE BatchDone /\ Persist
    BY <1>5 DEF BatchDone, Persist, HandleMessages, Calm, queues, inbox, tools, loopVars, archive, lists,
        history, InboxInv
  <1>6. CASE TurnEnd /\ Persist
    BY <1>6 DEF TurnEnd, Poll, Persist, HandleMessages, Calm, queues, inbox, tools, loopVars, archive, lists,
        history, InboxInv, Drained
  <1>7. CASE PrepareDone /\ Persist
    BY <1>7 DEF PrepareDone, Poll, Persist, HandleMessages, Calm, queues, inbox, tools, loopVars, archive,
        lists, history, InboxInv
  <1>8. ASSUME NEW how \in Outcomes, NEW n \in 0..MaxCalls, Stream(how, n), HandleAnswer(how), Calm
        PROVE  InboxInv'
    BY <1>8 DEF Stream, HandleAnswer, Calm, queues, inbox, tools, loopVars, archive, lists, history, InboxInv
  <1>9. ASSUME NEW how \in Errors \cup {"aborted"}, RecordFailure, HandleAnswer(how), Calm
        PROVE  InboxInv'
    BY <1>9 DEF RecordFailure, HandleAnswer, Calm, queues, inbox, tools, loopVars, archive, lists, history,
        InboxInv
  <1>10. CASE ClearQueue \/ SessionAbort \/ AbortRun \/ CompactMidRun
    <2>1. UNCHANGED <<run, prompts, pending>>
      BY <1>10 DEF ClearQueue, ClearAllQueues, SessionAbort, AbortRun, Abort, hostVars, CompactMidRun,
          Compacted, AppendCompaction, queues, inbox, tools, loopVars, archive, lists, history
    <2>2. QED
      BY <2>1 DEF InboxInv
  <1>11. CASE ThrowOut
    BY <1>11 DEF ThrowOut, Throw, queues, inbox, tools, loopVars, archive, lists, history, InboxInv
  <1>12. ASSUME NEW m \in Messages,
               PromptCall(m) \/ Queue(m) \/ PreflightFails(m) \/ PreflightCompacts(m) \/
               SleepCancelled(m) \/ PostStopped(m) \/ PrepareRetry(m) \/ PostChecked(m) \/
               SleepOver(m) \/ CompactDone(m) \/ CompactFails(m) \/ ContinueThrows(m) \/ Done(m)
        PROVE  InboxInv'
    <2>1. UNCHANGED <<run, prompts, pending>>
      BY <1>12 DEF PromptCall, Queue, Steer, FollowUp, PreflightFails, PreflightCompacts, RecoverOverflow,
          CompactBySize, Crossing, SleepCancelled, CheckCompaction, PostStopped, Settle, PrepareRetry,
          PostChecked, SleepOver, CompactDone, Compacted, AppendCompaction, CompactFails, ContinueThrows,
          Done, queues, inbox, tools, loopVars, archive, lists, history
    <2>2. QED
      BY <2>1 DEF InboxInv
  <1>13. ASSUME NEW m \in Messages, RunRejected(m)
        PROVE  InboxInv'
    BY <1>13 DEF RunRejected, Reject, FinishRun, Settle, queues, inbox, tools, loopVars, archive, lists,
        history, InboxInv
  <1>14. ASSUME NEW m \in Messages, BeginRun(m)
        PROVE  InboxInv'
    BY <1>14 DEF BeginRun, Prompt, Open, Settle, queues, inbox, tools, loopVars, archive, lists, history,
        InboxInv
  <1>15. ASSUME NEW m \in Messages, RunFinished(m)
        PROVE  InboxInv'
    BY <1>15 DEF RunFinished, Finish, FinishRun, queues, inbox, tools, loopVars, archive, lists, history,
        InboxInv
  <1>16. ASSUME NEW m \in Messages, ContinueRun(m)
        PROVE  InboxInv'
    BY <1>16 DEF ContinueRun, Continue, Open, queues, inbox, tools, loopVars, archive, lists, history,
        InboxInv
  <1>17. QED
    BY <1>1, <1>2, <1>3, <1>4, <1>5, <1>6, <1>7, <1>8, <1>9, <1>10, <1>11, <1>12, <1>13, <1>14, <1>15, <1>16
        DEF SNext, Loop, LoopStep, HostStep, Persist, Calm

\* Every step moves a message from one place to one place.
LEMMA PlaceKept ==
  ASSUME ATypeOK, InboxInv, OnceInv, PlaceInv, ListInv, SNext
  PROVE  OnceInv' /\ PlaceInv'
  <1>1. CASE (PrepareParallel \/ LaunchParallel \/ RunSequential \/ ToolEnds \/ BatchDone) /\ Persist
    <2>1. UNCHANGED <<steering, followUp, prompts, pending, summarized, host, gone, returned, given, limits, transcript>>
      BY <1>1 DEF PrepareParallel, Persist, HandleMessages, Calm, LaunchParallel, RunSequential, ToolEnds,
          BatchDone, queues, inbox, tools, loopVars, archive, lists, history
    <2>2. log' = log
      BY <1>1, <2>1, PersistNone DEF ATypeOK, MessageTypes
    <2>3. QED
      BY <2>1, <2>2, PlaceSame
  <1>2. CASE EmitPrompt /\ Persist
    <2>1. log' = Append(log, User(Head(prompts)))
      BY <1>2, EmitShape
    <2>2. prompts # <<>> /\ prompts' = Tail(prompts) /\ UNCHANGED <<steering, followUp, pending, summarized, host, gone, returned, given, limits>>
      BY <1>2 DEF EmitPrompt, Persist, HandleMessages, Calm, queues, inbox, tools, loopVars, archive, lists,
          history
    <2>3. QED
      BY <2>1, <2>2, PromptMoves
  <1>3. CASE InitialPoll /\ Persist
    <2>1. transcript' = transcript /\ UNCHANGED <<prompts, summarized, host, gone, returned, given, limits>>
      BY <1>3 DEF InitialPoll, Poll, Persist, HandleMessages, Calm, queues, inbox, tools, loopVars, archive,
          lists, history
    <2>2. log' = log
      BY <1>3, <2>1, PersistNone DEF ATypeOK, MessageTypes
    <2>3. \/ pending = <<>> /\ steering' = Rest(steering) /\ pending' = Drained(steering) /\ followUp' = followUp
          \/ pending = <<>> /\ followUp' = Rest(followUp) /\ pending' = Drained(followUp) /\ steering' = steering
          \/ UNCHANGED <<steering, followUp, pending>>
      BY <1>3 DEF InitialPoll, Poll, InboxInv
    <2>4. QED
      BY <2>1, <2>2, <2>3, SteeringMoves, FollowUpMoves, PlaceSame
  <1>4. CASE Inject /\ Persist
    <2>1. log' = Append(log, User(Head(pending)))
      BY <1>4, EmitShape
    <2>2. pending # <<>> /\ pending' = Tail(pending) /\ UNCHANGED <<steering, followUp, prompts, summarized, host, gone, returned, given, limits>>
      BY <1>4 DEF Inject, Persist, HandleMessages, Calm, queues, inbox, tools, loopVars, archive, lists, history
    <2>3. QED
      BY <2>1, <2>2, PendingMoves
  <1>5. CASE EmitResult /\ Persist
    <2>1. PICK e \in Entry : e.role # "user" /\ log' = Append(log, e)
      BY <1>5, ResultShape, EntryFacts
    <2>2. UNCHANGED <<steering, followUp, prompts, pending, summarized, host, gone, returned, given, limits>>
      BY <1>5 DEF EmitResult, Persist, HandleMessages, Calm, queues, inbox, tools, loopVars, archive, lists,
          history
    <2>3. QED
      BY <2>1, <2>2, LogGrows
  <1>6. CASE TurnEnd /\ Persist
    <2>1. transcript' = transcript /\ UNCHANGED <<prompts, summarized, host, gone, returned, given, limits>>
      BY <1>6 DEF TurnEnd, Poll, Persist, HandleMessages, Calm, queues, inbox, tools, loopVars, archive, lists,
          history
    <2>2. log' = log
      BY <1>6, <2>1, PersistNone DEF ATypeOK, MessageTypes
    <2>3. \/ pending = <<>> /\ steering' = Rest(steering) /\ pending' = Drained(steering) /\ followUp' = followUp
          \/ pending = <<>> /\ followUp' = Rest(followUp) /\ pending' = Drained(followUp) /\ steering' = steering
          \/ UNCHANGED <<steering, followUp, pending>>
      BY <1>6 DEF TurnEnd, Poll, InboxInv
    <2>4. QED
      BY <2>1, <2>2, <2>3, SteeringMoves, FollowUpMoves, PlaceSame
  <1>7. CASE PrepareDone /\ Persist
    <2>1. transcript' = transcript /\ UNCHANGED <<prompts, summarized, host, gone, returned, given, limits>>
      BY <1>7 DEF PrepareDone, Poll, Persist, HandleMessages, Calm, queues, inbox, tools, loopVars, archive,
          lists, history
    <2>2. log' = log
      BY <1>7, <2>1, PersistNone DEF ATypeOK, MessageTypes
    <2>3. \/ pending = <<>> /\ steering' = Rest(steering) /\ pending' = Drained(steering) /\ followUp' = followUp
          \/ pending = <<>> /\ followUp' = Rest(followUp) /\ pending' = Drained(followUp) /\ steering' = steering
          \/ UNCHANGED <<steering, followUp, pending>>
      BY <1>7 DEF PrepareDone, Poll, InboxInv
    <2>4. QED
      BY <2>1, <2>2, <2>3, SteeringMoves, FollowUpMoves, PlaceSame
  <1>8. ASSUME NEW how \in Outcomes, NEW n \in 0..MaxCalls, Stream(how, n), HandleAnswer(how), Calm
        PROVE  OnceInv' /\ PlaceInv'
    <2>1. PICK e \in Entry : e.role # "user" /\ log' = Append(log, e)
      BY <1>8, AnswerShape
    <2>2. UNCHANGED <<steering, followUp, prompts, pending, summarized, host, gone, returned, given, limits>>
      BY <1>8 DEF Stream, HandleAnswer, Calm, queues, inbox, tools, loopVars, archive, lists,
          history
    <2>3. QED
      BY <2>1, <2>2, LogGrows
  <1>9. ASSUME NEW how \in Errors \cup {"aborted"}, RecordFailure, HandleAnswer(how), Calm
        PROVE  OnceInv' /\ PlaceInv'
    <2>1. PICK e \in Entry : e.role # "user" /\ log' = Append(log, e)
      BY <1>9, FailureShape
    <2>2. UNCHANGED <<steering, followUp, prompts, pending, summarized, host, gone, returned, given, limits>>
      BY <1>9 DEF RecordFailure, HandleAnswer, Calm, queues, inbox, tools, loopVars, archive, lists,
          history
    <2>3. QED
      BY <2>1, <2>2, LogGrows
  <1>10. CASE SessionAbort \/ AbortRun
    <2>1. UNCHANGED <<steering, followUp, prompts, pending, log, summarized, host, gone, returned, given, limits>>
      BY <1>10 DEF SessionAbort, AbortRun, Abort, hostVars, queues, inbox, tools, loopVars, archive, lists,
          history
    <2>2. QED
      BY <2>1, PlaceSame
  <1>11. CASE ThrowOut
    <2>1. \A k : k \in Dropped <=> (In(k, prompts) \/ In(k, pending))
      BY LenProperties DEF Dropped, In, ATypeOK, QueueTypes
    <2>2. /\ prompts' = <<>> /\ pending' = <<>> /\ gone' = gone \cup Dropped
          /\ UNCHANGED <<steering, followUp, log, summarized, host, returned, given, limits>>
      BY <1>11 DEF ThrowOut, Throw, queues, archive, lists
    <2>3. \A k : k \in gone' <=> (k \in gone \/ In(k, prompts) \/ In(k, pending))
      BY <2>1, <2>2
    <2>4. QED
      BY <2>2, <2>3, HeldLost
  <1>12. CASE ClearQueue
    BY <1>12, QueuedCleared
  <1>13. CASE CompactMidRun
    <2>1. PICK cut \in CutPoints, drop \in BOOLEAN : Compacted(cut, drop)
      BY <1>13 DEF CompactMidRun
    <2>2. UNCHANGED <<steering, followUp, prompts, pending, host, gone, returned, given, limits>>
      BY <1>13 DEF CompactMidRun, queues, inbox, lists
    <2>3. QED
      BY <2>1, <2>2, CompactMoves
  <1>14. ASSUME NEW m \in Messages, PromptCall(m)
        PROVE  OnceInv' /\ PlaceInv'
    BY <1>14, PromptSubmitted
  <1>15. ASSUME NEW m \in Messages, Queue(m)
        PROVE  OnceInv' /\ PlaceInv'
    BY <1>15, QueueSubmitted
  <1>16. ASSUME NEW m \in Messages, PreflightFails(m)
        PROVE  OnceInv' /\ PlaceInv'
    <2>1. /\ host[m] \in Preflight /\ host' = [host EXCEPT ![m] = "none"] /\ gone' = gone \cup {m}
          /\ UNCHANGED <<steering, followUp, prompts, pending, log, summarized, returned, given, limits>>
      BY <1>16 DEF PreflightFails, Preflight, loopVars, archive, lists
    <2>2. QED
      BY <2>1, CallRefused
  <1>17. ASSUME NEW m \in Messages, PreflightCompacts(m)
        PROVE  OnceInv' /\ PlaceInv'
    <2>1. UNCHANGED <<steering, followUp, prompts, pending, log, summarized, gone, returned, given, limits>>
      BY <1>17 DEF PreflightCompacts, RecoverOverflow, CompactBySize, Crossing, queues, inbox, tools, loopVars,
          archive, lists, history
    <2>2. \A k \in Messages : host'[k] \in Preflight <=> host[k] \in Preflight
      <3>1. PICK x \in {"prerecover", "precompact"} : host' = [host EXCEPT ![m] = x]
        BY <1>17 DEF PreflightCompacts, RecoverOverflow, CompactBySize, Crossing
      <3>2. x \in Preflight <=> host[m] \in Preflight
        BY <1>17, <3>1 DEF PreflightCompacts, Preflight
      <3>3. QED
        BY <3>1, <3>2, HostSame DEF ATypeOK
    <2>3. QED
      BY <2>1, <2>2, PlaceSame
  <1>18. ASSUME NEW m \in Messages, RunRejected(m)
        PROVE  OnceInv' /\ PlaceInv'
    <2>1. UNCHANGED <<steering, followUp, prompts, pending, log, summarized, gone, returned, given, limits>>
      BY <1>18 DEF RunRejected, Reject, FinishRun, Settle, queues, inbox, tools, loopVars, archive, lists,
          history
    <2>2. \A k \in Messages : host'[k] \in Preflight <=> host[k] \in Preflight
      <3>1. host' = [host EXCEPT ![m] = "none"]
        BY <1>18 DEF RunRejected, Settle
      <3>2. "none" \notin Preflight /\ host[m] \notin Preflight
        BY <1>18 DEF RunRejected, Settle, Deciding, Preflight
      <3>3. QED
        BY <3>1, <3>2, HostSame DEF ATypeOK
    <2>3. QED
      BY <2>1, <2>2, PlaceSame
  <1>19. ASSUME NEW m \in Messages, SleepCancelled(m)
        PROVE  OnceInv' /\ PlaceInv'
    <2>1. UNCHANGED <<steering, followUp, prompts, pending, log, summarized, gone, returned, given, limits>>
      BY <1>19 DEF SleepCancelled, CheckCompaction, RecoverOverflow, CompactBySize, Crossing, queues, inbox,
          tools, loopVars, archive, lists, history
    <2>2. \A k \in Messages : host'[k] \in Preflight <=> host[k] \in Preflight
      <3>1. PICK x \in {"recover", "compact", "decide"} : host' = [host EXCEPT ![m] = x]
        BY <1>19 DEF SleepCancelled, CheckCompaction, RecoverOverflow, CompactBySize, Crossing
      <3>2. x \in Preflight <=> host[m] \in Preflight
        BY <1>19, <3>1 DEF SleepCancelled, Preflight
      <3>3. QED
        BY <3>1, <3>2, HostSame DEF ATypeOK
    <2>3. QED
      BY <2>1, <2>2, PlaceSame
  <1>20. ASSUME NEW m \in Messages, BeginRun(m)
        PROVE  OnceInv' /\ PlaceInv'
    <2>1. host[m] \in Preflight /\ UNCHANGED <<steering, followUp, log, summarized, returned, given, limits>>
      BY <1>20 DEF BeginRun, Prompt, Open, Settle, queues, inbox, tools, loopVars, archive, lists, history,
          Preflight
    <2>2. CASE run = "idle"
      <3>1. /\ prompts = <<>> /\ pending = <<>> /\ prompts' = <<m>> /\ pending' = <<>> /\ gone' = gone
            /\ host' = [host EXCEPT ![m] = "run"]
        BY <1>20, <2>2 DEF BeginRun, Prompt, Open, InboxInv
      <3>2. QED
        BY <2>1, <3>1, CallStarts
    <2>3. CASE run # "idle"
      <3>1. /\ host' = [host EXCEPT ![m] = "none"] /\ gone' = gone \cup {m}
            /\ prompts' = prompts /\ pending' = pending
        BY <1>20, <2>3 DEF BeginRun, Settle, loopVars
      <3>2. QED
        BY <2>1, <3>1, CallRefused
    <2>4. QED
      BY <2>2, <2>3
  <1>21. ASSUME NEW m \in Messages, RunFinished(m)
        PROVE  OnceInv' /\ PlaceInv'
    <2>1. UNCHANGED <<steering, followUp, prompts, pending, log, summarized, gone, returned, given, limits>>
      BY <1>21 DEF RunFinished, Finish, FinishRun, queues, inbox, tools, loopVars, archive, lists, history
    <2>2. \A k \in Messages : host'[k] \in Preflight <=> host[k] \in Preflight
      <3>1. host' = [host EXCEPT ![m] = "post"]
        BY <1>21 DEF RunFinished
      <3>2. "post" \notin Preflight /\ host[m] \notin Preflight
        BY <1>21 DEF RunFinished, Deciding, Preflight
      <3>3. QED
        BY <3>1, <3>2, HostSame DEF ATypeOK
    <2>3. QED
      BY <2>1, <2>2, PlaceSame
  <1>22. ASSUME NEW m \in Messages, PostStopped(m)
        PROVE  OnceInv' /\ PlaceInv'
    <2>1. UNCHANGED <<steering, followUp, prompts, pending, log, summarized, gone, returned, given, limits>>
      BY <1>22 DEF PostStopped, Settle, queues, inbox, tools, loopVars, archive, lists, history
    <2>2. \A k \in Messages : host'[k] \in Preflight <=> host[k] \in Preflight
      <3>1. host' = [host EXCEPT ![m] = "none"]
        BY <1>22 DEF PostStopped, Settle
      <3>2. "none" \notin Preflight /\ host[m] \notin Preflight
        BY <1>22 DEF PostStopped, Settle, Deciding, Preflight
      <3>3. QED
        BY <3>1, <3>2, HostSame DEF ATypeOK
    <2>3. QED
      BY <2>1, <2>2, PlaceSame
  <1>23. ASSUME NEW m \in Messages, PrepareRetry(m)
        PROVE  OnceInv' /\ PlaceInv'
    <2>1. UNCHANGED <<steering, followUp, prompts, pending, log, summarized, gone, returned, given, limits>>
      BY <1>23 DEF PrepareRetry, Crossing, queues, inbox, tools, loopVars, archive, lists, history
    <2>2. \A k \in Messages : host'[k] \in Preflight <=> host[k] \in Preflight
      <3>1. host' = [host EXCEPT ![m] = "sleep"]
        BY <1>23 DEF PrepareRetry, Crossing
      <3>2. "sleep" \notin Preflight /\ host[m] \notin Preflight
        BY <1>23 DEF PrepareRetry, Crossing, Deciding, Preflight
      <3>3. QED
        BY <3>1, <3>2, HostSame DEF ATypeOK
    <2>3. QED
      BY <2>1, <2>2, PlaceSame
  <1>24. ASSUME NEW m \in Messages, PostChecked(m)
        PROVE  OnceInv' /\ PlaceInv'
    <2>1. UNCHANGED <<steering, followUp, prompts, pending, log, summarized, gone, returned, given, limits>>
      BY <1>24 DEF PostChecked, CheckCompaction, RecoverOverflow, CompactBySize, Crossing, queues, inbox, tools,
          loopVars, archive, lists, history
    <2>2. \A k \in Messages : host'[k] \in Preflight <=> host[k] \in Preflight
      <3>1. PICK x \in {"recover", "compact", "decide"} : host' = [host EXCEPT ![m] = x]
        BY <1>24 DEF PostChecked, CheckCompaction, RecoverOverflow, CompactBySize, Crossing
      <3>2. x \in Preflight <=> host[m] \in Preflight
        BY <1>24, <3>1 DEF PostChecked, Preflight
      <3>3. QED
        BY <3>1, <3>2, HostSame DEF ATypeOK
    <2>3. QED
      BY <2>1, <2>2, PlaceSame
  <1>25. ASSUME NEW m \in Messages, SleepOver(m)
        PROVE  OnceInv' /\ PlaceInv'
    <2>1. UNCHANGED <<steering, followUp, prompts, pending, log, summarized, gone, returned, given, limits>>
      BY <1>25 DEF SleepOver, queues, inbox, tools, loopVars, archive, lists, history
    <2>2. \A k \in Messages : host'[k] \in Preflight <=> host[k] \in Preflight
      <3>1. host' = [host EXCEPT ![m] = "resume"]
        BY <1>25 DEF SleepOver
      <3>2. "resume" \notin Preflight /\ host[m] \notin Preflight
        BY <1>25 DEF SleepOver, Deciding, Preflight
      <3>3. QED
        BY <3>1, <3>2, HostSame DEF ATypeOK
    <2>3. QED
      BY <2>1, <2>2, PlaceSame
  <1>26. ASSUME NEW m \in Messages, CompactDone(m)
        PROVE  OnceInv' /\ PlaceInv'
    <2>1. PICK cut \in CutPoints, drop \in BOOLEAN : Compacted(cut, drop)
      <3>1. PICK cut \in CutPoints : Compacted(cut, host[m] \in {"recover", "prerecover"})
        BY <1>26 DEF CompactDone
      <3>2. Compacted(cut, TRUE) \/ Compacted(cut, FALSE)
        BY <3>1 DEF Compacted
      <3>3. QED
        BY <3>2
    <2>2. UNCHANGED <<steering, followUp, prompts, pending, gone, returned, given, limits>>
      BY <1>26 DEF CompactDone, queues, inbox, lists
    <2>3. \A k \in Messages : host'[k] \in Preflight <=> host[k] \in Preflight
      <3>1. PICK x : x = AfterCompaction(host[m], TRUE) /\ host' = [host EXCEPT ![m] = x]
        BY <1>26 DEF CompactDone
      <3>2. x \in Preflight <=> host[m] \in Preflight
        BY <1>26, <3>1 DEF CompactDone, Compacting, AfterCompaction, Preflight
      <3>3. QED
        BY <3>1, <3>2, HostSame DEF ATypeOK
    <2>4. QED
      BY <2>1, <2>2, <2>3, CompactMoves
  <1>27. ASSUME NEW m \in Messages, CompactFails(m)
        PROVE  OnceInv' /\ PlaceInv'
    <2>1. UNCHANGED <<steering, followUp, prompts, pending, log, summarized, gone, returned, given, limits>>
      BY <1>27 DEF CompactFails, queues, inbox, tools, loopVars, archive, lists, history
    <2>2. \A k \in Messages : host'[k] \in Preflight <=> host[k] \in Preflight
      <3>1. PICK x : x = AfterCompaction(host[m], FALSE) /\ host' = [host EXCEPT ![m] = x]
        BY <1>27 DEF CompactFails
      <3>2. x \in Preflight <=> host[m] \in Preflight
        BY <1>27, <3>1 DEF CompactFails, Compacting, AfterCompaction, Preflight
      <3>3. QED
        BY <3>1, <3>2, HostSame DEF ATypeOK
    <2>3. QED
      BY <2>1, <2>2, PlaceSame
  <1>28. ASSUME NEW m \in Messages, ContinueRun(m)
        PROVE  OnceInv' /\ PlaceInv'
    <2>1. /\ prompts = <<>> /\ pending = <<>> /\ pending' = <<>> /\ UNCHANGED <<log, summarized, gone, returned, given, limits>>
      BY <1>28 DEF ContinueRun, Continue, Open, queues, inbox, tools, loopVars, archive, lists, history, InboxInv
    <2>2. \A k \in Messages : host'[k] \in Preflight <=> host[k] \in Preflight
      <3>1. host' = [host EXCEPT ![m] = "run"]
        BY <1>28 DEF ContinueRun
      <3>2. "run" \notin Preflight /\ host[m] \notin Preflight
        BY <1>28 DEF ContinueRun, Deciding, Preflight
      <3>3. QED
        BY <3>1, <3>2, HostSame DEF ATypeOK
    <2>3. \/ steering' = Rest(steering) /\ prompts' = Drained(steering) /\ followUp' = followUp
          \/ followUp' = Rest(followUp) /\ prompts' = Drained(followUp) /\ steering' = steering
          \/ steering' = steering /\ followUp' = followUp /\ prompts' = <<>>
      BY <1>28 DEF ContinueRun, Continue, Open, queues
    <2>4. CASE steering' = Rest(steering) /\ prompts' = Drained(steering) /\ followUp' = followUp
      BY <2>1, <2>2, <2>4, SteeringStarts
    <2>5. CASE followUp' = Rest(followUp) /\ prompts' = Drained(followUp) /\ steering' = steering
      BY <2>1, <2>2, <2>5, FollowUpStarts
    <2>6. CASE steering' = steering /\ followUp' = followUp /\ prompts' = <<>>
      BY <2>1, <2>2, <2>6, PlaceSame
    <2>7. QED
      BY <2>3, <2>4, <2>5, <2>6
  <1>29. ASSUME NEW m \in Messages, ContinueThrows(m)
        PROVE  OnceInv' /\ PlaceInv'
    <2>1. UNCHANGED <<steering, followUp, prompts, pending, log, summarized, gone, returned, given, limits>>
      BY <1>29 DEF ContinueThrows, Settle, queues, inbox, tools, loopVars, archive, lists, history
    <2>2. \A k \in Messages : host'[k] \in Preflight <=> host[k] \in Preflight
      <3>1. host' = [host EXCEPT ![m] = "none"]
        BY <1>29 DEF ContinueThrows, Settle
      <3>2. "none" \notin Preflight /\ host[m] \notin Preflight
        BY <1>29 DEF ContinueThrows, Settle, Deciding, Preflight
      <3>3. QED
        BY <3>1, <3>2, HostSame DEF ATypeOK
    <2>3. QED
      BY <2>1, <2>2, PlaceSame
  <1>30. ASSUME NEW m \in Messages, Done(m)
        PROVE  OnceInv' /\ PlaceInv'
    <2>1. UNCHANGED <<steering, followUp, prompts, pending, log, summarized, gone, returned, given, limits>>
      BY <1>30 DEF Done, Settle, queues, inbox, tools, loopVars, archive, lists, history
    <2>2. \A k \in Messages : host'[k] \in Preflight <=> host[k] \in Preflight
      <3>1. host' = [host EXCEPT ![m] = "none"]
        BY <1>30 DEF Done, Settle
      <3>2. "none" \notin Preflight /\ host[m] \notin Preflight
        BY <1>30 DEF Done, Settle, Deciding, Preflight
      <3>3. QED
        BY <3>1, <3>2, HostSame DEF ATypeOK
    <2>3. QED
      BY <2>1, <2>2, PlaceSame
  <1>31. QED
    BY <1>1, <1>2, <1>3, <1>4, <1>5, <1>6, <1>7, <1>8, <1>9, <1>10, <1>11, <1>12, <1>13, <1>14, <1>15, <1>16,
        <1>17, <1>18, <1>19, <1>20, <1>21, <1>22, <1>23, <1>24, <1>25, <1>26, <1>27, <1>28, <1>29, <1>30 DEF
        SNext, Loop, LoopStep, HostStep, Persist, Calm

\* NothingLost: a submitted message is in one place at any time, also when prompt() calls
\* overlap; one that was given back is in no queue, and in one place at most.
THEOREM NoneLost == SSpec => []NothingLost
  <1>1. SInit => InboxInv /\ OnceInv /\ PlaceInv /\ ListInv
    <2>1. SUFFICES ASSUME SInit PROVE InboxInv /\ OnceInv /\ PlaceInv /\ ListInv
      OBVIOUS
    <2>2. limits.messages \in Nat
      BY <2>1, LoopAssumption DEF SInit, Init, LimitNames
    <2>3. \A m \in Messages, p \in PlaceNames : ~At(m, p) /\ ~(m <= given)
      BY <2>1, InEmpty DEF SInit, Init, At, Preflight, Messages
    <2>4. PlaceInv
      <3>1. given = 0
        BY <2>1 DEF SInit
      <3>2. \A m \in Messages : ~(m <= given) /\ \A p \in PlaceNames : ~At(m, p)
        BY <2>3 DEF PlaceNames
      <3>3. given \in Nat /\ given <= limits.messages
        BY <2>2, <3>1
      <3>4. QED
        BY <3>2, <3>3 DEF PlaceInv
    <2>5. InboxInv /\ OnceInv
      BY <2>1, InEmpty DEF SInit, Init, InboxInv, OnceInv, OnceAt
    <2>6. ListInv
      BY <2>1, InEmpty DEF SInit, Init, ListInv, InQueue
    <2>7. QED
      BY <2>4, <2>5, <2>6
  <1>2. ASSUME ATypeOK, InboxInv, OnceInv, PlaceInv, ListInv, [SNext]_vars
        PROVE  InboxInv' /\ OnceInv' /\ PlaceInv' /\ ListInv'
    <2>1. CASE SNext
      BY <1>2, <2>1, InboxKept, PlaceKept, ListKept
    <2>2. CASE UNCHANGED vars
      <3>1. InboxInv'
        BY <1>2, <2>2 DEF vars, loopVars, InboxInv
      <3>2. OnceInv' /\ PlaceInv'
        BY <1>2, <2>2, PlaceSame DEF vars, loopVars, hostVars, lists
      <3>3. ListInv'
        BY <1>2, <2>2, ListSame DEF vars, loopVars, hostVars, lists
      <3>4. QED
        BY <3>1, <3>2, <3>3
    <2>3. QED
      BY <1>2, <2>1, <2>2
  <1>3. ATypeOK /\ OnceInv /\ PlaceInv /\ ListInv => NothingLost
    <2>1. SUFFICES ASSUME ATypeOK, OnceInv, PlaceInv, ListInv, NEW m \in 1..given
                   PROVE  /\ Places(m) <= 1
                          /\ IF m \in returned THEN Occurrences(m, steering) + Occurrences(m, followUp) = 0
                             ELSE Places(m) = 1
      BY DEF NothingLost
    <2>2. m \in Messages /\ m <= given
      <3>1. limits.messages \in Nat /\ given \in Nat /\ given <= limits.messages
        BY <2>1, LoopAssumption DEF PlaceInv, ATypeOK, StepTypes, LimitNames
      <3>2. QED
        BY <3>1 DEF Messages
    <2>3. PICK p \in PlaceNames \cup {"none"} :
             (\A r \in PlaceNames : At(m, r) <=> r = p) /\ (m \notin returned => p # "none")
      <3>1. CASE \E r \in PlaceNames : At(m, r)
        BY <2>1, <2>2, <3>1 DEF PlaceInv, PlaceNames
      <3>2. CASE \A r \in PlaceNames : ~At(m, r)
        <4>1. m \in returned /\ "none" \notin PlaceNames
          BY <2>1, <2>2, <3>2 DEF PlaceInv, PlaceNames
        <4>2. QED
          BY <3>2, <4>1
      <3>3. QED
        BY <3>1, <3>2
    <2>4. /\ Occurrences(m, steering) = (IF p = "steering" THEN 1 ELSE 0)
          /\ Occurrences(m, followUp) = (IF p = "followUp" THEN 1 ELSE 0)
          /\ Occurrences(m, prompts) = (IF p = "prompts" THEN 1 ELSE 0)
          /\ Occurrences(m, pending) = (IF p = "pending" THEN 1 ELSE 0)
          /\ Occurrences(User(m), log) = (IF p = "log" THEN 1 ELSE 0)
      <3>1. /\ Occurrences(m, steering) = (IF In(m, steering) THEN 1 ELSE 0)
            /\ Occurrences(m, followUp) = (IF In(m, followUp) THEN 1 ELSE 0)
            /\ Occurrences(m, prompts) = (IF In(m, prompts) THEN 1 ELSE 0)
            /\ Occurrences(m, pending) = (IF In(m, pending) THEN 1 ELSE 0)
            /\ Occurrences(User(m), log) = (IF In(User(m), log) THEN 1 ELSE 0)
        BY <2>1, <2>2, OccurrencesOnce DEF ATypeOK, QueueTypes, MessageTypes, OnceInv, OnceAt
      <3>2. /\ (In(m, steering) <=> p = "steering") /\ (In(m, followUp) <=> p = "followUp")
            /\ (In(m, prompts) <=> p = "prompts") /\ (In(m, pending) <=> p = "pending")
            /\ (In(User(m), log) <=> p = "log")
        BY <2>3 DEF At, PlaceNames
      <3>3. QED
        BY <3>1, <3>2
    <2>5. /\ m \in summarized <=> p = "summarized"
          /\ host[m] \in Preflight <=> p = "preflight"
          /\ m \in gone <=> p = "gone"
      BY <2>3 DEF At, PlaceNames
    <2>6. Places(m) = IF p = "none" THEN 0 ELSE 1
      BY <2>3, <2>4, <2>5 DEF Places, PlaceNames
    <2>7. m \in returned => p # "steering" /\ p # "followUp"
      <3>1. m \in returned => ~InQueue(m)
        BY <2>1, <2>2 DEF ListInv
      <3>2. QED
        BY <2>3, <3>1 DEF InQueue, At, PlaceNames
    <2>8. QED
      BY <2>3, <2>4, <2>6, <2>7
  <1>4. QED
    BY <1>1, <1>2, <1>3, Types, PTL DEF SSpec

=============================================================================
