------------------------------ MODULE AiraGoal ------------------------------
(***************************************************************************)
(* The goal runtime: packages/coding-agent/src/aira/goal/manager.ts with   *)
(* state-machine.ts, types.ts, usage.ts and persistence.ts.                *)
(*                                                                         *)
(* A goal is driven by completion boundaries.  A boundary is an async      *)
(* handler that holds a reference to the goal object while it awaits a     *)
(* verification, a test run or a continuation; meanwhile the user stops,   *)
(* resumes, cancels, clears or replaces the goal, questions open and       *)
(* close, the implementation moves, and the process may crash.             *)
(*                                                                         *)
(* Verification is seen through state.verification.currentResult: results  *)
(* are published by anyone (agent_end, /verify, the boundary's own         *)
(* request) and become stale at any time.  handler[b].pc is the await the  *)
(* boundary b is suspended in:                                             *)
(*   idle      none                                                        *)
(*   verify    verification.verify of requestBoundaryVerification          *)
(*   evidence  execution.start of acquireTestEvidence                      *)
(*   recheck   verification.verify after the evidence                      *)
(*   send      sendContinuation                                            *)
(***************************************************************************)
EXTENDS Integers, FiniteSets

CONSTANTS MaxGoals,    \* bound on the goals created
          MaxRounds,   \* settings.maxRounds
          MaxResults   \* bound on the verification results published

ASSUME BoundsAssumption == MaxGoals \in Nat /\ MaxResults \in Nat
ASSUME RoundsAssumption == MaxRounds \in Nat \ {0}

VARIABLES
  goals,    \* the goal objects by number, as the handlers hold them
  created,  \* how many there are
  cur,      \* this.goal, or 0
  file,     \* the persisted goal, or NoFile
  failObs,  \* previousFailObservation is set
  result,   \* state.verification.currentResult, or NoResult
  results,  \* how many were published
  handler,  \* the suspended boundaries
  agent,    \* idle, running, or ending (agent_end awaits the boundary)
  question, \* an interaction is pending
  disposed,
  resumed   \* history: since the session (re)started the user acted, or a question ended

sessionVars == <<agent, question, disposed, resumed>>
resultVars == <<result, results>>
goalVars == <<goals, created, cur, file, failObs>>
vars == <<goalVars, resultVars, handler, sessionVars>>

Goals == 1..MaxGoals

\* Where a boundary comes from: agent_end, the task graph, /goal resume.  Each
\* source has at most one suspended boundary (a bound of the model).
Sources == {"agent", "tasks", "resume"}

Statuses == {"idle", "active", "verifying", "repairing", "waiting", "paused",
             "completed", "budget-limited", "cancelled", "error"}
Running == {"active", "repairing", "verifying"}
Terminal == {"completed", "budget-limited", "cancelled", "error"}

\* AIRA_GOAL_TRANSITIONS; from === to is allowed too.
Table ==
  [s \in Statuses |->
     CASE s = "idle" -> {"active"}
       [] s = "active" -> {"verifying", "repairing", "waiting", "paused"} \cup Terminal
       [] s = "verifying" -> {"active", "repairing", "waiting", "paused"} \cup Terminal
       [] s = "repairing" -> {"verifying", "waiting", "paused"} \cup Terminal
       [] s = "waiting" -> {"active", "paused", "cancelled", "error"}
       [] s = "paused" -> {"active", "repairing", "cancelled", "error"}
       [] s \in Terminal -> {"idle"}]

Allowed(from, to) == from = to \/ to \in Table[from]

NoFile == [id |-> 0]
NoResult == [id |-> 0]

NoGoal == [status |-> "idle", round |-> 0, verdict |-> "none", lastResult |-> 0,
           pending |-> FALSE, wait |-> "none", interaction |-> FALSE,
           evidenceRound |-> 0, repair |-> FALSE]

\* promote(): a fresh active goal in round 1.
NewGoal == [NoGoal EXCEPT !.status = "active", !.round = 1]

\* persistGoal: the bounded record written for goal i.
Saved(i, g) == [id |-> i, status |-> g.status, round |-> g.round,
                verdict |-> g.verdict, wait |-> g.wait]

\* The status the session shows; idle without a goal.
Status == IF cur = 0 THEN "idle" ELSE goals[cur].status

Idle == [pc |-> "idle", g |-> 0]

Init ==
  /\ goals = [i \in Goals |-> NoGoal]
  /\ created = 0 /\ cur = 0 /\ file = NoFile /\ failObs = FALSE
  /\ result = NoResult /\ results = 0
  /\ handler = [b \in Sources |-> Idle]
  /\ agent = "idle" /\ question = FALSE /\ disposed = FALSE /\ resumed = FALSE

-----------------------------------------------------------------------------
(***************************************************************************)
(* A boundary from one await to the next.  An outcome says what became of  *)
(* the goal object, where the handler is suspended, whether the goal was   *)
(* persisted, and previousFailObservation.                                 *)
(***************************************************************************)
Outcome(g, pc, save, obs) ==
  [goal |-> g, pc |-> pc, save |-> save, obs |-> obs]

\* Mutant: the transition is not asserted.
MoveToUnasserted(g, to, obs) ==
  Outcome([g EXCEPT !.status = to,
                    !.wait = CASE to = "waiting" -> "evidence"
                               [] to = "completed" -> "none"
                               [] OTHER -> @],
          "idle", TRUE, obs)

\* complete, budgetLimit, enterWaiting: the transition is asserted first, and
\* what the handler had already assigned stays when it throws.
MoveTo(g, to, obs) ==
  IF Allowed(g.status, to)
  THEN Outcome([g EXCEPT !.status = to,
                         !.wait = CASE to = "waiting" -> "evidence"
                                    [] to = "completed" -> "none"
                                    [] OTHER -> @],
               "idle", TRUE, obs)
  ELSE Outcome(g, "idle", FALSE, obs)

\* Mutant: a boundary without a verdict leaves the goal verifying.
NormalisedStuck(g) == g

\* "Never a stuck state": a boundary that ends without acting leaves verifying.
Normalised(g) == [g EXCEPT !.status = IF @ = "verifying" THEN "active" ELSE @]

\* freshVerificationResult: a result this goal has not consumed yet.
Consumable(g) == result # NoResult /\ result.id # g.lastResult

\* Mutant: the round bound is compared with the round that ended.
EnqueueRepairOffByOne(g, obs, save) ==
  IF g.status \notin Running
  THEN {Outcome(g, "idle", save, obs)}
  ELSE {Outcome(Normalised(g), "idle", TRUE, obs), MoveTo(g, "budget-limited", obs)}
         \cup IF g.round > MaxRounds THEN {}
              ELSE IF g.repair \/ Consumable(g)
              THEN {Outcome([g EXCEPT !.status = "repairing", !.round = @ + 1],
                            "send", TRUE, obs)}
              ELSE {Outcome(g, "idle", save, obs)}

\* enqueueRepair: a stopped goal is left alone; a pending user message or a host
\* without the seam defers; a bound stops; otherwise round + 1 is sent.  save:
\* the caller has persisted the goal.
EnqueueRepair(g, obs, save) ==
  IF g.status \notin Running
  THEN {Outcome(g, "idle", save, obs)}
  ELSE {Outcome(Normalised(g), "idle", TRUE, obs), MoveTo(g, "budget-limited", obs)}
         \cup IF g.round + 1 > MaxRounds THEN {}
              ELSE IF g.repair \/ Consumable(g)
              THEN {Outcome([g EXCEPT !.status = "repairing", !.round = @ + 1],
                            "send", TRUE, obs)}
              ELSE {Outcome(g, "idle", save, obs)}

\* handleFail: the same failure as in the previous round is no progress.
HandleFail(g) ==
  EnqueueRepair(g, TRUE, TRUE)
    \cup IF failObs THEN {MoveTo(g, "budget-limited", TRUE)} ELSE {}

\* handleInconclusive: tests may be run once a round, within the token and time
\* budget; otherwise the goal waits.
HandleInconclusive(g) ==
  {MoveTo(g, "waiting", failObs)}
    \cup IF g.evidenceRound = g.round THEN {}
         ELSE {MoveTo(g, "budget-limited", failObs),
               Outcome([g EXCEPT !.evidenceRound = g.round], "evidence", FALSE, failObs)}

\* The result is consumed: the goal remembers it and acts on its verdict.
Consumed(g) == [g EXCEPT !.lastResult = result.id, !.verdict = result.verdict,
                         !.repair = CASE result.verdict = "pass" -> FALSE
                                      [] result.verdict = "fail" -> TRUE
                                      [] OTHER -> @]

Judge(g) ==
  CASE result.verdict = "pass" -> {MoveTo(Consumed(g), "completed", failObs)}
    [] result.verdict = "fail" -> HandleFail(Consumed(g))
    [] result.verdict = "inconclusive" -> HandleInconclusive(Consumed(g))

\* The boundary ends with a note: PLAN mode, verification off, or no verdict.
Noted(g) == Outcome(Normalised(g), "idle", TRUE, failObs)

\* handleBoundary up to its first await.
HandleBoundary(g) ==
  IF g.status \notin {"active", "repairing"}
  THEN {Outcome(g, "idle", FALSE, failObs)}
  ELSE {Noted(g)}
         \cup IF Consumable(g) THEN Judge(g)
              ELSE {Outcome([g EXCEPT !.status = "verifying"], "verify", FALSE, failObs)}

\* Boundary b of goal i runs to its outcome o.
Apply(b, i, o) ==
  /\ goals' = [goals EXCEPT ![i] = o.goal]
  /\ handler' = [handler EXCEPT ![b] = IF o.pc = "idle" THEN Idle ELSE [pc |-> o.pc, g |-> i]]
  /\ file' = IF o.save THEN Saved(i, o.goal) ELSE file
  /\ failObs' = o.obs
  /\ agent' = IF b # "agent" THEN agent ELSE IF o.pc = "idle" THEN "idle" ELSE "ending"

-----------------------------------------------------------------------------
(***************************************************************************)
(* The handlers' continuations                                             *)
(***************************************************************************)
held(b) == goals[handler[b].g]

\* verification.verify has answered, with or without a new result.
VerifyReturns(b) ==
  /\ handler[b].pc = "verify"
  /\ \E o \in IF Consumable(held(b)) THEN Judge(held(b)) ELSE {Noted(held(b))} :
       Apply(b, handler[b].g, o)
  /\ UNCHANGED <<created, cur, resultVars, question, disposed, resumed>>

\* The test run has ended: recheck, or wait when it could not be spawned.
EvidenceReturns(b, ran) ==
  /\ handler[b].pc = "evidence"
  /\ Apply(b, handler[b].g, IF ran THEN Outcome(held(b), "recheck", FALSE, failObs)
                            ELSE MoveTo(held(b), "waiting", failObs))
  /\ UNCHANGED <<created, cur, resultVars, question, disposed, resumed>>

\* The forced verification has answered: a new PASS or FAIL counts, everything
\* else leaves the goal waiting for evidence.
RecheckReturns(b, ok) ==
  /\ handler[b].pc = "recheck"
  /\ LET g == held(b)
         fresh == ok /\ Consumable(g)
     IN \E o \in IF fresh /\ result.verdict # "inconclusive" THEN Judge(g)
                 ELSE {MoveTo(IF fresh THEN Consumed(g) ELSE g, "waiting", failObs)} :
          Apply(b, handler[b].g, o)
  /\ UNCHANGED <<created, cur, resultVars, question, disposed, resumed>>

\* sendContinuation has answered: the prompt was queued, or it ran (a boundary
\* outside agent_end awaits the whole repair run), or it could not be sent.
SendReturns(b, sent) ==
  /\ handler[b].pc = "send"
  /\ Apply(b, handler[b].g, Outcome([held(b) EXCEPT !.pending = sent], "idle", ~sent, failObs))
  /\ UNCHANGED <<created, cur, resultVars, question, disposed, resumed>>

HandlerStep(b) ==
  \/ VerifyReturns(b)
  \/ \E ok \in BOOLEAN : EvidenceReturns(b, ok) \/ RecheckReturns(b, ok) \/ SendReturns(b, ok)

-----------------------------------------------------------------------------
(***************************************************************************)
(* Verification and the agent, as the goal runtime sees them               *)
(***************************************************************************)

\* A verification run publishes its result, already stale if the fence says so.
ResultPublished(verdict, stale) ==
  /\ results < MaxResults
  /\ results' = results + 1
  /\ result' = [id |-> results + 1, verdict |-> verdict, stale |-> stale]
  /\ UNCHANGED <<goalVars, handler, sessionVars>>

\* The implementation moves: invalidateResult.
ResultStales ==
  /\ result # NoResult /\ ~result.stale
  /\ result' = [result EXCEPT !.stale = TRUE]
  /\ UNCHANGED <<goalVars, results, handler, sessionVars>>

AgentStarts ==
  /\ agent = "idle" /\ ~disposed
  /\ agent' = "running"
  /\ UNCHANGED <<goalVars, resultVars, handler, question, disposed, resumed>>

\* onAgentEnd when there is nothing to do: no running goal, a retry to come, or
\* the subscription is gone.
AgentEndsIgnored ==
  /\ agent = "running"
  /\ agent' = "idle"
  /\ UNCHANGED <<goalVars, resultVars, handler, question, disposed, resumed>>

\* The run was aborted or failed: the goal pauses.
AgentEndsBroken ==
  /\ agent = "running" /\ ~disposed
  /\ Status \in Running
  /\ goals' = [goals EXCEPT ![cur].status = "paused", ![cur].pending = FALSE]
  /\ file' = Saved(cur, goals'[cur])
  /\ agent' = "idle"
  /\ UNCHANGED <<created, cur, failObs, resultVars, handler, question, disposed,
                 resumed>>

\* The round is over: the boundary begins.
AgentEnds ==
  /\ agent = "running" /\ ~disposed
  /\ Status \in Running
  /\ \E o \in HandleBoundary([goals[cur] EXCEPT !.pending = FALSE]) : Apply("agent", cur, o)
  /\ UNCHANGED <<created, cur, resultVars, question, disposed, resumed>>

\* observeTaskCompletion: the task graph has just become all settled.
TasksSettle ==
  /\ handler["tasks"] = Idle /\ ~disposed
  /\ Status \in Running
  /\ \E o \in HandleBoundary(goals[cur]) : Apply("tasks", cur, o)
  /\ UNCHANGED <<created, cur, resultVars, question, disposed, resumed>>

-----------------------------------------------------------------------------
(***************************************************************************)
(* The user                                                                *)
(***************************************************************************)
userUnchanged == <<resultVars, agent, question, disposed>>

\* The current goal is rewritten and persisted by the handler of a command.
Rewrite(g) ==
  /\ goals' = [goals EXCEPT ![cur] = g]
  /\ file' = Saved(cur, g)
  /\ resumed' = TRUE
  /\ UNCHANGED <<created, cur, failObs>>

\* promote(): a new goal replaces whatever there was.
Promote ==
  /\ created < MaxGoals
  /\ created' = created + 1 /\ cur' = created + 1
  /\ goals' = [goals EXCEPT ![created + 1] = NewGoal]
  /\ file' = Saved(created + 1, NewGoal)
  /\ failObs' = FALSE
  /\ resumed' = TRUE

\* create(), and a user message that promotes itself (not over a paused goal).
Create ==
  /\ ~disposed
  /\ Status \in Terminal \cup {"idle", "paused"}
  /\ Promote
  /\ UNCHANGED <<userUnchanged, handler>>

\* considerUserObjective: a message resumes a paused or waiting goal.
UserMessage ==
  /\ ~disposed
  /\ Status \in {"paused", "waiting"}
  /\ Rewrite([goals[cur] EXCEPT !.status = "active", !.wait = "none"])
  /\ UNCHANGED <<userUnchanged, handler>>

Stop ==
  /\ ~disposed
  /\ Status \in Running \cup {"waiting"}
  /\ Rewrite([goals[cur] EXCEPT !.status = "paused", !.pending = FALSE])
  /\ UNCHANGED <<userUnchanged, handler>>

\* resume(): the goal is active again, the task graph is looked at (a boundary
\* may begin), and after a FAIL the repair loop goes on.
Resume ==
  /\ ~disposed
  /\ Status \in {"paused", "waiting", "verifying"}
  /\ handler["tasks"] = Idle /\ handler["resume"] = Idle
  /\ LET g == [goals[cur] EXCEPT !.status = "active", !.wait = "none"]
     IN \E first \in HandleBoundary(g) \cup {Outcome(g, "idle", TRUE, failObs)} :
        \E last \in IF first.goal.verdict = "fail" /\ ~first.goal.pending
                    THEN EnqueueRepair(first.goal, first.obs, first.save)
                    ELSE {Outcome(first.goal, "idle", first.save, first.obs)} :
          /\ goals' = [goals EXCEPT ![cur] = last.goal]
          /\ file' = Saved(cur, IF last.save THEN last.goal ELSE g)
          /\ failObs' = last.obs
          /\ handler' = [handler EXCEPT
                !["tasks"] = IF first.pc = "idle" THEN Idle ELSE [pc |-> first.pc, g |-> cur],
                !["resume"] = IF last.pc = "idle" THEN Idle ELSE [pc |-> last.pc, g |-> cur]]
  /\ resumed' = TRUE
  /\ UNCHANGED <<created, cur, userUnchanged>>

\* cancel(): cancelled and completed goals are answered with a refusal; the
\* transition of a budget-limited one throws.  Both change nothing.
Cancel ==
  /\ ~disposed
  /\ Status # "idle" /\ Status # "cancelled" /\ Allowed(Status, "cancelled")
  /\ Rewrite([goals[cur] EXCEPT !.status = "cancelled", !.pending = FALSE, !.wait = "none"])
  /\ UNCHANGED <<userUnchanged, handler>>

Clear ==
  /\ ~disposed
  /\ Status \in Terminal \cup {"paused"}
  /\ cur' = 0 /\ file' = NoFile /\ failObs' = FALSE
  /\ UNCHANGED <<goals, created, userUnchanged, handler, resumed>>

\* considerUserInteraction, pending: a running goal waits for the answer.
QuestionOpens ==
  /\ ~question /\ ~disposed
  /\ question' = TRUE
  /\ IF Status \in Running
     THEN Rewrite([goals[cur] EXCEPT !.status = "waiting", !.wait = "interaction",
                                     !.interaction = TRUE])
     ELSE UNCHANGED <<goalVars, resumed>>
  /\ UNCHANGED <<resultVars, agent, disposed, handler>>

\* answered, or a permission that was closed (denied, cancelled or timed out): the goal
\* that waits for a question resumes, also one that waited when it was persisted.
QuestionAnswered ==
  /\ question /\ ~disposed
  /\ question' = FALSE
  /\ IF Status = "waiting" /\ goals[cur].interaction
     THEN Rewrite([goals[cur] EXCEPT !.status = "active", !.wait = "none",
                                     !.interaction = FALSE])
     ELSE UNCHANGED <<goalVars, resumed>>
  /\ UNCHANGED <<resultVars, agent, disposed, handler>>

\* A semantic question that was closed without an answer: the goal keeps waiting.
QuestionClosed ==
  /\ question /\ ~disposed
  /\ question' = FALSE
  /\ UNCHANGED <<goalVars, resultVars, agent, disposed, resumed, handler>>

\* dispose(): a running goal is paused and persisted; handlers are not recalled.
Dispose ==
  /\ ~disposed /\ disposed' = TRUE
  /\ IF Status \in Running
     THEN /\ goals' = [goals EXCEPT ![cur].status = "paused", ![cur].pending = FALSE]
          /\ file' = Saved(cur, goals'[cur])
     ELSE UNCHANGED <<goals, file>>
  /\ UNCHANGED <<created, cur, failObs, resultVars, handler, agent, question,
                 resumed>>

\* Mutant: a goal recovers with the status it was persisted with.
RecoveredAsIs ==
  [NoGoal EXCEPT !.status = file.status,
                 !.round = file.round, !.verdict = file.verdict, !.wait = file.wait,
                 !.interaction = (file.wait = "interaction")]

\* recover(): a goal that was running when it was persisted is paused.
Recovered ==
  [NoGoal EXCEPT !.status = IF file.status \in Running THEN "paused" ELSE file.status,
                 !.round = file.round, !.verdict = file.verdict, !.wait = file.wait,
                 !.interaction = (file.wait = "interaction")]

\* The process ends, by a crash or after dispose, and the session is opened
\* again: only the file survives.
Restart ==
  /\ cur' = file.id
  /\ goals' = [i \in Goals |-> IF i = file.id THEN Recovered ELSE NoGoal]
  /\ handler' = [b \in Sources |-> Idle]
  /\ failObs' = FALSE /\ result' = NoResult
  /\ agent' = "idle" /\ question' = FALSE /\ disposed' = FALSE /\ resumed' = FALSE
  /\ UNCHANGED <<created, file, results>>

Command ==
  \/ Create \/ UserMessage \/ Stop \/ Resume \/ Cancel \/ Clear
  \/ QuestionOpens \/ QuestionAnswered \/ QuestionClosed

Next ==
  \/ \E v \in {"pass", "fail", "inconclusive"}, stale \in BOOLEAN : ResultPublished(v, stale)
  \/ ResultStales
  \/ AgentStarts \/ AgentEndsIgnored \/ AgentEndsBroken \/ AgentEnds \/ TasksSettle
  \/ Command
  \/ \E b \in Sources : HandlerStep(b)
  \/ Dispose \/ Restart

Spec == Init /\ [][Next]_vars

\* verify(), the test run and the continuation all settle: each has a deadline
\* of its own.  Nothing else is assumed to happen.
Fairness == \A b \in Sources : WF_vars(HandlerStep(b))

FairSpec == Spec /\ Fairness

-----------------------------------------------------------------------------
(***************************************************************************)
(* Properties                                                              *)
(***************************************************************************)

\* "Autonomous continuation is strictly bounded": no goal gets past maxRounds,
\* although boundaries of several sources and /goal resume all start rounds.
RoundsBounded == \A i \in Goals : goals[i].round <= MaxRounds

\* A goal that was stopped and cleared or replaced stays stopped, whatever the
\* boundaries that still hold it find out: autonomy ends with the user's word.
OrphansStopped ==
  \A i \in Goals : i # cur => goals[i].status \notin Running \cup {"waiting"}

\* Terminal statuses are final: no late boundary, question or command reopens a
\* goal that completed, ran out of budget or was cancelled.
TerminalIsFinal ==
  [][\A i \in Goals : goals[i].status \in Terminal
        => goals'[i].status \in {goals[i].status, "idle"}]_vars

\* "Running-class goals recover as paused ... and require manual or steered
\* resumption": after a restart nothing runs until the user says so, or a question of
\* the new session ends that a waiting goal takes for its own.
RecoveredNeedsUser ==
  ~resumed => Status \notin Running /\ \A b \in Sources : handler[b] = Idle

\* "Never a stuck state": a goal does not stay in verifying.
VerifyingEnds == (Status = "verifying") ~> (Status # "verifying")

\* A boundary completes goal i on the current result (a restart only reads that
\* it was completed).
Completes(i) == /\ goals'[i].status = "completed" /\ goals[i].status # "completed"
                /\ goals'[i].lastResult # 0

\* "completed is a truthful representation of fresh verification": the PASS that
\* completes a goal is not stale.
CompletionIsFresh ==
  [][\A i \in Goals : Completes(i) => ~result.stale]_vars

=============================================================================
