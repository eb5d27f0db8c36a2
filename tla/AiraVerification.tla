-------------------------- MODULE AiraVerification --------------------------
(***************************************************************************)
(* Independent verification:                                               *)
(* packages/coding-agent/src/aira/verification/manager.ts.                 *)
(*                                                                         *)
(* A verification run judges one revision of the change set and publishes  *)
(* a result that must be marked stale as soon as the implementation moves. *)
(* Everyone who calls it suspends in the same awaits (the git seam, the    *)
(* ownership classification, the model runtime, the verifier, the seam and *)
(* the classification again for the completion fence) while the agent's    *)
(* tools, the user's editor and child processes keep writing files.        *)
(*                                                                         *)
(* call[c].pc is the await the call of c is suspended in:                  *)
(*   idle           no call                                                *)
(*   seam           collectChangeFiles: changeSeam                         *)
(*   classify       collectChangeFiles: ownership.classify                 *)
(*   runtime        options.runtime                                        *)
(*   verifier       the verifier itself                                    *)
(*   fenceSeam, fenceClassify   collectChangeFiles of the fence            *)
(***************************************************************************)
EXTENDS Integers, FiniteSets

CONSTANTS File,      \* the paths of the workspace
          Explicit,  \* the callers of verify(): the command, the goal, a task
          Verdict,   \* what a verifier may answer: pass, fail, inconclusive
          MaxClock   \* bound on the number of file system changes

ASSUME FileAssumption == IsFiniteSet(File)
ASSUME ExplicitAssumption == "auto" \notin Explicit
ASSUME VerdictAssumption == Verdict \subseteq {"pass", "fail", "inconclusive"}
ASSUME ClockAssumption == MaxClock \in Nat

\* "auto" is the automatic run of agent_end, which the host awaits.
Caller == Explicit \cup {"auto"}

VARIABLES
  clock,        \* the number of file system changes so far, the time of mtimes
  disk,         \* mtime of each file, or Missing
  changed,      \* the files that differ from HEAD
  writing,      \* the files an edit tool has written, its end event not sent yet
  agent,        \* idle, running, or ending (agent_end awaits its listeners)
  scopeActive,  \* runScope.active
  edits,        \* runScope.edits
  goalActive,   \* state.goal.status is active, repairing or verifying
  tracking,     \* ownership.activeGoal: a goal has begun in this session
  own,          \* what ownership knows of each file: none, owned, drifted (owned,
                \* but no longer as the tool left it) or protected
  call,         \* the callers' suspended calls
  inFlight,
  lastFiles,    \* lastChangeFiles
  result,       \* snapshot.currentResult
  status,       \* snapshot.status
  disposed

fsVars == <<clock, disk, changed>>
agentVars == <<writing, agent, scopeActive, edits>>
goalVars == <<goalActive, tracking, own>>
runVars == <<inFlight, lastFiles, status>>
vars == <<fsVars, agentVars, goalVars, runVars, call, result, disposed>>

Missing == -1
NoResult == [verdict |-> "none"]
PCs == {"idle", "seam", "classify", "runtime", "verifier", "fenceSeam",
        "fenceClassify"}
InRun == {"runtime", "verifier", "fenceSeam", "fenceClassify"}

IdleCall == [pc |-> "idle", force |-> FALSE, files |-> {}, rev |-> [f \in {} |-> 0],
             verdict |-> "none", completedAt |-> 0]

\* computeRevisionId: a hash over the paths and their mtimes ("missing" too).  It hashes
\* git's status and line counts as well, which here change with the file only.
Revision(files) == [f \in files |-> disk[f]]

\* The current result answers for the revision: same revisionId, not stale.
Current(res, rev) == res # NoResult /\ res.rev = rev /\ ~res.stale

Fresh == result # NoResult /\ ~result.stale

\* invalidateResult
Invalidated(res) == IF res = NoResult THEN res ELSE [res EXCEPT !.stale = TRUE]

Init ==
  /\ clock = 0
  /\ disk = [f \in File |-> 0] /\ changed = {}
  /\ writing = {} /\ agent = "idle" /\ scopeActive = FALSE /\ edits = {}
  /\ goalActive = FALSE /\ tracking = FALSE /\ own = [f \in File |-> "none"]
  /\ call = [c \in Caller |-> IdleCall]
  /\ inFlight = FALSE /\ lastFiles = {} /\ status = "idle"
  /\ result = NoResult
  /\ disposed = FALSE

-----------------------------------------------------------------------------
(***************************************************************************)
(* The workspace, the agent and the goal around the manager                *)
(***************************************************************************)

\* One change of one file: its mtime is the new time, or the file is gone.
Touch(f, mtime) ==
  /\ clock < MaxClock
  /\ clock' = clock + 1
  /\ disk' = [disk EXCEPT ![f] = mtime]

\* A write makes the fingerprint that was taken of an owned file differ.
Drifted(f) == [own EXCEPT ![f] = IF @ = "owned" THEN "drifted" ELSE @]

\* An edit or write tool of the running agent writes a file.
ToolWrites(f) ==
  /\ agent = "running"
  /\ Touch(f, clock + 1)
  /\ changed' = changed \cup {f}
  /\ writing' = writing \cup {f}
  /\ own' = Drifted(f)
  /\ UNCHANGED <<agent, scopeActive, edits, goalActive, tracking, runVars, call,
                 result, disposed>>

\* The user's editor, a shell command or a child process writes a file, deletes
\* it, or takes it back to HEAD.
ExternalChange(f, kind) ==
  /\ kind = "revert" => f \in changed
  /\ kind = "delete" => disk[f] # Missing
  /\ Touch(f, IF kind = "delete" THEN Missing ELSE clock + 1)
  /\ changed' = IF kind = "revert" THEN changed \ {f} ELSE changed \cup {f}
  /\ own' = Drifted(f)
  /\ UNCHANGED <<agentVars, goalActive, tracking, runVars, call, result, disposed>>

\* Mutant: a new agent run does not open the scope again.
TurnStartScopeless ==
  /\ agent = "idle"
  /\ agent' = "running"
  /\ UNCHANGED <<fsVars, writing, scopeActive, edits, goalVars, runVars, call,
                 result, disposed>>

\* The first turn_start of an agent run opens a fresh scope, unless the last one
\* was left open.
TurnStart ==
  /\ agent = "idle"
  /\ agent' = "running"
  /\ scopeActive' = (scopeActive \/ ~disposed)
  /\ edits' = IF disposed \/ scopeActive THEN edits ELSE {}
  /\ UNCHANGED <<fsVars, writing, goalVars, runVars, call, result, disposed>>

\* tool_execution_end of an edit that succeeded: the edit is recorded, the prior
\* result invalidated, and the file owned with a new fingerprint.
ToolEditEnds(f) ==
  /\ f \in writing
  /\ writing' = writing \ {f}
  /\ own' = IF tracking /\ own[f] # "protected" THEN [own EXCEPT ![f] = "owned"] ELSE own
  /\ IF disposed \/ ~scopeActive
     THEN UNCHANGED <<edits, result>>
     ELSE edits' = edits \cup {f} /\ result' = Invalidated(result)
  /\ UNCHANGED <<fsVars, agent, scopeActive, goalActive, tracking, runVars, call,
                 disposed>>

\* agent_end when nothing is evaluated: disposed, verification off, plan mode, or
\* a run in flight.  The scope stays open.
AgentEndsUnverified ==
  /\ agent = "running" /\ writing = {}
  /\ agent' = "idle"
  /\ UNCHANGED <<fsVars, writing, scopeActive, edits, goalVars, runVars, call,
                 result, disposed>>

\* agent_end: onAgentEnd up to its first await.  The host waits for it.
AgentEnds ==
  /\ agent = "running" /\ writing = {}
  /\ ~disposed /\ ~inFlight
  /\ agent' = "ending"
  /\ scopeActive' = FALSE
  /\ call' = [call EXCEPT !["auto"].pc = "seam"]
  /\ UNCHANGED <<fsVars, writing, edits, goalVars, runVars, result, disposed>>

\* A goal is created or resumed: beginGoal forgets the ownership of an earlier
\* one and protects the changes that were there before.  (captureBaseline reads them in
\* the background; here the goal's first mutation comes after it.)
GoalBegins ==
  /\ ~goalActive /\ goalActive' = TRUE
  /\ tracking' = TRUE
  /\ own' = [f \in File |-> IF f \in changed THEN "protected" ELSE "none"]
  /\ UNCHANGED <<fsVars, agentVars, runVars, call, result, disposed>>

\* A question is answered: the waiting goal goes on with the ownership it had.
GoalGoesOn ==
  /\ tracking /\ ~goalActive /\ goalActive' = TRUE
  /\ UNCHANGED <<fsVars, agentVars, tracking, own, runVars, call, result, disposed>>

\* The goal stops, waits, completes or is cleared; ownership goes on tracking.
GoalEnds ==
  /\ goalActive /\ goalActive' = FALSE
  /\ UNCHANGED <<fsVars, agentVars, tracking, own, runVars, call, result, disposed>>

-----------------------------------------------------------------------------
(***************************************************************************)
(* The manager                                                             *)
(***************************************************************************)
otherVars == <<fsVars, goalActive, tracking, writing, scopeActive, edits, disposed>>
envVars == <<otherVars, own>>

\* verify() up to its first await.  Refused when disposed, held when a run is in
\* flight: both answer at once and change nothing.
Verify(c, force) ==
  /\ call[c].pc = "idle"
  /\ ~disposed /\ ~inFlight
  /\ call' = [call EXCEPT ![c].pc = "seam", ![c].force = force]
  /\ UNCHANGED <<envVars, agent, runVars, result>>

\* changeSeam answers with the changed files git reports, or with none when git
\* fails; the run's own edits are merged in.
SeamReturns(c) ==
  /\ call[c].pc \in {"seam", "fenceSeam"}
  /\ \E seam \in {changed, {}} :
       call' = [call EXCEPT
                  ![c].pc = IF @ = "seam" THEN "classify" ELSE "fenceClassify",
                  ![c].files = seam \cup edits]
  /\ UNCHANGED <<envVars, agent, runVars, result>>

\* classify answers: under an active goal only the goal's own files count.
Classified(c) ==
  IF goalActive THEN {f \in call[c].files : own[f] = "owned"} ELSE call[c].files

\* classify protects for good every file of the change set that has drifted.
Protected(c) ==
  [f \in File |-> IF f \in call[c].files /\ own[f] = "drifted" THEN "protected" ELSE own[f]]

\* The call of c returns to its caller; agent_end settles with the automatic one.
Return(c) ==
  /\ call' = [call EXCEPT ![c] = IdleCall]
  /\ agent' = IF c = "auto" THEN "idle" ELSE agent

\* Mutant: the in-flight test of verify() is taken for good enough.
BeginUnchecked(c, rev) ==
  /\ inFlight' = TRUE
  /\ lastFiles' = DOMAIN rev
  /\ status' = "running"
  /\ call' = [call EXCEPT ![c].pc = "runtime", ![c].rev = rev]
  /\ UNCHANGED agent

\* runVerification up to its first await: held if another call got there first.
Begin(c, rev) ==
  \/ /\ inFlight
     /\ Return(c)
     /\ UNCHANGED runVars
  \/ /\ ~inFlight
     /\ inFlight' = TRUE
     /\ lastFiles' = DOMAIN rev
     /\ status' = "running"
     /\ call' = [call EXCEPT ![c].pc = "runtime", ![c].rev = rev]
     /\ UNCHANGED agent

\* Mutant: an unchanged revision is verified again.
EvaluateExplicitUndeduped(c) ==
  /\ call[c].pc = "classify"
  /\ LET files == Classified(c)
     IN \/ files = {} /\ Return(c) /\ UNCHANGED runVars
        \/ files # {} /\ Begin(c, Revision(files))
  /\ own' = Protected(c)
  /\ UNCHANGED <<otherVars, result>>

\* verify() resumes: nothing to verify, an unchanged revision whose result is
\* reused, or a run.
EvaluateExplicit(c) ==
  /\ call[c].pc = "classify"
  /\ LET files == Classified(c)
         rev == Revision(files)
     IN \/ /\ files = {} \/ (~call[c].force /\ Current(result, rev))
           /\ Return(c)
           /\ UNCHANGED runVars
        \/ /\ files # {}
           /\ call[c].force \/ ~Current(result, rev)
           /\ Begin(c, rev)
  /\ own' = Protected(c)
  /\ UNCHANGED <<otherVars, result>>

\* changeSetChanged compares with the files of the last run that began.
Refreshed(files) == IF files # lastFiles THEN Invalidated(result) ELSE result

\* onAgentEnd resumes: a moved change set stales the result, an unchanged
\* revision is not verified again, and the decision (settings, work done,
\* triviality) may be not to run.
EvaluateAuto ==
  /\ call["auto"].pc = "classify"
  /\ LET files == Classified("auto")
         rev == Revision(files)
     IN /\ result' = Refreshed(files)
        /\ \/ Return("auto") /\ UNCHANGED runVars
           \/ ~Current(result', rev) /\ Begin("auto", rev)
  /\ own' = Protected("auto")
  /\ UNCHANGED otherVars

\* Mutant: a failed run leaves inFlight set.
FailLeaking(c) ==
  /\ status' = "inconclusive"
  /\ Return(c)
  /\ UNCHANGED <<envVars, inFlight, lastFiles, result>>

\* failRun and the end of the run: the earlier result is kept.
Fail(c) ==
  /\ inFlight' = FALSE
  /\ status' = "inconclusive"
  /\ Return(c)
  /\ UNCHANGED <<envVars, lastFiles, result>>

\* options.runtime answers with a model, and the verifier is launched.
RuntimeResolved(c) ==
  /\ call[c].pc = "runtime"
  /\ call' = [call EXCEPT ![c].pc = "verifier"]
  /\ UNCHANGED <<envVars, agent, runVars, result>>

\* No model, the verifier's own failure, its deadline, or its abort.
RunFails(c) ==
  /\ call[c].pc \in {"runtime", "verifier"}
  /\ Fail(c)

\* The verifier's verdict: the result is dated now, and the fence begins.
VerifierReturns(c, verdict) ==
  /\ call[c].pc = "verifier"
  /\ call' = [call EXCEPT ![c].pc = "fenceSeam", ![c].verdict = verdict,
                          ![c].completedAt = clock]
  /\ UNCHANGED <<envVars, agent, runVars, result>>

\* Mutant: no completion fence.
PublishUnfenced(c) ==
  /\ call[c].pc = "fenceClassify"
  /\ result' = [rev |-> call[c].rev, verdict |-> call[c].verdict,
                completedAt |-> call[c].completedAt, stale |-> FALSE]
  /\ status' = call[c].verdict
  /\ inFlight' = FALSE
  /\ Return(c)
  /\ own' = Protected(c)
  /\ UNCHANGED <<otherVars, lastFiles>>

\* The completion fence: the result is published, stale if the revision moved.
Publish(c) ==
  /\ call[c].pc = "fenceClassify"
  /\ result' = [rev |-> call[c].rev, verdict |-> call[c].verdict,
                completedAt |-> call[c].completedAt,
                stale |-> Revision(Classified(c)) # call[c].rev]
  /\ status' = call[c].verdict
  /\ inFlight' = FALSE
  /\ Return(c)
  /\ own' = Protected(c)
  /\ UNCHANGED <<otherVars, lastFiles>>

\* status(): the mtime drift check over the last run's files.  A change within
\* the tolerance goes unnoticed, so the step may also not be taken.
RefreshStaleness ==
  /\ Fresh
  /\ \E f \in lastFiles : disk[f] = Missing \/ disk[f] > result.completedAt
  /\ result' = Invalidated(result)
  /\ UNCHANGED <<envVars, agent, runVars, call>>

Dispose ==
  /\ ~disposed /\ disposed' = TRUE
  /\ UNCHANGED <<fsVars, agentVars, goalVars, runVars, call, result>>

CallStep(c) ==
  \/ SeamReturns(c)
  \/ RuntimeResolved(c) \/ RunFails(c)
  \/ \E v \in Verdict : VerifierReturns(c, v)
  \/ Publish(c)

Next ==
  \/ \E f \in File : ToolWrites(f) \/ ToolEditEnds(f)
  \/ \E f \in File, kind \in {"write", "delete", "revert"} : ExternalChange(f, kind)
  \/ TurnStart \/ AgentEndsUnverified \/ AgentEnds
  \/ GoalBegins \/ GoalGoesOn \/ GoalEnds
  \/ \E c \in Explicit : EvaluateExplicit(c) \/ \E force \in BOOLEAN : Verify(c, force)
  \/ EvaluateAuto
  \/ \E c \in Caller : CallStep(c)
  \/ RefreshStaleness \/ Dispose

Spec == Init /\ [][Next]_vars

\* Git and the classification settle, and the verifier has a deadline
\* (createAiraRunDeadline); the runtime is assumed to settle.
Fairness ==
  /\ \A c \in Caller : WF_vars(CallStep(c))
  /\ \A c \in Explicit : WF_vars(EvaluateExplicit(c))
  /\ WF_vars(EvaluateAuto)

FairSpec == Spec /\ Fairness

-----------------------------------------------------------------------------
(***************************************************************************)
(* Properties                                                              *)
(***************************************************************************)

\* The type invariant of the manager and its surroundings.
VTypeOK ==
  /\ clock \in 0..MaxClock
  /\ disk \in [File -> Missing..MaxClock]
  /\ changed \subseteq File /\ writing \subseteq File /\ edits \subseteq File
  /\ own \in [File -> {"none", "owned", "drifted", "protected"}] /\ lastFiles \subseteq File
  /\ agent \in {"idle", "running", "ending"}
  /\ scopeActive \in BOOLEAN /\ goalActive \in BOOLEAN /\ tracking \in BOOLEAN
  /\ inFlight \in BOOLEAN /\ disposed \in BOOLEAN
  /\ status \in {"idle", "running", "inconclusive"} \cup Verdict
  /\ \A c \in Caller : call[c].pc \in PCs /\ call[c].files \subseteq File
  /\ result = NoResult \/ (result.verdict \in Verdict /\ result.stale \in BOOLEAN)

\* One verifier at a time: inFlight is tested before two awaits and set after
\* them, yet at most one call is past runVerification's own test, and the flag
\* and the published status say exactly whether there is one.
SingleFlight ==
  LET running == {c \in Caller : call[c].pc \in InRun}
  IN /\ Cardinality(running) <= 1
     /\ inFlight <=> running # {}
     /\ status = "running" <=> inFlight

\* "An unchanged revision with a current result is never reverified" unless
\* forced: a run that begins has no fresh result for its revision, whatever the
\* other callers published while it was collecting.
NoDuplicateVerification ==
  [][~inFlight /\ inFlight' =>
       \E c \in Caller : /\ call'[c].pc = "runtime"
                         /\ call[c].force \/ ~Current(result', call'[c].rev)]_vars

\* A result that is published fresh describes the verified files as they are on
\* disk at that moment, however long the verifier took.
PublishedFreshIsAccurate ==
  [][inFlight /\ ~inFlight' /\ result' # result /\ ~result'.stale =>
       \A f \in DOMAIN result'.rev : result'.rev[f] = disk[f]]_vars

\* "A new relevant edit invalidates the prior result immediately": when the end
\* of a tool's edit reaches the manager, no fresh result is left, in whichever
\* agent run since the start the edit is made.
ToolEditStales ==
  [][(\E f \in writing : ToolEditEnds(f)) /\ ~disposed =>
       result' = NoResult \/ result'.stale]_vars

\* Every run in flight ends, so verification is never held for ever.
FlightEnds == inFlight ~> ~inFlight

\* "at every agent_end, if the merged change set differs from the verified one,
\* the old result is staled".
MovedSetIsStaled ==
  [][EvaluateAuto /\ result # NoResult /\ Classified("auto") # DOMAIN result.rev
       => result'.stale]_vars
=============================================================================
