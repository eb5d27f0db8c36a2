------------------------- MODULE AiraOrchestration -------------------------
(***************************************************************************)
(* The orchestration manager over one batch it has dispatched:             *)
(* packages/coding-agent/src/aira/orchestration/manager.ts.  The manager   *)
(* keeps a run record per task, is called back by the scheduler            *)
(* (onStarted, onSkipped, execute), and is entered at any time by cancel   *)
(* and dispose.  AiraScheduler is the scheduler below; each action here is *)
(* a scheduler step together with the callback it runs, or a step of       *)
(* executeRun between two of its awaits.                                   *)
(*                                                                         *)
(* stage[t] is the await executeRun(t) is suspended in:                    *)
(*   none       not called                                                 *)
(*   resolving  options.resolveRuntime                                     *)
(*   running    the child runner                                           *)
(*   succeeded  returned "completed", the scheduler not resumed yet        *)
(*   unmet      returned "failed", the scheduler not resumed yet           *)
(*   over       the scheduler has taken the result                         *)
(***************************************************************************)
EXTENDS AiraScheduler

VARIABLES
  status,       \* run.status of the record of each task
  stage,        \* where executeRun is
  runAborts,    \* the tasks with an entry in the runAborts map
  runAborted,   \* the tasks whose own AbortController was aborted
  activeBatch,  \* the batch's controller is in activeBatches
  disposed,
  snapshot      \* the last published status and counts

mvars == <<status, stage, runAborts, runAborted, activeBatch, disposed, snapshot>>
ovars == <<vars, mvars>>

Statuses == {"pending", "running", "completed", "failed", "timed-out",
             "cancelled", "rejected"}
Unsettled == {"pending", "running"}
Stages == {"none", "resolving", "running", "succeeded", "unmet", "over"}

\* AbortSignal.any([batchSignal, abort.signal])
SignalAborted(t) == aborted \/ t \in runAborted

\* publish(): the snapshot the UI and the goal manager read.
Published(st, active) ==
  [status  |-> IF active \/ \E t \in Task : st[t] \in Unsettled THEN "active" ELSE "idle",
   running |-> Cardinality({t \in Task : st[t] = "running"}),
   queued  |-> Cardinality({t \in Task : st[t] = "pending"})]

Publish == snapshot' = Published(status', activeBatch')

-----------------------------------------------------------------------------
\* schedule() up to the call of runAiraScheduler: the records are created
\* pending and published, and the batch's controller is active.
OInit ==
  /\ Init
  /\ status = [t \in Task |-> "pending"]
  /\ stage = [t \in Task |-> "none"]
  /\ runAborts = {} /\ runAborted = {}
  /\ activeBatch = TRUE
  /\ disposed = FALSE
  /\ snapshot = Published(status, activeBatch)

\* runAiraScheduler is called by schedule() itself, so nothing can abort the
\* batch before its tasks have started waiting.
Dispatch ==
  /\ Start
  /\ UNCHANGED mvars

\* Mutant: a skipped task leaves its record pending.
RejectedNever(t) == status

\* onSkipped: only a record that is still pending becomes rejected.
Rejected(t) ==
  IF status[t] = "pending" THEN [status EXCEPT ![t] = "rejected"] ELSE status

RejectDependent(t) ==
  /\ SkipFailedDependency(t)
  /\ status' = Rejected(t)
  /\ UNCHANGED <<stage, runAborts, runAborted, activeBatch, disposed>>
  /\ Publish

RejectAborted(t) ==
  /\ SkipAborted(t)
  /\ status' = Rejected(t)
  /\ UNCHANGED <<stage, runAborts, runAborted, activeBatch, disposed>>
  /\ Publish

QueueForSlot(t) == Acquire(t) /\ UNCHANGED mvars

\* onStarted and the head of executeRun up to its first await: the run's own
\* controller is registered and the record becomes running.
StartRun(t) ==
  /\ Launch(t)
  /\ status' = [status EXCEPT ![t] = "running"]
  /\ stage' = [stage EXCEPT ![t] = "resolving"]
  /\ runAborts' = runAborts \cup {t}
  /\ UNCHANGED <<runAborted, activeBatch, disposed>>
  /\ Publish

\* settleRun, the return of executeRun and its finally block.
Settle(t, st) ==
  /\ status' = [status EXCEPT ![t] = st]
  /\ stage' = [stage EXCEPT ![t] = IF st = "completed" THEN "succeeded" ELSE "unmet"]
  /\ runAborts' = runAborts \ {t}
  /\ UNCHANGED <<vars, runAborted, activeBatch, disposed>>
  /\ Publish

\* resolveRuntime found no usable model, or threw.
ModelUnavailable(t) ==
  /\ stage[t] = "resolving"
  /\ Settle(t, IF SignalAborted(t) THEN "cancelled" ELSE "failed")

\* The child runner is called with the tool set, the deadline and the signal.
ModelResolved(t) ==
  /\ stage[t] = "resolving"
  /\ stage' = [stage EXCEPT ![t] = "running"]
  /\ UNCHANGED <<vars, status, runAborts, runAborted, activeBatch, disposed>>
  /\ Publish

\* What the runner may report: a result that is completed or not, its deadline, a
\* cancellation, any other failure or a throw.  A cancellation needs no abort of
\* ours: the provider may end the child's stream as aborted, and a driver error
\* that says "cancelled" is taken for one.
Outcomes == {"completed", "unmet", "timeout", "cancelled", "failure"}

\* Mutant: the runner's own classification stands whatever the signal says.
StatusOfRunnerFirst(t, outcome) ==
  CASE outcome = "timeout" -> "timed-out"
    [] outcome \in {"completed", "cancelled"} -> outcome
    [] outcome \in {"unmet", "failure"} -> "failed"

\* failureOf and failRun: an abort overrides the runner's own classification,
\* but not a result the child returned before it noticed.
StatusOf(t, outcome) ==
  CASE outcome = "completed" -> "completed"
    [] outcome = "unmet" -> "failed"
    [] outcome = "cancelled" \/ (outcome \in {"timeout", "failure"} /\ SignalAborted(t)) -> "cancelled"
    [] outcome = "timeout" /\ ~SignalAborted(t) -> "timed-out"
    [] outcome = "failure" /\ ~SignalAborted(t) -> "failed"

RunnerReturns(t, outcome) ==
  /\ stage[t] = "running"
  /\ Settle(t, StatusOf(t, outcome))

\* Mutant: the scheduler takes every settled run for a completed one.
ResumeAsCompleted(t) ==
  /\ stage[t] \in {"succeeded", "unmet"}
  /\ Finish(t, TRUE)
  /\ stage' = [stage EXCEPT ![t] = "over"]
  /\ UNCHANGED <<status, runAborts, runAborted, activeBatch, disposed, snapshot>>

\* The scheduler resumes after `await options.execute(run)`.
Resume(t) ==
  /\ stage[t] \in {"succeeded", "unmet"}
  /\ Finish(t, stage[t] = "succeeded")
  /\ stage' = [stage EXCEPT ![t] = "over"]
  /\ UNCHANGED <<status, runAborts, runAborted, activeBatch, disposed, snapshot>>

\* schedule() has returned to its caller: cancel and dispose can be called.
Dispatched == \A t \in Task : phase[t] # "idle"

\* Mutant: cancel(runId) relabels a run that has already failed.
CancelRunRelabelling(t) ==
  /\ Dispatched
  /\ runAborted' = runAborted \cup {t}
  /\ status' = [status EXCEPT ![t] = IF @ \in {"failed", "timed-out"} THEN "cancelled" ELSE @]
  /\ UNCHANGED <<vars, stage, runAborts, activeBatch, disposed>>
  /\ Publish

\* cancel(runId): aborts the run's controller if there is one.
CancelRun(t) ==
  /\ Dispatched
  /\ runAborted' = IF t \in runAborts THEN runAborted \cup {t} ELSE runAborted
  /\ UNCHANGED <<vars, status, stage, runAborts, activeBatch, disposed, snapshot>>

\* The batch's signal, when its controller is still in activeBatches.
AbortBatch ==
  /\ aborted' = (aborted \/ activeBatch)
  /\ UNCHANGED <<deps, phase, awaiting, completed, failed, settled, runningCount,
                 waiters, started>>

\* cancel() without an id: every registered run, then every active batch.
CancelAll ==
  /\ Dispatched
  /\ runAborted' = runAborted \cup runAborts
  /\ AbortBatch
  /\ UNCHANGED <<status, stage, runAborts, activeBatch, disposed, snapshot>>

\* batch.finally / batch.then: the batch leaves activeBatches, epochEnd publishes.
BatchDone ==
  /\ Returned /\ activeBatch
  /\ activeBatch' = FALSE
  /\ UNCHANGED <<vars, status, stage, runAborts, runAborted, disposed>>
  /\ Publish

\* dispose(): abort everything, forget the controllers, publish once more.
Dispose ==
  /\ Dispatched /\ ~disposed
  /\ disposed' = TRUE
  /\ runAborted' = runAborted \cup runAborts
  /\ AbortBatch
  /\ activeBatch' = FALSE
  /\ runAborts' = {}
  /\ UNCHANGED <<status, stage>>
  /\ Publish

Stopped == Returned /\ disposed /\ UNCHANGED ovars

OStep(t) ==
  \/ RejectDependent(t) \/ RejectAborted(t)
  \/ QueueForSlot(t)
  \/ StartRun(t)
  \/ ModelUnavailable(t) \/ ModelResolved(t)
  \/ \E outcome \in Outcomes : RunnerReturns(t, outcome)
  \/ Resume(t)

ONext ==
  \/ Dispatch \/ CancelAll \/ BatchDone \/ Dispose \/ Stopped
  \/ \E t \in Task : OStep(t) \/ CancelRun(t)

OSpec == OInit /\ [][ONext]_ovars

\* The event loop runs every queued continuation.  The runner settles because
\* createAiraRunDeadline races it against timeoutMs; that resolveRuntime settles
\* is assumed (it has no deadline of its own).
OFairness ==
  /\ WF_ovars(Dispatch) /\ WF_ovars(BatchDone)
  /\ \A t \in Task : WF_ovars(OStep(t))

OFairSpec == OSpec /\ OFairness

-----------------------------------------------------------------------------
(***************************************************************************)
(* Properties                                                              *)
(***************************************************************************)

\* The type invariant of the manager's state.
OTypeOK ==
  /\ TypeOK
  /\ status \in [Task -> Statuses]
  /\ stage \in [Task -> Stages]
  /\ runAborts \subseteq Task /\ runAborted \subseteq Task
  /\ activeBatch \in BOOLEAN /\ disposed \in BOOLEAN
  /\ snapshot.status \in {"active", "idle"}

\* The manager's records and the scheduler's sets never disagree once a task is
\* over: completed there is completed here, and what failed there has a settled
\* status that says why.  The two are written in different continuations.
RecordsMatchScheduler ==
  \A t \in settled :
    /\ status[t] \notin Unsettled
    /\ t \in completed <=> status[t] = "completed"
    /\ status[t] = "rejected" <=> t \notin started

\* What the user did is what the record says.  A run the user cancelled while it was
\* executing is never reported as timed out, though its deadline may fire before the
\* abort is noticed, nor as rejected.  A rejected run was never launched, and the
\* batch was aborted or an upstream task failed.
TruthfulOutcome ==
  \A t \in Task :
    /\ t \in runAborted => status[t] \notin {"timed-out", "rejected"}
    /\ status[t] = "rejected" => t \notin started /\ (aborted \/ deps[t] \cap failed # {})

\* Until disposal every run that is executing can be aborted, and no controller
\* of a settled run is left behind.
ControllersMatchRuns ==
  ~disposed => runAborts = {t \in Task : stage[t] \in {"resolving", "running"}}

\* The published snapshot is the truth at every moment: each handler that moves
\* a record or the batch publishes after its last change.
SnapshotFresh == snapshot = Published(status, activeBatch)

\* Settled records are final: no late runner outcome, skip or cancellation
\* rewrites the status of a run that has settled.
SettledIsFinal ==
  [][\A t \in Task : status[t] \notin Unsettled => status'[t] = status[t]]_ovars

\* Cancelling everything, or disposing the session, drains the batch: every run
\* settles, for good.
CancelDrains == aborted ~> [](\A t \in Task : status[t] \notin Unsettled)

\* The manager drives the scheduler only through its interface: every step of a
\* callback, of executeRun, of cancel and of dispose is a scheduler step or
\* leaves the scheduler alone, so what holds of the scheduler holds here.
ImplementsScheduler == Spec
=============================================================================
