--------------------------- MODULE AiraScheduler ---------------------------
(***************************************************************************)
(* The batch scheduler of Aira's native orchestration:                     *)
(* packages/coding-agent/src/aira/orchestration/scheduler.ts,              *)
(* runAiraScheduler.  One instance of this module is one batch that        *)
(* prepareAiraSchedule has accepted.                                       *)
(*                                                                         *)
(* Every task of the batch is one call of runOne.  JavaScript runs one     *)
(* continuation at a time, so an action below is the whole synchronous     *)
(* segment between two awaits of one runOne, and the interleaving is that  *)
(* of the continuations, of the executor's settlements and of the abort    *)
(* signal.  phase[t] says where runOne(t) is:                              *)
(*   idle       not called yet                                             *)
(*   waitDeps   awaiting waitForDependencies                               *)
(*   depsOk     that promise resolved to true, continuation queued         *)
(*   depsFailed that promise resolved to false, continuation queued        *)
(*   waitSlot   awaiting acquire, its callback is in waiters               *)
(*   granted    acquire resolved, continuation queued                      *)
(*   executing  awaiting options.execute                                   *)
(*   done       returned                                                   *)
(***************************************************************************)
EXTENDS Integers, Sequences, FiniteSets

CONSTANTS Task,           \* the task ids of the batch
          MaxConcurrency  \* options.maxConcurrency (settings.maxParallel)

ASSUME TaskAssumption == IsFiniteSet(Task) /\ Task # {}
ASSUME MaxAssumption == MaxConcurrency \in Nat \ {0}

VARIABLES
  deps,          \* run.dependencies, fixed for the batch
  phase,         \* the control point of runOne(t)
  awaiting,      \* the dependencies whose listener runOne(t) still waits for
  completed, failed, settled,
  runningCount,  \* the semaphore's counter
  waiters,       \* the semaphore's queue
  aborted,       \* options.signal.aborted
  started        \* the tasks onStarted was called for

vars == <<deps, phase, awaiting, completed, failed, settled, runningCount,
          waiters, aborted, started>>

Phases == {"idle", "waitDeps", "depsOk", "depsFailed", "waitSlot", "granted",
           "executing", "done"}

\* A set of tasks each of which depends on another member: a dependency cycle.
Cyclic(d) == \E S \in (SUBSET Task) \ {{}} : \A t \in S : d[t] \cap S # {}

\* The batches prepareAiraSchedule lets through: dependencies are ids of the
\* batch, none on itself, and no cycle.
Accepted == {d \in [Task -> SUBSET Task] : ~Cyclic(d)}

\* Math.max(1, Math.min(options.maxConcurrency, tasks.length))
maxConcurrency ==
  IF MaxConcurrency < Cardinality(Task) THEN MaxConcurrency
                                        ELSE Cardinality(Task)

\* The tasks between a granted acquire() and their release().
Holders == {t \in Task : phase[t] \in {"granted", "executing"}}

-----------------------------------------------------------------------------
Init ==
  /\ deps \in Accepted
  /\ phase = [t \in Task |-> "idle"]
  /\ awaiting = [t \in Task |-> {}]
  /\ completed = {} /\ failed = {} /\ settled = {}
  /\ runningCount = 0
  /\ waiters = <<>>
  /\ aborted = FALSE
  /\ started = {}

\* Mutant: the listener resolves true without looking at the failures.
NotifiedPhaseIgnoringFailures(ph, u, f) ==
  [t \in Task |->
     IF phase[t] = "waitDeps" /\ awaiting[t] = {u} THEN "depsOk" ELSE ph[t]]

\* notify(u) as it acts on runOne(t): the listener of t drops u, and the last
\* one resolves waitForDependencies with whether a dependency failed.  ph is
\* the phase function the caller of notify has reached, f the failed set.
NotifiedPhase(ph, u, f) ==
  [t \in Task |->
     IF phase[t] = "waitDeps" /\ awaiting[t] = {u}
     THEN IF deps[t] \cap f = {} THEN "depsOk" ELSE "depsFailed"
     ELSE ph[t]]

NotifiedAwaiting(u) == [t \in Task |-> awaiting[t] \ {u}]

\* tasks.map(runOne): every runOne runs to its first await in one go.  With
\* the signal already aborted each returns at once; otherwise each registers
\* its listeners, and the ones without dependencies resolve immediately.
Start ==
  /\ \A t \in Task : phase[t] = "idle"
  /\ IF aborted
     THEN /\ phase' = [t \in Task |-> "done"]
          /\ failed' = Task /\ settled' = Task
          /\ UNCHANGED awaiting
     ELSE /\ phase' = [t \in Task |-> IF deps[t] = {} THEN "depsOk" ELSE "waitDeps"]
          /\ awaiting' = deps
          /\ UNCHANGED <<failed, settled>>
  /\ UNCHANGED <<deps, completed, runningCount, waiters, aborted, started>>

\* Mutant: the skipped task is recorded among the completed ones.
SkipFailedAsCompleted(t) ==
  /\ phase[t] = "depsFailed"
  /\ completed' = completed \cup {t}
  /\ settled' = settled \cup {t}
  /\ phase' = NotifiedPhase([phase EXCEPT ![t] = "done"], t, failed)
  /\ awaiting' = NotifiedAwaiting(t)
  /\ UNCHANGED <<deps, failed, runningCount, waiters, aborted, started>>

\* depsOk is false: a failed dependency settles the task without running it.
SkipFailedDependency(t) ==
  /\ phase[t] = "depsFailed"
  /\ failed' = failed \cup {t}
  /\ settled' = settled \cup {t}
  /\ phase' = NotifiedPhase([phase EXCEPT ![t] = "done"], t, failed \cup {t})
  /\ awaiting' = NotifiedAwaiting(t)
  /\ UNCHANGED <<deps, completed, runningCount, waiters, aborted, started>>

\* await acquire(): take a free slot, or queue behind the current holders.
Acquire(t) ==
  /\ phase[t] = "depsOk"
  /\ \/ /\ runningCount < maxConcurrency
        /\ runningCount' = runningCount + 1
        /\ phase' = [phase EXCEPT ![t] = "granted"]
        /\ UNCHANGED waiters
     \/ /\ runningCount >= maxConcurrency
        /\ waiters' = Append(waiters, t)
        /\ phase' = [phase EXCEPT ![t] = "waitSlot"]
        /\ UNCHANGED runningCount
  /\ UNCHANGED <<deps, awaiting, completed, failed, settled, aborted, started>>

\* The finally block: `runningCount -= 1` and then release(), which decrements
\* once more and hands the slot to the first waiter (whose callback increments).
ReleasedCount == IF waiters = <<>> THEN runningCount - 2 ELSE runningCount - 1

ReleasedWaiters == IF waiters = <<>> THEN <<>> ELSE Tail(waiters)

\* Mutant: release() takes the waiter off the queue and never calls it.
ReleasedPhaseUncalled(ph) == ph

ReleasedPhase(ph) ==
  IF waiters = <<>> THEN ph ELSE [ph EXCEPT ![Head(waiters)] = "granted"]

\* Microtasks are first in, first out: the continuations of the tasks without
\* dependencies were queued by Start, ahead of every continuation of acquire.
FirstRoundOver == \A t \in Task : deps[t] = {} => phase[t] # "depsOk"

\* The batch was aborted between the acquire and its continuation: the task
\* settles as failed, notifies, and the finally block releases the slot.
SkipAborted(t) ==
  /\ phase[t] = "granted"
  /\ FirstRoundOver
  /\ aborted
  /\ failed' = failed \cup {t}
  /\ settled' = settled \cup {t}
  /\ phase' = NotifiedPhase(ReleasedPhase([phase EXCEPT ![t] = "done"]), t, failed \cup {t})
  /\ awaiting' = NotifiedAwaiting(t)
  /\ runningCount' = ReleasedCount
  /\ waiters' = ReleasedWaiters
  /\ UNCHANGED <<deps, completed, aborted, started>>

\* Mutant: the signal is not checked again after acquire.
LaunchUnchecked(t) ==
  /\ phase[t] = "granted"
  /\ FirstRoundOver
  /\ phase' = [phase EXCEPT ![t] = "executing"]
  /\ started' = started \cup {t}
  /\ UNCHANGED <<deps, awaiting, completed, failed, settled, runningCount,
                 waiters, aborted>>

\* onStarted, then options.execute is called.
Launch(t) ==
  /\ phase[t] = "granted"
  /\ FirstRoundOver
  /\ ~aborted
  /\ phase' = [phase EXCEPT ![t] = "executing"]
  /\ started' = started \cup {t}
  /\ UNCHANGED <<deps, awaiting, completed, failed, settled, runningCount,
                 waiters, aborted>>

\* Mutant: a failed run is executed again instead of settling.
FinishRetried(t, ok) ==
  /\ phase[t] = "executing"
  /\ phase' = IF ok
              THEN NotifiedPhase(ReleasedPhase([phase EXCEPT ![t] = "done"]), t, failed)
              ELSE [phase EXCEPT ![t] = "granted"]
  /\ completed' = IF ok THEN completed \cup {t} ELSE completed
  /\ settled' = IF ok THEN settled \cup {t} ELSE settled
  /\ awaiting' = IF ok THEN NotifiedAwaiting(t) ELSE awaiting
  /\ runningCount' = IF ok THEN ReleasedCount ELSE runningCount
  /\ waiters' = IF ok THEN ReleasedWaiters ELSE waiters
  /\ UNCHANGED <<deps, failed, aborted, started>>

\* options.execute settled: it returned "completed", or it returned "failed"
\* or threw (the catch block records a failure as well).
Finish(t, ok) ==
  /\ phase[t] = "executing"
  /\ completed' = IF ok THEN completed \cup {t} ELSE completed
  /\ failed' = IF ok THEN failed ELSE failed \cup {t}
  /\ settled' = settled \cup {t}
  /\ phase' = NotifiedPhase(ReleasedPhase([phase EXCEPT ![t] = "done"]), t, failed')
  /\ awaiting' = NotifiedAwaiting(t)
  /\ runningCount' = ReleasedCount
  /\ waiters' = ReleasedWaiters
  /\ UNCHANGED <<deps, aborted, started>>

\* External cancellation: the batch, the user or the session aborts the signal.
Abort ==
  /\ ~aborted
  /\ aborted' = TRUE
  /\ UNCHANGED <<deps, phase, awaiting, completed, failed, settled,
                 runningCount, waiters, started>>

\* Promise.all has resolved.
Returned == \A t \in Task : phase[t] = "done"

Terminating == Returned /\ UNCHANGED vars

Step(t) ==
  \/ SkipFailedDependency(t)
  \/ Acquire(t)
  \/ SkipAborted(t)
  \/ Launch(t)
  \/ \E ok \in BOOLEAN : Finish(t, ok)

Next == Start \/ Abort \/ Terminating \/ \E t \in Task : Step(t)

Spec == Init /\ [][Next]_vars

-----------------------------------------------------------------------------
(***************************************************************************)
(* Properties                                                              *)
(***************************************************************************)

\* The type invariant of the scheduler's state.
TypeOK ==
  /\ deps \in [Task -> SUBSET Task]
  /\ phase \in [Task -> Phases]
  /\ awaiting \in [Task -> SUBSET Task]
  /\ completed \subseteq Task /\ failed \subseteq Task /\ settled \subseteq Task
  /\ runningCount \in Int /\ runningCount <= maxConcurrency
  /\ waiters \in Seq(Task)
  /\ aborted \in BOOLEAN
  /\ started \subseteq Task

\* A task is launched only after every one of its dependencies completed: the
\* continuation that launches it runs long after waitForDependencies read
\* `failed` and `settled`, and nothing may have invalidated that answer.
DependenciesCompleteFirst == \A t \in started : deps[t] \subseteq completed

\* A failure reaches every dependent: a task whose dependency failed or was
\* skipped never completes, so no result is built on a failed upstream task.
FailurePropagates == \A t \in completed : deps[t] \cap failed = {}

\* No wakeup is lost: while a task queues for a slot, at least maxConcurrency
\* others hold one, so a release that will wake it is still to come, although
\* the counter the semaphore decides by no longer counts the holders.
NoLostWakeup == waiters # <<>> => Cardinality(Holders) >= maxConcurrency

\* No notification is lost: runOne waits exactly for the dependencies that have
\* not settled, and for at least one, so a listener registered by
\* waitForDependencies is called, once per dependency, and never too late.
NoLostNotification ==
  \A t \in Task : phase[t] = "waitDeps" =>
    awaiting[t] # {} /\ awaiting[t] = deps[t] \ settled

\* A batch without dependency edges respects options.maxConcurrency: all its
\* tasks have called acquire before the first release, so the counter's
\* over-decrement finds nobody left to admit.
IndependentBatchBounded ==
  (\A t \in Task : deps[t] = {}) => Cardinality(Holders) <= maxConcurrency

\* "a semaphore bounds parallel children (settings.maxParallel)": the module
\* header's promise for every batch, dependency edges or not.
ConcurrencyBounded == Cardinality(Holders) <= maxConcurrency

\* Once the signal is aborted no further task is launched, whichever await the
\* batch's tasks were suspended in when it fired.
NoLaunchAfterAbort == [][aborted => started' = started]_vars

\* Every batch ends: Promise.all resolves, whatever the graph, the outcomes and
\* the moment of the abort.
BatchReturns == <>Returned
=============================================================================
