---------------------- MODULE AiraOrchestrationProofs ----------------------
(***************************************************************************)
(* The orchestration manager implements the scheduler below it, and its    *)
(* records agree with it, for every finite batch, every accepted graph and *)
(* every concurrency limit.                                                *)
(***************************************************************************)
EXTENDS AiraOrchestration, AiraSchedulerProofs

\* The stages of executeRun between two of its awaits, and those in which it has
\* returned but the scheduler has not resumed.
Live == {"resolving", "running"}
Answered == {"succeeded", "unmet"}

\* Where executeRun is, runOne is: it is called by the launch and taken over by
\* Resume, and a task that was never launched has no stage.
StageInv ==
  \A t \in Task :
    /\ phase[t] = "executing" <=> stage[t] \in Live \cup Answered
    /\ t \in started <=> stage[t] # "none"
    /\ stage[t] = "over" => phase[t] = "done"

\* The status of the record in each stage of executeRun.
StatusInv ==
  \A t \in Task :
    /\ stage[t] = "none" => status[t] = IF phase[t] = "done" THEN "rejected" ELSE "pending"
    /\ stage[t] \in Live => status[t] = "running"
    /\ stage[t] = "succeeded" => status[t] = "completed"
    /\ stage[t] = "unmet" => status[t] \in {"failed", "timed-out", "cancelled"}
    /\ stage[t] = "over" => /\ status[t] \in {"completed", "failed", "timed-out", "cancelled"}
                            /\ t \in completed <=> status[t] = "completed"

\* Nothing aborts a batch before its tasks have been started, a promise that
\* resolved to false has a failed dependency, and cancel reaches only the runs in
\* execution: their controllers are the only ones registered.
CauseInv ==
  /\ \A t \in runAborts : stage[t] \in Live
  /\ runAborted \subseteq started
  /\ aborted => Dispatched
  /\ \A t \in Task : phase[t] = "depsFailed" => deps[t] \cap failed # {}
  /\ TruthfulOutcome

OInv == OTypeOK /\ Inv /\ StageInv /\ StatusInv /\ CauseInv

-----------------------------------------------------------------------------
\* The steps that leave the scheduler's variables alone.
Above ==
  \/ BatchDone \/ Stopped
  \/ \E t \in Task : \/ ModelUnavailable(t) \/ ModelResolved(t) \/ CancelRun(t)
                     \/ \E outcome \in Outcomes : RunnerReturns(t, outcome)

\* Every step of the manager is a step of the scheduler or leaves it alone.
LEMMA StepImplements == OTypeOK /\ [ONext]_ovars => [Next]_vars
  <1> SUFFICES ASSUME OTypeOK, [ONext]_ovars PROVE [Next]_vars
    OBVIOUS
  <1>1. ASSUME AbortBatch PROVE [Next]_vars
    <2>1. aborted \in BOOLEAN /\ activeBatch \in BOOLEAN
      BY DEF OTypeOK, TypeOK
    <2>2. CASE ~aborted /\ activeBatch
      BY <1>1, <2>2 DEF AbortBatch, Abort, Next
    <2>3. CASE aborted \/ ~activeBatch
      BY <1>1, <2>1, <2>3 DEF AbortBatch, vars
    <2> QED BY <2>1, <2>2, <2>3
  <1>2. CASE Dispatch
    BY <1>2 DEF Dispatch, Next
  <1>3. CASE CancelAll \/ Dispose
    BY <1>1, <1>3 DEF CancelAll, Dispose
  <1>4. CASE Above \/ UNCHANGED ovars
    BY <1>4 DEF Above, BatchDone, Stopped, ModelUnavailable, ModelResolved, CancelRun,
                RunnerReturns, Settle, ovars
  <1>5. ASSUME NEW t \in Task, RejectDependent(t) \/ RejectAborted(t) \/ QueueForSlot(t)
                                 \/ StartRun(t)
        PROVE  Next
    BY <1>5 DEF RejectDependent, RejectAborted, QueueForSlot, StartRun, Next, Step
  <1>6. ASSUME NEW t \in Task, Resume(t) PROVE Next
    BY <1>6 DEF Resume, Next, Step
  <1> QED BY <1>2, <1>3, <1>4, <1>5, <1>6 DEF ONext, OStep, Above

\* An initial state of the manager is one of the scheduler, with every record pending.
LEMMA InitOInv == OInit => OInv
  <1> SUFFICES ASSUME OInit PROVE OInv
    OBVIOUS
  <1>1. Inv
    BY InitInv DEF OInit
  <1>2. OTypeOK
    BY <1>1 DEF OInit, OTypeOK, Inv, Statuses, Stages, Published
  <1>3. StageInv /\ StatusInv
    BY DEF OInit, Init, StageInv, StatusInv, Live, Answered
  <1>4. CauseInv
    BY DEF OInit, Init, CauseInv, TruthfulOutcome
  <1> QED BY <1>1, <1>2, <1>3, <1>4 DEF OInv

-----------------------------------------------------------------------------
\* The statuses a runner's outcome, or a model that cannot be resolved, leads to.
LEMMA OutcomeStatus ==
  ASSUME OTypeOK, NEW t \in Task, NEW outcome \in Outcomes
  PROVE  /\ StatusOf(t, outcome) \in {"completed", "failed", "timed-out", "cancelled"}
         /\ StatusOf(t, outcome) = "timed-out" => ~SignalAborted(t)
  <1> QED BY DEF StatusOf, Outcomes

\* Every publish leaves a status the readers know.
LEMMA PublishType == Publish => snapshot'.status \in {"active", "idle"}
  BY DEF Publish, Published

\* settleRun keeps the invariant, whatever status the run settles with.
LEMMA SettleKeeps ==
  ASSUME OInv, NEW t \in Task, NEW st \in {"completed", "failed", "timed-out", "cancelled"},
         stage[t] \in Live, st = "timed-out" => ~SignalAborted(t), Settle(t, st)
  PROVE  OInv'
  <1>0. OTypeOK /\ Inv /\ StageInv /\ StatusInv /\ CauseInv /\ UNCHANGED vars
    BY DEF OInv, Settle
  <1>1. Inv'
    BY <1>0, NextInv DEF OInv
  <1>2. OTypeOK'
    <2>1. snapshot'.status \in {"active", "idle"}
      BY PublishType DEF Settle
    <2>2. TypeOK'
      BY <1>1 DEF Inv
    <2> QED BY <1>0, <2>1, <2>2 DEF Settle, OTypeOK, Statuses, Stages
  <1>3. StageInv'
    BY <1>0 DEF Settle, StageInv, OTypeOK, vars, Live, Answered
  <1>4. StatusInv'
    BY <1>0 DEF Settle, StatusInv, OTypeOK, vars, Live
  <1>5. CauseInv'
    BY <1>0 DEF Settle, CauseInv, TruthfulOutcome, SignalAborted, Dispatched, OTypeOK, vars
  <1> QED BY <1>1, <1>2, <1>3, <1>4, <1>5 DEF OInv

\* The manager's part of the invariant survives a settlement by the scheduler of a
\* task that was skipped, when onSkipped has rejected its record.
LEMMA RejectKeeps ==
  ASSUME OInv, NEW t \in Task, phase[t] \in {"depsFailed", "granted"}, Settles(t),
         failed' = failed \cup {t}, completed' = completed, aborted' = aborted,
         phase[t] = "granted" => aborted,
         status' = Rejected(t), UNCHANGED <<stage, runAborts, runAborted>>
  PROVE  StageInv' /\ StatusInv' /\ CauseInv' /\ status' \in [Task -> Statuses]
  <1>0. OTypeOK /\ TypeOK /\ StageInv /\ StatusInv /\ CauseInv
    BY DEF OInv, OTypeOK
  <1>1. stage[t] = "none" /\ status[t] = "pending" /\ t \notin started
    BY <1>0 DEF StageInv, StatusInv, OTypeOK, Stages, Live, Answered
  <1>2. status' = [status EXCEPT ![t] = "rejected"]
    BY <1>1 DEF Rejected
  <1>3. StageInv'
    BY <1>0, <1>1 DEF StageInv, Settles, OTypeOK, Stages, Live, Answered
  <1>4. StatusInv'
    BY <1>0, <1>1, <1>2 DEF StatusInv, Settles, OTypeOK, TypeOK, Stages, Live
  <1>5. (\A u \in Task : phase[u] = "depsFailed" => deps[u] \cap failed # {})'
    BY <1>0 DEF CauseInv, Settles, TypeOK
  <1>6. TruthfulOutcome'
    <2>1. aborted \/ deps[t] \cap failed # {}
      BY <1>0 DEF CauseInv
    <2> QED BY <1>0, <1>1, <1>2, <2>1 DEF CauseInv, TruthfulOutcome, Settles, OTypeOK
  <1>7. (aborted => Dispatched)'
    BY <1>0 DEF CauseInv, Dispatched, Settles
  <1>9. (\A u \in runAborts : stage[u] \in Live)' /\ (runAborted \subseteq started)'
    BY <1>0 DEF CauseInv, Settles
  <1>8. status' \in [Task -> Statuses]
    BY <1>0, <1>2 DEF OTypeOK, Statuses
  <1> QED BY <1>3, <1>4, <1>5, <1>6, <1>7, <1>8, <1>9 DEF CauseInv

\* The scheduler's resumption after execute(): the record was settled before.
LEMMA ResumeKeeps ==
  ASSUME OInv, NEW t \in Task, Resume(t)
  PROVE  StageInv' /\ StatusInv' /\ CauseInv' /\ stage' \in [Task -> Stages]
  <1>0. OTypeOK /\ TypeOK /\ Inv /\ StageInv /\ StatusInv /\ CauseInv
    BY DEF OInv, OTypeOK
  <1> DEFINE ok == stage[t] = "succeeded"
  <1>1. /\ Finish(t, ok) /\ stage[t] \in Answered
        /\ stage' = [stage EXCEPT ![t] = "over"]
        /\ UNCHANGED <<status, runAborts, runAborted>>
    BY DEF Resume, Answered
  <1>2. Settles(t) /\ phase[t] = "executing" /\ aborted' = aborted
    BY <1>0, <1>1, ReleaseSettles DEF Finish, Inv, DependencyInv
  <1>3. completed' = IF ok THEN completed \cup {t} ELSE completed
    BY <1>1 DEF Finish
  <1>4. t \notin completed
    BY <1>0, <1>2 DEF Inv, SettledInv
  <1>5. StageInv'
    BY <1>0, <1>1, <1>2 DEF StageInv, Settles, OTypeOK, Stages, Live, Answered
  <1>6. StatusInv'
    <2>1. status[t] \in {"completed", "failed", "timed-out", "cancelled"}
          /\ (ok <=> status[t] = "completed")
      BY <1>0, <1>1 DEF StatusInv, Answered
    <2> QED BY <1>0, <1>1, <1>2, <1>3, <1>4, <2>1
            DEF StatusInv, Settles, OTypeOK, TypeOK, Stages, Live, Answered
  <1>7. (\A u \in Task : phase[u] = "depsFailed" => deps[u] \cap failed # {})'
    BY <1>0, <1>2 DEF CauseInv, Settles, TypeOK
  <1>8. TruthfulOutcome'
    BY <1>0, <1>1, <1>2 DEF CauseInv, TruthfulOutcome, SignalAborted, Settles, OTypeOK
  <1>9. (aborted => Dispatched)'
    BY <1>0, <1>2 DEF CauseInv, Dispatched, Settles
  <1>10. stage' \in [Task -> Stages]
    BY <1>0, <1>1 DEF OTypeOK, Stages
  <1>11. (\A u \in runAborts : stage[u] \in Live)' /\ (runAborted \subseteq started)'
    BY <1>0, <1>1, <1>2 DEF CauseInv, Settles, OTypeOK, Live, Answered
  <1> QED BY <1>5, <1>6, <1>7, <1>8, <1>9, <1>10, <1>11 DEF CauseInv

\* Steps that move neither a record, nor a stage, nor a control point keep the
\* manager's part of the invariant.
LEMMA AloofKeeps ==
  ASSUME OInv, UNCHANGED <<deps, phase, completed, failed, started, status, stage>>,
         aborted => aborted', aborted' => Dispatched,
         runAborts' \subseteq runAborts, runAborted' \subseteq runAborted \cup runAborts
  PROVE  StageInv' /\ StatusInv' /\ CauseInv'
  <1>0. StageInv /\ StatusInv /\ CauseInv
    BY DEF OInv
  <1>1. StageInv' /\ StatusInv'
    BY <1>0 DEF StageInv, StatusInv
  <1>2. CauseInv'
    <2>1. \A t \in runAborts : t \in started /\ t \in Task /\ status[t] = "running"
      BY <1>0 DEF OInv, OTypeOK, StageInv, StatusInv, CauseInv, Live
    <2> QED BY <1>0, <2>1 DEF CauseInv, TruthfulOutcome, Dispatched
  <1> QED BY <1>1, <1>2

\* Every step of the manager keeps the invariant.
LEMMA NextOInv == OInv /\ [ONext]_ovars => OInv'
  <1> SUFFICES ASSUME OInv, [ONext]_ovars PROVE OInv'
    OBVIOUS
  <1>0. OTypeOK /\ Inv /\ TypeOK /\ StageInv /\ StatusInv /\ CauseInv
    BY DEF OInv, OTypeOK
  <1>1. Inv'
    BY <1>0, StepImplements, NextInv
  <1>2. TypeOK'
    BY <1>1 DEF Inv
  <1>3. ASSUME NEW t \in Task, ModelUnavailable(t) PROVE OInv'
    <2> DEFINE st == IF SignalAborted(t) THEN "cancelled" ELSE "failed"
    <2>1. st \in {"completed", "failed", "timed-out", "cancelled"}
          /\ (st = "timed-out" => ~SignalAborted(t))
      OBVIOUS
    <2>2. Settle(t, st) /\ stage[t] \in Live
      BY <1>3 DEF ModelUnavailable, Live
    <2> HIDE DEF st
    <2> QED BY <2>1, <2>2, SettleKeeps
  <1>4. ASSUME NEW t \in Task, NEW outcome \in Outcomes, RunnerReturns(t, outcome)
        PROVE  OInv'
    <2>1. Settle(t, StatusOf(t, outcome)) /\ stage[t] \in Live
      BY <1>4 DEF RunnerReturns, Live
    <2> QED BY <1>0, <2>1, OutcomeStatus, SettleKeeps
  <1>5. ASSUME NEW t \in Task, RejectDependent(t) PROVE OInv'
    <2>1. Settles(t) /\ phase[t] = "depsFailed"
      BY <1>0, <1>5, SkipSettles DEF RejectDependent
    <2>2. /\ failed' = failed \cup {t} /\ UNCHANGED <<completed, aborted>>
          /\ status' = Rejected(t)
          /\ UNCHANGED <<stage, runAborts, runAborted, activeBatch, disposed>> /\ Publish
      BY <1>5 DEF RejectDependent, SkipFailedDependency
    <2>3. StageInv' /\ StatusInv' /\ CauseInv' /\ status' \in [Task -> Statuses]
      BY <2>1, <2>2, RejectKeeps
    <2> QED BY <1>0, <1>1, <1>2, <2>2, <2>3, PublishType DEF OInv, OTypeOK
  <1>6. ASSUME NEW t \in Task, RejectAborted(t) PROVE OInv'
    <2>1. Settles(t) /\ phase[t] = "granted" /\ aborted
      BY <1>0, <1>6, ReleaseSettles DEF RejectAborted, SkipAborted, Inv
    <2>2. /\ failed' = failed \cup {t} /\ UNCHANGED <<completed, aborted>>
          /\ status' = Rejected(t)
          /\ UNCHANGED <<stage, runAborts, runAborted, activeBatch, disposed>> /\ Publish
      BY <1>6 DEF RejectAborted, SkipAborted
    <2>3. StageInv' /\ StatusInv' /\ CauseInv' /\ status' \in [Task -> Statuses]
      BY <2>1, <2>2, RejectKeeps
    <2> QED BY <1>0, <1>1, <1>2, <2>2, <2>3, PublishType DEF OInv, OTypeOK
  <1>7. ASSUME NEW t \in Task, Resume(t) PROVE OInv'
    <2>1. StageInv' /\ StatusInv' /\ CauseInv' /\ stage' \in [Task -> Stages]
      BY <1>7, ResumeKeeps
    <2> QED BY <1>0, <1>1, <1>2, <1>7, <2>1 DEF OInv, OTypeOK, Resume
  <1>8. ASSUME NEW t \in Task, QueueForSlot(t) PROVE OInv'
    <2>1. /\ phase[t] = "depsOk" /\ UNCHANGED mvars
          /\ UNCHANGED <<deps, completed, failed, aborted, started>>
          /\ \/ phase' = [phase EXCEPT ![t] = "granted"]
             \/ phase' = [phase EXCEPT ![t] = "waitSlot"]
      BY <1>8 DEF QueueForSlot, Acquire
    <2>2. StageInv' /\ StatusInv'
      BY <1>0, <2>1 DEF StageInv, StatusInv, TypeOK, mvars, Live, Answered
    <2>3. CauseInv'
      BY <1>0, <2>1 DEF CauseInv, TruthfulOutcome, SignalAborted, Dispatched, TypeOK, mvars
    <2> QED BY <1>0, <1>1, <1>2, <2>1, <2>2, <2>3 DEF OInv, OTypeOK, mvars
  <1>9. ASSUME NEW t \in Task, StartRun(t) PROVE OInv'
    <2>1. /\ phase[t] = "granted" /\ phase' = [phase EXCEPT ![t] = "executing"]
          /\ UNCHANGED <<deps, completed, failed, aborted>> /\ started' = started \cup {t}
          /\ status' = [status EXCEPT ![t] = "running"]
          /\ stage' = [stage EXCEPT ![t] = "resolving"]
          /\ runAborts' = runAborts \cup {t}
          /\ UNCHANGED <<runAborted, activeBatch, disposed>> /\ Publish
      BY <1>9 DEF StartRun, Launch
    <2>2. StageInv' /\ StatusInv'
      BY <1>0, <2>1 DEF StageInv, StatusInv, TypeOK, OTypeOK, Live, Answered
    <2>3. CauseInv'
      BY <1>0, <2>1 DEF CauseInv, TruthfulOutcome, Dispatched, TypeOK, OTypeOK, Live
    <2> QED BY <1>0, <1>1, <1>2, <2>1, <2>2, <2>3, PublishType
            DEF OInv, OTypeOK, Statuses, Stages
  <1>10. ASSUME NEW t \in Task, ModelResolved(t) PROVE OInv'
    <2>1. /\ stage[t] = "resolving" /\ stage' = [stage EXCEPT ![t] = "running"]
          /\ UNCHANGED <<vars, status, runAborts, runAborted, activeBatch, disposed>> /\ Publish
      BY <1>10 DEF ModelResolved
    <2>2. StageInv' /\ StatusInv'
      BY <1>0, <2>1 DEF StageInv, StatusInv, OTypeOK, Live, Answered, vars
    <2>3. CauseInv'
      BY <1>0, <2>1 DEF CauseInv, TruthfulOutcome, Dispatched, OTypeOK, vars, Live
    <2> QED BY <1>0, <1>1, <1>2, <2>1, <2>2, <2>3, PublishType DEF OInv, OTypeOK, Stages
  <1>11. CASE Dispatch
    <2>1. UNCHANGED mvars /\ ~aborted
      <3>1. PICK t \in Task : TRUE
        BY TaskAssumption
      <3> QED BY <1>0, <1>11, <3>1 DEF Dispatch, Start, CauseInv, Dispatched
    <2>2. /\ \A t \in Task : phase[t] = "idle" /\ phase'[t] \in {"depsOk", "waitDeps"}
          /\ UNCHANGED <<deps, completed, failed, aborted, started>>
      BY <1>11, <2>1 DEF Dispatch, Start
    <2>3. StageInv' /\ StatusInv'
      BY <1>0, <2>1, <2>2 DEF StageInv, StatusInv, mvars, Live, Answered
    <2>4. CauseInv'
      BY <1>0, <2>1, <2>2 DEF CauseInv, TruthfulOutcome, SignalAborted, Dispatched, mvars
    <2> QED BY <1>0, <1>1, <1>2, <2>1, <2>3, <2>4 DEF OInv, OTypeOK, mvars
  <1>12. CASE CancelAll \/ Dispose
    <2>1. /\ Dispatched /\ runAborted' = runAborted \cup runAborts
          /\ UNCHANGED <<deps, phase, completed, failed, started, status, stage>>
          /\ aborted' = (aborted \/ activeBatch) /\ runAborts' \subseteq runAborts
      BY <1>12 DEF CancelAll, Dispose, AbortBatch
    <2>2. StageInv' /\ StatusInv' /\ CauseInv'
      BY <2>1, AloofKeeps
    <2>3. activeBatch' \in BOOLEAN /\ disposed' \in BOOLEAN /\ runAborts' \subseteq Task
          /\ snapshot'.status \in {"active", "idle"}
      BY <1>0, <1>12, PublishType DEF CancelAll, Dispose, OTypeOK
    <2> QED BY <1>0, <1>1, <1>2, <2>1, <2>2, <2>3 DEF OInv, OTypeOK
  <1>13. CASE BatchDone \/ Stopped \/ (\E t \in Task : CancelRun(t)) \/ UNCHANGED ovars
    <2>1. /\ UNCHANGED vars /\ UNCHANGED <<status, stage, runAborts>>
          /\ \/ runAborted' = runAborted
             \/ \E t \in runAborts : runAborted' = runAborted \cup {t}
          /\ activeBatch' \in BOOLEAN /\ disposed' = disposed
          /\ Publish \/ snapshot' = snapshot
      BY <1>0, <1>13 DEF BatchDone, Stopped, CancelRun, ovars, mvars, OTypeOK
    <2>2. StageInv' /\ StatusInv' /\ CauseInv'
      <3>1. aborted' => Dispatched
        BY <1>0, <2>1 DEF CauseInv, vars
      <3> QED BY <2>1, <3>1, AloofKeeps DEF vars
    <2> QED BY <1>0, <1>1, <1>2, <2>1, <2>2, PublishType DEF OInv, OTypeOK
  <1> QED BY <1>3, <1>4, <1>5, <1>6, <1>7, <1>8, <1>9, <1>10, <1>11, <1>12, <1>13
          DEF ONext, OStep

-----------------------------------------------------------------------------
\* The invariant of the manager and the scheduler together holds in every state.
THEOREM OInvHolds == OSpec => []OInv
  BY InitOInv, NextOInv, PTL DEF OSpec

\* Type correctness of the manager's maps, records and published snapshot.
THEOREM OTypeCorrect == OSpec => []OTypeOK
  <1>1. OInv => OTypeOK
    BY DEF OInv
  <1> QED BY <1>1, OInvHolds, PTL

\* The manager implements the scheduler: cancel, dispose, executeRun and the
\* callbacks reach runAiraScheduler only through its interface.
THEOREM ManagerImplementsScheduler == OSpec => ImplementsScheduler
  <1>1. OInit => Init
    BY DEF OInit
  <1>2. OInv /\ [ONext]_ovars => [Next]_vars
    BY StepImplements DEF OInv
  <1> QED BY <1>1, <1>2, OInvHolds, PTL DEF OSpec, Spec, ImplementsScheduler

\* So the scheduler's guarantee to dependents holds of the whole manager: no child
\* is launched before its dependencies completed, however runs are cancelled.
THEOREM ManagerDependencyOrder == OSpec => []DependenciesCompleteFirst
  BY ManagerImplementsScheduler, DependencyOrder, PTL DEF ImplementsScheduler

\* Records and scheduler agree on every task that is over.
THEOREM RecordsAgree == OSpec => []RecordsMatchScheduler
  <1>1. OInv => RecordsMatchScheduler
    <2> SUFFICES ASSUME OInv, NEW t \in settled
                 PROVE  /\ status[t] \notin Unsettled
                        /\ t \in completed <=> status[t] = "completed"
                        /\ status[t] = "rejected" <=> t \notin started
      BY DEF RecordsMatchScheduler
    <2>1. OTypeOK /\ SettledInv /\ StageInv /\ StatusInv /\ DependencyInv
      BY DEF OInv, Inv
    <2>2. t \in Task /\ phase[t] = "done"
      BY <2>1 DEF OTypeOK, TypeOK, SettledInv
    <2>3. stage[t] \in {"none", "over"}
      BY <2>1, <2>2 DEF StageInv, OTypeOK, Stages, Live, Answered
    <2>4. t \in started <=> stage[t] # "none"
      BY <2>1, <2>2 DEF StageInv
    <2>5. CASE stage[t] = "none"
      BY <2>1, <2>2, <2>4, <2>5 DEF StatusInv, DependencyInv, Unsettled
    <2>6. CASE stage[t] = "over"
      BY <2>1, <2>2, <2>4, <2>6 DEF StatusInv, Unsettled
    <2> QED BY <2>3, <2>5, <2>6
  <1> QED BY <1>1, OInvHolds, PTL

\* No outcome is blamed on a cancellation or a failure that did not happen.
THEOREM OutcomesTruthful == OSpec => []TruthfulOutcome
  <1>1. OInv => TruthfulOutcome
    BY DEF OInv, CauseInv
  <1> QED BY <1>1, OInvHolds, PTL

\* Until disposal the abort controllers are those of the runs in execution: cancel
\* reaches every one of them, and none is left behind by a settled run.
THEOREM ControllersAgree == OSpec => []ControllersMatchRuns
  <1>1. OInit => ControllersMatchRuns
    BY DEF OInit, ControllersMatchRuns
  <1>2. OInv /\ ControllersMatchRuns /\ [ONext]_ovars => ControllersMatchRuns'
    <2> SUFFICES ASSUME OInv, ControllersMatchRuns, [ONext]_ovars, ~disposed'
                 PROVE  runAborts' = {t \in Task : stage'[t] \in {"resolving", "running"}}
      BY DEF ControllersMatchRuns
    <2>0. OTypeOK /\ StageInv
      BY DEF OInv
    <2>1. ASSUME NEW t \in Task, NEW st, Settle(t, st) PROVE ControllersMatchRuns'
      BY <2>0, <2>1 DEF Settle, ControllersMatchRuns, OTypeOK
    <2>2. ASSUME NEW t \in Task, StartRun(t) PROVE ControllersMatchRuns'
      BY <2>0, <2>2 DEF StartRun, ControllersMatchRuns, OTypeOK
    <2>3. ASSUME NEW t \in Task, ModelResolved(t) \/ Resume(t) PROVE ControllersMatchRuns'
      BY <2>0, <2>3 DEF ModelResolved, Resume, ControllersMatchRuns, OTypeOK
    <2>4. CASE Dispatch \/ CancelAll \/ BatchDone \/ Stopped \/ UNCHANGED ovars
      BY <2>4 DEF Dispatch, CancelAll, BatchDone, Stopped, ovars, mvars, ControllersMatchRuns
    <2>5. ASSUME NEW t \in Task,
                 RejectDependent(t) \/ RejectAborted(t) \/ QueueForSlot(t) \/ CancelRun(t)
          PROVE  ControllersMatchRuns'
      BY <2>5 DEF RejectDependent, RejectAborted, QueueForSlot, CancelRun, mvars,
                  ControllersMatchRuns
    <2>6. CASE Dispose
      BY <2>6 DEF Dispose
    <2> QED BY <2>1, <2>2, <2>3, <2>4, <2>5, <2>6
            DEF ONext, OStep, ModelUnavailable, RunnerReturns, ControllersMatchRuns
  <1> QED BY <1>1, <1>2, OInvHolds, PTL DEF OSpec

\* What the manager has published is the state it is in: no handler changes a record
\* or the batch after its last publish.
THEOREM SnapshotIsFresh == OSpec => []SnapshotFresh
  <1>1. OInit => SnapshotFresh
    BY DEF OInit, SnapshotFresh
  <1>2. SnapshotFresh /\ [ONext]_ovars => SnapshotFresh'
    <2> SUFFICES ASSUME SnapshotFresh, [ONext]_ovars PROVE SnapshotFresh'
      OBVIOUS
    <2>1. Publish \/ UNCHANGED <<status, activeBatch, snapshot>>
      BY DEF ONext, OStep, Dispatch, CancelAll, BatchDone, Dispose, Stopped, RejectDependent,
             RejectAborted, QueueForSlot, StartRun, ModelUnavailable, ModelResolved,
             RunnerReturns, Settle, Resume, CancelRun, ovars, mvars
    <2>2. CASE Publish
      BY <2>2 DEF Publish, SnapshotFresh, Published
    <2>3. CASE UNCHANGED <<status, activeBatch, snapshot>>
      BY <2>3 DEF SnapshotFresh, Published
    <2> QED BY <2>1, <2>2, <2>3
  <1> QED BY <1>1, <1>2, PTL DEF OSpec

\* A settled record is never rewritten: not by a late outcome, a skip or a cancel.
THEOREM SettledFinal == OSpec => SettledIsFinal
  <1>1. OInv /\ [ONext]_ovars
          => [\A t \in Task : status[t] \notin Unsettled => status'[t] = status[t]]_ovars
    <2> SUFFICES ASSUME OInv, ONext, NEW u \in Task, status[u] \notin Unsettled
                 PROVE  status'[u] = status[u]
      BY DEF ovars
    <2>0. OTypeOK /\ StageInv /\ StatusInv
      BY DEF OInv
    <2>1. ASSUME NEW t \in Task, stage[t] \in Live, NEW st, Settle(t, st)
          PROVE  status'[u] = status[u]
      BY <2>0, <2>1 DEF Settle, StatusInv, OTypeOK, Unsettled, Live
    <2>2. ASSUME NEW t \in Task, StartRun(t) PROVE status'[u] = status[u]
      <3>1. phase[t] = "granted"
        BY <2>2 DEF StartRun, Launch
      <3>2. stage[t] = "none" /\ status[t] = "pending"
        BY <2>0, <3>1 DEF StageInv, StatusInv, OTypeOK, Stages, Live, Answered
      <3> QED BY <2>0, <2>2, <3>2 DEF StartRun, OTypeOK, Unsettled
    <2>3. ASSUME NEW t \in Task, RejectDependent(t) \/ RejectAborted(t)
          PROVE  status'[u] = status[u]
      BY <2>0, <2>3 DEF RejectDependent, RejectAborted, Rejected, OTypeOK, Unsettled
    <2>4. ASSUME NEW t \in Task, QueueForSlot(t) \/ ModelResolved(t) \/ Resume(t) \/ CancelRun(t)
          PROVE  status' = status
      BY <2>4 DEF QueueForSlot, ModelResolved, Resume, CancelRun, mvars
    <2>5. CASE Dispatch \/ CancelAll \/ BatchDone \/ Dispose \/ Stopped
      BY <2>5 DEF Dispatch, CancelAll, BatchDone, Dispose, Stopped, mvars, ovars
    <2> QED BY <2>1, <2>2, <2>3, <2>4, <2>5
            DEF ONext, OStep, ModelUnavailable, RunnerReturns, Live
  <1> QED BY <1>1, OInvHolds, PTL DEF OSpec, SettledIsFinal
=============================================================================
