------------------------ MODULE AiraSchedulerProofs ------------------------
(***************************************************************************)
(* Proofs of the safety properties of AiraScheduler for every finite       *)
(* batch, every accepted dependency graph and every concurrency limit.     *)
(***************************************************************************)
EXTENDS AiraScheduler, FiniteSetTheorems, TLAPS

\* The tasks whose dependencies have been answered "all completed".
Cleared(t) == phase[t] \in {"depsOk", "waitSlot", "granted", "executing"}

\* settled, completed and failed agree with the control points.
SettledInv ==
  /\ \A t \in Task : t \in settled <=> phase[t] = "done"
  /\ settled = completed \cup failed
  /\ completed \cap failed = {}

\* What runOne knows of its dependencies at each of its control points.
DependencyInv ==
  /\ \A t \in Task : Cleared(t) => deps[t] \subseteq completed
  /\ \A t \in started : deps[t] \subseteq completed
  /\ \A t \in Task : phase[t] = "executing" => t \in started
  /\ completed \subseteq started
  /\ NoLostNotification

\* The semaphore's queue holds exactly the tasks suspended in acquire, once each.
QueueInv ==
  /\ \A t \in Task : phase[t] = "waitSlot" <=> \E i \in DOMAIN waiters : waiters[i] = t
  /\ \A i, j \in DOMAIN waiters : waiters[i] = waiters[j] => i = j

\* The counter never exceeds the number of holders (releases make it smaller).
SlotInv ==
  /\ runningCount <= Cardinality(Holders)
  /\ NoLostWakeup

Inv == TypeOK /\ SettledInv /\ DependencyInv /\ QueueInv /\ SlotInv

\* In a batch without edges nobody is left to call acquire once a task launched.
IndependentInv ==
  (\A t \in Task : deps[t] = {}) =>
    /\ Cardinality(Holders) <= maxConcurrency
    /\ (\E t \in Task : phase[t] \in {"idle", "depsOk"})
         => /\ runningCount = Cardinality(Holders)
            /\ \A t \in Task : phase[t] \notin {"executing", "done"}
    /\ \A t \in Task : phase[t] \notin {"waitDeps", "depsFailed"}
    /\ (\E t \in Task : phase[t] = "idle") => \A t \in Task : phase[t] = "idle"

-----------------------------------------------------------------------------
\* The clamped limit is positive, so the semaphore admits somebody.
LEMMA MaxConcurrencyType == maxConcurrency \in Nat \ {0}
  <1>1. Cardinality(Task) \in Nat /\ Cardinality(Task) # 0
    BY TaskAssumption, FS_CardinalityType, FS_EmptySet
  <1> QED BY <1>1, MaxAssumption DEF maxConcurrency

\* A batch starts well typed.
LEMMA InitType == Init => TypeOK
  <1> SUFFICES ASSUME Init PROVE TypeOK
    OBVIOUS
  <1>1. deps \in [Task -> SUBSET Task]
    BY DEF Init, Accepted
  <1>2. runningCount \in Int /\ runningCount <= maxConcurrency
    BY MaxConcurrencyType DEF Init
  <1>3. /\ phase \in [Task -> Phases] /\ awaiting \in [Task -> SUBSET Task]
        /\ waiters \in Seq(Task)
    BY DEF Init, Phases
  <1> QED BY <1>1, <1>2, <1>3 DEF Init, TypeOK

\* Every step of the scheduler keeps the types.
LEMMA NextType == TypeOK /\ [Next]_vars => TypeOK'
  <1> SUFFICES ASSUME TypeOK, [Next]_vars PROVE TypeOK'
    OBVIOUS
  <1> USE MaxConcurrencyType
  <1>1. CASE Start
    BY <1>1 DEF Start, TypeOK, Phases
  <1>2. CASE Abort
    BY <1>2 DEF Abort, TypeOK
  <1>3. CASE Terminating \/ UNCHANGED vars
    BY <1>3 DEF Terminating, TypeOK, vars
  <1>4. ASSUME NEW t \in Task, Step(t) PROVE TypeOK'
    <2>1. CASE SkipFailedDependency(t)
      BY <2>1 DEF SkipFailedDependency, NotifiedPhase, NotifiedAwaiting, TypeOK, Phases
    <2>2. CASE Acquire(t)
      <3>1. runningCount' \in Int /\ runningCount' <= maxConcurrency
        BY <2>2 DEF Acquire, TypeOK
      <3>2. waiters' \in Seq(Task)
        BY <2>2 DEF Acquire, TypeOK
      <3>3. phase' \in [Task -> Phases]
        BY <2>2 DEF Acquire, TypeOK, Phases
      <3> QED BY <2>2, <3>1, <3>2, <3>3 DEF Acquire, TypeOK
    <2>3. CASE SkipAborted(t)
      BY <2>3 DEF SkipAborted, NotifiedPhase, NotifiedAwaiting, ReleasedPhase,
                  ReleasedCount, ReleasedWaiters, TypeOK, Phases
    <2>4. CASE Launch(t)
      BY <2>4 DEF Launch, TypeOK, Phases
    <2>5. ASSUME NEW ok \in BOOLEAN, Finish(t, ok) PROVE TypeOK'
      BY <2>5 DEF Finish, NotifiedPhase, NotifiedAwaiting, ReleasedPhase,
                  ReleasedCount, ReleasedWaiters, TypeOK, Phases
    <2> QED BY <1>4, <2>1, <2>2, <2>3, <2>4, <2>5 DEF Step
  <1> QED BY <1>1, <1>2, <1>3, <1>4 DEF Next

\* Type correctness: the counter stays at or below the limit whatever happens.
THEOREM TypeCorrect == Spec => []TypeOK
  BY InitType, NextType, PTL DEF Spec

-----------------------------------------------------------------------------
\* What a settling task t does to the others: notify moves exactly the tasks
\* that waited for t alone, and the release grants the first waiter.
LEMMA QueueHead ==
  ASSUME TypeOK, QueueInv, waiters # <<>>
  PROVE  /\ Head(waiters) \in Task
         /\ phase[Head(waiters)] = "waitSlot"
         /\ DOMAIN Tail(waiters) = 1 .. Len(waiters) - 1
         /\ \A i \in DOMAIN Tail(waiters) : Tail(waiters)[i] = waiters[i + 1]
  <1>1. waiters \in Seq(Task) /\ Len(waiters) \in Nat /\ Len(waiters) >= 1
    BY DEF TypeOK
  <1>2. Head(waiters) = waiters[1] /\ 1 \in DOMAIN waiters
    BY <1>1
  <1>3. Head(waiters) \in Task
    BY <1>1, <1>2
  <1>4. phase[Head(waiters)] = "waitSlot"
    BY <1>2, <1>3 DEF QueueInv
  <1> QED BY <1>1, <1>3, <1>4

\* The control points after t settled, whichever way it did.
Settles(t) ==
  /\ \A u \in Task \ {t} :
       \/ phase'[u] = phase[u] /\ (phase[u] = "waitDeps" => awaiting[u] # {t})
       \/ /\ phase[u] = "waitDeps" /\ awaiting[u] = {t}
          /\ phase'[u] = IF deps[u] \cap failed' = {} THEN "depsOk" ELSE "depsFailed"
       \/ phase[u] = "waitSlot" /\ phase'[u] = "granted"
  /\ phase'[t] = "done"
  /\ awaiting' = [u \in Task |-> awaiting[u] \ {t}]
  /\ settled' = settled \cup {t}
  /\ \/ completed' = completed /\ failed' = failed \cup {t}
     \/ completed' = completed \cup {t} /\ failed' = failed /\ t \in started
  /\ UNCHANGED <<deps, started>>

\* A settlement keeps the settled, completed and failed sets and the listeners
\* in step with the control points.
LEMMA SettleKeepsBooks ==
  ASSUME TypeOK, SettledInv, DependencyInv, NEW t \in Task, Settles(t),
         phase[t] \in {"depsFailed", "granted", "executing"}
  PROVE  SettledInv' /\ DependencyInv'
  <1>1. SettledInv'
    BY DEF TypeOK, SettledInv, Settles
  <1>2. (\A u \in Task : Cleared(u) => deps[u] \subseteq completed)'
    <2> SUFFICES ASSUME NEW u \in Task, Cleared(u)' PROVE deps[u] \subseteq completed'
      BY DEF Settles
    <2>1. u # t
      BY DEF Settles, Cleared
    <2>2. CASE Cleared(u)
      BY <2>2 DEF DependencyInv, Settles
    <2>3. CASE ~Cleared(u)
      <3>1. phase[u] = "waitDeps" /\ awaiting[u] = {t} /\ deps[u] \cap failed' = {}
        BY <2>1, <2>3 DEF Settles, Cleared
      <3>2. deps[u] \subseteq settled'
        BY <3>1 DEF DependencyInv, NoLostNotification, Settles, TypeOK
      <3> QED BY <1>1, <3>1, <3>2 DEF SettledInv
    <2> QED BY <2>2, <2>3
  <1>3. (\A u \in started : deps[u] \subseteq completed)'
    BY DEF DependencyInv, Settles, TypeOK
  <1>4. (\A u \in Task : phase[u] = "executing" => u \in started)'
    BY DEF DependencyInv, Settles, TypeOK
  <1>5. (completed \subseteq started)'
    BY DEF DependencyInv, Settles, TypeOK
  <1>6. NoLostNotification'
    BY DEF DependencyInv, NoLostNotification, Settles, TypeOK
  <1> QED BY <1>1, <1>2, <1>3, <1>4, <1>5, <1>6 DEF DependencyInv

\* SkipFailedDependency leaves the semaphore alone; no task leaves acquire.
LEMMA SkipSettles ==
  ASSUME TypeOK, NEW t \in Task, SkipFailedDependency(t)
  PROVE  Settles(t) /\ phase[t] = "depsFailed"
  BY DEF TypeOK, SkipFailedDependency, NotifiedPhase, NotifiedAwaiting, Settles

\* The two actions that give a slot back settle their task.
LEMMA ReleaseSettles ==
  ASSUME TypeOK, QueueInv, NEW t \in Task, phase[t] \in {"granted", "executing"},
         phase' = NotifiedPhase(ReleasedPhase([phase EXCEPT ![t] = "done"]), t, failed'),
         awaiting' = NotifiedAwaiting(t),
         settled' = settled \cup {t},
         \/ completed' = completed /\ failed' = failed \cup {t}
         \/ completed' = completed \cup {t} /\ failed' = failed /\ t \in started,
         UNCHANGED <<deps, started>>
  PROVE  Settles(t)
  <1>1. CASE waiters = <<>>
    BY <1>1 DEF TypeOK, ReleasedPhase, NotifiedPhase, NotifiedAwaiting, Settles
  <1>2. CASE waiters # <<>>
    <2> DEFINE h == Head(waiters)
    <2>1. h \in Task /\ phase[h] = "waitSlot"
      BY <1>2, QueueHead
    <2>2. ReleasedPhase([phase EXCEPT ![t] = "done"])
            = [phase EXCEPT ![t] = "done", ![h] = "granted"]
      BY <1>2 DEF ReleasedPhase
    <2> HIDE DEF h
    <2> QED BY <2>1, <2>2 DEF TypeOK, NotifiedPhase, NotifiedAwaiting, Settles
  <1> QED BY <1>1, <1>2

\* A release keeps the queue and the control points of the queued tasks in step.
LEMMA ReleaseKeepsQueue ==
  ASSUME TypeOK, QueueInv, NEW t \in Task, phase[t] \in {"granted", "executing"},
         NEW f,
         phase' = NotifiedPhase(ReleasedPhase([phase EXCEPT ![t] = "done"]), t, f),
         waiters' = ReleasedWaiters
  PROVE  QueueInv'
  <1>1. CASE waiters = <<>>
    BY <1>1 DEF TypeOK, QueueInv, ReleasedPhase, ReleasedWaiters, NotifiedPhase
  <1>2. CASE waiters # <<>>
    <2> DEFINE h == Head(waiters)
    <2>1. /\ h \in Task /\ phase[h] = "waitSlot" /\ h = waiters[1]
          /\ Len(waiters) \in Nat \ {0} /\ DOMAIN waiters = 1 .. Len(waiters)
      BY <1>2, QueueHead DEF TypeOK
    <2>2. /\ DOMAIN waiters' = 1 .. Len(waiters) - 1
          /\ \A i \in DOMAIN waiters' : waiters'[i] = waiters[i + 1]
      BY <1>2, QueueHead DEF ReleasedWaiters
    <2>3. ReleasedPhase([phase EXCEPT ![t] = "done"])
            = [phase EXCEPT ![t] = "done", ![h] = "granted"]
      BY <1>2 DEF ReleasedPhase
    <2> HIDE DEF h
    <2>4. \A u \in Task : phase'[u] = "waitSlot" <=> phase[u] = "waitSlot" /\ u # h
      BY <2>1, <2>3 DEF TypeOK, NotifiedPhase
    <2>5. \A u \in Task : (\E i \in DOMAIN waiters' : waiters'[i] = u)
                      <=> (\E i \in DOMAIN waiters : waiters[i] = u) /\ u # h
      <3> TAKE u \in Task
      <3>1. ASSUME NEW i \in DOMAIN waiters', waiters'[i] = u
            PROVE  i + 1 \in DOMAIN waiters /\ waiters[i + 1] = u /\ u # h
        BY <2>1, <2>2, <3>1 DEF QueueInv
      <3>2. ASSUME NEW i \in DOMAIN waiters, waiters[i] = u, u # h
            PROVE  i - 1 \in DOMAIN waiters' /\ waiters'[i - 1] = u
        BY <2>1, <2>2, <3>2
      <3> QED BY <3>1, <3>2
    <2>6. \A i, j \in DOMAIN waiters' : waiters'[i] = waiters'[j] => i = j
      BY <2>1, <2>2 DEF QueueInv
    <2> QED BY <2>4, <2>5, <2>6 DEF QueueInv
  <1> QED BY <1>1, <1>2

-----------------------------------------------------------------------------
\* The holders of the semaphore are a finite set, so they can be counted.
LEMMA HoldersFinite ==
  IsFiniteSet(Holders) /\ Cardinality(Holders) \in Nat
  BY TaskAssumption, FS_Subset, FS_CardinalityType DEF Holders

\* A release hands the slot on when somebody waits, and frees it otherwise.
LEMMA ReleaseCounts ==
  ASSUME TypeOK, QueueInv, NEW t \in Task, phase[t] \in {"granted", "executing"},
         NEW f,
         phase' = NotifiedPhase(ReleasedPhase([phase EXCEPT ![t] = "done"]), t, f)
  PROVE  /\ waiters = <<>> => Cardinality(Holders') = Cardinality(Holders) - 1
         /\ waiters # <<>> => Cardinality(Holders') = Cardinality(Holders)
  <1>0. t \in Holders
    BY DEF Holders
  <1>1. CASE waiters = <<>>
    <2>1. Holders' = Holders \ {t}
      BY <1>1 DEF TypeOK, ReleasedPhase, NotifiedPhase, Holders
    <2> QED BY <1>0, <1>1, <2>1, HoldersFinite, FS_RemoveElement
  <1>2. CASE waiters # <<>>
    <2> DEFINE h == Head(waiters)
    <2>1. h \in Task /\ phase[h] = "waitSlot"
      BY <1>2, QueueHead
    <2>2. ReleasedPhase([phase EXCEPT ![t] = "done"])
            = [phase EXCEPT ![t] = "done", ![h] = "granted"]
      BY <1>2 DEF ReleasedPhase
    <2> HIDE DEF h
    <2>3. h \notin Holders /\ Holders' = (Holders \ {t}) \cup {h}
      BY <2>1, <2>2 DEF TypeOK, NotifiedPhase, Holders
    <2>4. IsFiniteSet(Holders \ {t}) /\ Cardinality(Holders \ {t}) = Cardinality(Holders) - 1
      BY <1>0, HoldersFinite, FS_RemoveElement
    <2>5. Cardinality((Holders \ {t}) \cup {h}) = Cardinality(Holders \ {t}) + 1
      BY <2>3, <2>4, FS_AddElement
    <2> QED BY <1>2, <2>3, <2>4, <2>5, HoldersFinite
  <1> QED BY <1>1, <1>2

\* A release keeps the counter at or below the holders and wakes a waiter.
LEMMA ReleaseKeepsSlots ==
  ASSUME TypeOK, QueueInv, SlotInv, NEW t \in Task, phase[t] \in {"granted", "executing"},
         NEW f,
         phase' = NotifiedPhase(ReleasedPhase([phase EXCEPT ![t] = "done"]), t, f),
         waiters' = ReleasedWaiters, runningCount' = ReleasedCount
  PROVE  SlotInv'
  <1>0. /\ waiters = <<>> => Cardinality(Holders') = Cardinality(Holders) - 1
        /\ waiters # <<>> => Cardinality(Holders') = Cardinality(Holders)
    BY ReleaseCounts
  <1>1. CASE waiters = <<>>
    <2>1. waiters' = <<>> /\ runningCount' = runningCount - 2
      BY <1>1 DEF ReleasedWaiters, ReleasedCount
    <2> QED BY <1>1, <2>1, <1>0, HoldersFinite, MaxConcurrencyType DEF SlotInv, NoLostWakeup, TypeOK
  <1>2. CASE waiters # <<>>
    <2>1. runningCount' = runningCount - 1
      BY <1>2 DEF ReleasedCount
    <2> QED BY <1>2, <2>1, <1>0, HoldersFinite, MaxConcurrencyType DEF SlotInv, NoLostWakeup, TypeOK
  <1> QED BY <1>1, <1>2

\* Acquire either takes a slot or joins the queue of a full semaphore.
LEMMA AcquireCounts ==
  ASSUME TypeOK, NEW t \in Task, Acquire(t)
  PROVE  \/ /\ phase' = [phase EXCEPT ![t] = "granted"]
            /\ runningCount' = runningCount + 1 /\ waiters' = waiters
            /\ runningCount < maxConcurrency
            /\ Cardinality(Holders') = Cardinality(Holders) + 1
         \/ /\ phase' = [phase EXCEPT ![t] = "waitSlot"]
            /\ runningCount' = runningCount /\ waiters' = Append(waiters, t)
            /\ runningCount >= maxConcurrency
            /\ Holders' = Holders
  <1>1. CASE phase' = [phase EXCEPT ![t] = "granted"]
    <2>1. t \notin Holders /\ Holders' = Holders \cup {t}
      BY <1>1 DEF Acquire, TypeOK, Holders
    <2>2. Cardinality(Holders \cup {t}) = Cardinality(Holders) + 1
      BY <2>1, HoldersFinite, FS_AddElement
    <2>3. phase'[t] = "granted"
      BY <1>1 DEF TypeOK
    <2>4. phase' # [phase EXCEPT ![t] = "waitSlot"]
      BY <2>3 DEF TypeOK
    <2> QED BY <1>1, <2>1, <2>2, <2>4 DEF Acquire
  <1>2. CASE phase' = [phase EXCEPT ![t] = "waitSlot"]
    <2>1. Holders' = Holders
      BY <1>2 DEF Acquire, TypeOK, Holders
    <2>3. phase'[t] = "waitSlot"
      BY <1>2 DEF TypeOK
    <2>4. phase' # [phase EXCEPT ![t] = "granted"]
      BY <2>3 DEF TypeOK
    <2> QED BY <1>2, <2>1, <2>4 DEF Acquire
  <1> QED BY <1>1, <1>2 DEF Acquire

-----------------------------------------------------------------------------
\* The inductive invariant holds when the batch starts.
LEMMA InitInv == Init => Inv
  <1> SUFFICES ASSUME Init PROVE Inv
    OBVIOUS
  <1>1. TypeOK
    BY InitType
  <1>2. SettledInv /\ DependencyInv
    BY DEF Init, SettledInv, DependencyInv, NoLostNotification, Cleared
  <1>3. QueueInv
    BY DEF Init, QueueInv
  <1>4. SlotInv
    BY HoldersFinite DEF Init, SlotInv, NoLostWakeup
  <1> QED BY <1>1, <1>2, <1>3, <1>4 DEF Inv

\* Every step of the scheduler keeps the inductive invariant.
LEMMA NextInv == Inv /\ [Next]_vars => Inv'
  <1> SUFFICES ASSUME Inv, [Next]_vars PROVE Inv'
    OBVIOUS
  <1>0. TypeOK /\ SettledInv /\ DependencyInv /\ QueueInv /\ SlotInv
    BY DEF Inv
  <1>1. TypeOK'
    BY <1>0, NextType
  <1>2. CASE Start
    <2>1. SettledInv' /\ DependencyInv'
      BY <1>0, <1>2 DEF Start, TypeOK, SettledInv, DependencyInv, NoLostNotification, Cleared
    <2>2. QueueInv' /\ Holders' = Holders
      BY <1>0, <1>2 DEF Start, TypeOK, QueueInv, Holders
    <2>3. SlotInv'
      BY <1>0, <1>2, <2>2 DEF Start, SlotInv, NoLostWakeup
    <2> QED BY <1>1, <2>1, <2>2, <2>3 DEF Inv
  <1>3. CASE Abort \/ Terminating \/ UNCHANGED vars
    <2>1. UNCHANGED <<deps, phase, awaiting, completed, failed, settled,
                      runningCount, waiters, started>>
      BY <1>3 DEF Abort, Terminating, vars
    <2> QED BY <1>0, <1>1, <2>1 DEF Inv, SettledInv, DependencyInv, NoLostNotification,
               Cleared, QueueInv, SlotInv, NoLostWakeup, Holders
  <1>4. ASSUME NEW t \in Task, SkipFailedDependency(t) PROVE Inv'
    <2>1. SettledInv' /\ DependencyInv'
      BY <1>0, <1>4, SkipSettles, SettleKeepsBooks
    <2>2. QueueInv' /\ Holders' = Holders
      BY <1>0, <1>4 DEF SkipFailedDependency, NotifiedPhase, TypeOK, QueueInv, Holders
    <2>3. SlotInv'
      BY <1>0, <1>4, <2>2 DEF SkipFailedDependency, SlotInv, NoLostWakeup
    <2> QED BY <1>1, <2>1, <2>2, <2>3 DEF Inv
  <1>5. ASSUME NEW t \in Task, Acquire(t) PROVE Inv'
    <2>1. SettledInv' /\ DependencyInv'
      BY <1>0, <1>5 DEF Acquire, TypeOK, SettledInv, DependencyInv, NoLostNotification, Cleared
    <2>2. QueueInv'
      <3>1. CASE waiters' = waiters /\ phase' = [phase EXCEPT ![t] = "granted"]
        BY <1>0, <1>5, <3>1 DEF Acquire, TypeOK, QueueInv
      <3>2. CASE waiters' = Append(waiters, t) /\ phase' = [phase EXCEPT ![t] = "waitSlot"]
        <4>1. /\ Len(waiters) \in Nat /\ DOMAIN waiters = 1 .. Len(waiters)
              /\ DOMAIN waiters' = 1 .. Len(waiters) + 1
              /\ waiters'[Len(waiters) + 1] = t
              /\ \A i \in DOMAIN waiters : waiters'[i] = waiters[i]
          BY <1>0, <3>2 DEF TypeOK
        <4>2. \A i \in DOMAIN waiters : waiters[i] # t
          BY <1>0, <1>5 DEF QueueInv, Acquire
        <4>3. \A i, j \in DOMAIN waiters' : waiters'[i] = waiters'[j] => i = j
          BY <1>0, <4>1, <4>2 DEF QueueInv
        <4>4. \A u \in Task : (\E i \in DOMAIN waiters' : waiters'[i] = u)
                          <=> (\E i \in DOMAIN waiters : waiters[i] = u) \/ u = t
          BY <4>1
        <4>5. \A u \in Task : phase'[u] = "waitSlot" <=> phase[u] = "waitSlot" \/ u = t
          BY <1>0, <3>2 DEF TypeOK
        <4> QED BY <1>0, <4>3, <4>4, <4>5 DEF QueueInv
      <3> QED BY <1>0, <1>5, <3>1, <3>2, AcquireCounts
    <2>3. SlotInv'
      BY <1>0, <1>5, AcquireCounts, HoldersFinite, MaxConcurrencyType
         DEF SlotInv, NoLostWakeup, TypeOK
    <2> QED BY <1>1, <2>1, <2>2, <2>3 DEF Inv
  <1>6. ASSUME NEW t \in Task, SkipAborted(t) PROVE Inv'
    <2>1. Settles(t)
      BY <1>0, <1>6, ReleaseSettles DEF SkipAborted
    <2>2. SettledInv' /\ DependencyInv'
      BY <1>0, <1>6, <2>1, SettleKeepsBooks DEF SkipAborted
    <2>3. QueueInv'
      BY <1>0, <1>6, ReleaseKeepsQueue DEF SkipAborted
    <2>4. SlotInv'
      BY <1>0, <1>6, ReleaseKeepsSlots DEF SkipAborted
    <2> QED BY <1>1, <2>2, <2>3, <2>4 DEF Inv
  <1>7. ASSUME NEW t \in Task, Launch(t) PROVE Inv'
    <2>1. SettledInv' /\ DependencyInv'
      BY <1>0, <1>7 DEF Launch, TypeOK, SettledInv, DependencyInv, NoLostNotification, Cleared
    <2>2. QueueInv' /\ Holders' = Holders
      BY <1>0, <1>7 DEF Launch, TypeOK, QueueInv, Holders
    <2>3. SlotInv'
      BY <1>0, <1>7, <2>2 DEF Launch, SlotInv, NoLostWakeup
    <2> QED BY <1>1, <2>1, <2>2, <2>3 DEF Inv
  <1>8. ASSUME NEW t \in Task, NEW ok \in BOOLEAN, Finish(t, ok) PROVE Inv'
    <2>1. Settles(t)
      BY <1>0, <1>8, ReleaseSettles DEF Finish, DependencyInv
    <2>2. SettledInv' /\ DependencyInv'
      BY <1>0, <1>8, <2>1, SettleKeepsBooks DEF Finish
    <2>3. QueueInv'
      BY <1>0, <1>8, ReleaseKeepsQueue DEF Finish
    <2>4. SlotInv'
      BY <1>0, <1>8, ReleaseKeepsSlots DEF Finish
    <2> QED BY <1>1, <2>2, <2>3, <2>4 DEF Inv
  <1> QED BY <1>2, <1>3, <1>4, <1>5, <1>6, <1>7, <1>8 DEF Next, Step

\* The inductive invariant holds in every reachable state.
THEOREM InvHolds == Spec => []Inv
  BY InitInv, NextInv, PTL DEF Spec

\* Every launched task's dependencies completed before it (runOne awaits
\* waitForDependencies, then acquire, and the answer survives both awaits).
THEOREM DependencyOrder == Spec => []DependenciesCompleteFirst
  <1>1. Inv => DependenciesCompleteFirst
    BY DEF Inv, DependencyInv, DependenciesCompleteFirst
  <1> QED BY <1>1, InvHolds, PTL

\* A completed task has no failed dependency: failures propagate through the
\* whole graph, whatever its shape and the order of the settlements.
THEOREM FailurePropagation == Spec => []FailurePropagates
  <1>1. Inv => FailurePropagates
    BY DEF Inv, DependencyInv, SettledInv, FailurePropagates
  <1> QED BY <1>1, InvHolds, PTL

\* The semaphore never strands a waiter, in spite of its double decrement.
THEOREM WakeupsKept == Spec => []NoLostWakeup
  <1>1. Inv => NoLostWakeup
    BY DEF Inv, SlotInv
  <1> QED BY <1>1, InvHolds, PTL

\* Every listener of waitForDependencies is registered before its dependency
\* settles and is called exactly when it does.
THEOREM NotificationsKept == Spec => []NoLostNotification
  <1>1. Inv => NoLostNotification
    BY DEF Inv, DependencyInv
  <1> QED BY <1>1, InvHolds, PTL

\* No launch after the abort, for every batch and every abort point.
THEOREM AbortStopsLaunches == Spec => NoLaunchAfterAbort
  <1>1. [Next]_vars => [aborted => started' = started]_vars
    BY DEF Next, Step, Start, Abort, Terminating, SkipFailedDependency, Acquire,
           SkipAborted, Launch, Finish, vars
  <1> QED BY <1>1, PTL DEF Spec, NoLaunchAfterAbort

-----------------------------------------------------------------------------
\* A batch without dependency edges keeps options.maxConcurrency.
THEOREM IndependentBound == Spec => []IndependentBatchBounded
  <1>1. Init => IndependentInv
    <2> SUFFICES ASSUME Init PROVE IndependentInv
      OBVIOUS
    <2>1. Holders = {} /\ Cardinality(Holders) = 0
      BY FS_EmptySet DEF Init, Holders
    <2> QED BY <2>1, MaxConcurrencyType DEF Init, IndependentInv
  <1>2. Inv /\ IndependentInv /\ [Next]_vars => IndependentInv'
    <2> SUFFICES ASSUME Inv, IndependentInv, [Next]_vars, (\A t \in Task : deps[t] = {})'
                 PROVE  IndependentInv'
      BY DEF IndependentInv
    <2>0. /\ TypeOK /\ QueueInv /\ SlotInv
          /\ deps' = deps /\ \A t \in Task : deps[t] = {}
      BY DEF Inv, Next, Step, Start, Abort, Terminating, SkipFailedDependency, Acquire,
             SkipAborted, Launch, Finish, vars
    <2>1. CASE Start
      <3>1. Holders' = Holders
        BY <2>0, <2>1 DEF Start, TypeOK, Holders
      <3> QED BY <2>0, <2>1, <3>1, TaskAssumption DEF Start, TypeOK, IndependentInv
    <2>2. CASE Abort \/ Terminating \/ UNCHANGED vars
      <3>1. phase' = phase /\ runningCount' = runningCount
        BY <2>2 DEF Abort, Terminating, vars
      <3> QED BY <2>0, <3>1 DEF IndependentInv, Holders
    <2>3. ASSUME NEW t \in Task, SkipFailedDependency(t) PROVE FALSE
      BY <2>0, <2>3 DEF SkipFailedDependency, IndependentInv
    <2>4. ASSUME NEW t \in Task, Acquire(t) PROVE IndependentInv'
      <3>1. /\ Cardinality(Holders) <= maxConcurrency
            /\ runningCount = Cardinality(Holders)
            /\ \A u \in Task :
                 phase[u] \notin {"idle", "executing", "done", "waitDeps", "depsFailed"}
        BY <2>0, <2>4 DEF Acquire, IndependentInv
      <3>2. /\ Cardinality(Holders') <= maxConcurrency
            /\ runningCount' = Cardinality(Holders')
        BY <2>0, <2>4, <3>1, AcquireCounts, HoldersFinite, MaxConcurrencyType DEF TypeOK
      <3>3. \A u \in Task :
              phase'[u] \notin {"idle", "executing", "done", "waitDeps", "depsFailed"}
        BY <2>0, <2>4, <3>1 DEF Acquire, TypeOK
      <3> QED BY <3>2, <3>3 DEF IndependentInv
    <2>5. ASSUME NEW t \in Task, NEW f,
                 phase[t] \in {"granted", "executing"},
                 phase[t] = "granted" => FirstRoundOver,
                 phase' = NotifiedPhase(ReleasedPhase([phase EXCEPT ![t] = "done"]), t, f)
          PROVE  IndependentInv'
      <3>1. Cardinality(Holders') <= Cardinality(Holders)
        <4>1. /\ waiters = <<>> => Cardinality(Holders') = Cardinality(Holders) - 1
              /\ waiters # <<>> => Cardinality(Holders') = Cardinality(Holders)
          BY <2>0, <2>5, ReleaseCounts
        <4> QED BY <4>1, HoldersFinite
      <3>2. \A u \in Task : phase[u] \notin {"idle", "depsOk", "waitDeps", "depsFailed"}
        BY <2>0, <2>5 DEF IndependentInv, FirstRoundOver
      <3>3. \A u \in Task : phase'[u] \notin {"idle", "depsOk", "waitDeps", "depsFailed"}
        BY <2>0, <2>5, <3>2, QueueHead DEF NotifiedPhase, ReleasedPhase, TypeOK
      <3>4. Cardinality(Holders') <= maxConcurrency
        <4>1. Cardinality(Holders) <= maxConcurrency
          BY <2>0 DEF IndependentInv
        <4>2. Cardinality(Holders') \in Nat
          BY <2>0, <2>5, HoldersFinite, ReleaseCounts, FS_CardinalityType, FS_Subset, TaskAssumption
             DEF Holders
        <4> QED BY <3>1, <4>1, <4>2, HoldersFinite, MaxConcurrencyType
      <3> QED BY <3>3, <3>4 DEF IndependentInv
    <2>6. ASSUME NEW t \in Task, SkipAborted(t) PROVE IndependentInv'
      BY <2>5, <2>6 DEF SkipAborted
    <2>7. ASSUME NEW t \in Task, Launch(t) PROVE IndependentInv'
      <3>1. Holders' = Holders /\ runningCount' = runningCount
        BY <2>0, <2>7 DEF Launch, TypeOK, Holders
      <3>2. \A u \in Task : phase[u] \notin {"idle", "depsOk"}
        BY <2>0, <2>7 DEF Launch, FirstRoundOver, IndependentInv
      <3> QED BY <2>0, <2>7, <3>1, <3>2 DEF Launch, TypeOK, IndependentInv
    <2>8. ASSUME NEW t \in Task, NEW ok \in BOOLEAN, Finish(t, ok) PROVE IndependentInv'
      BY <2>5, <2>8 DEF Finish
    <2> QED BY <2>1, <2>2, <2>3, <2>4, <2>6, <2>7, <2>8 DEF Next, Step
  <1>3. IndependentInv => IndependentBatchBounded
    BY DEF IndependentInv, IndependentBatchBounded
  <1> QED BY <1>1, <1>2, <1>3, InvHolds, PTL DEF Spec
=============================================================================
