--------------------------- MODULE AiraGoalProofs ---------------------------
(***************************************************************************)
(* Goals stay within their rounds, terminal statuses are final, autonomy   *)
(* ends with the user's word, and a goal in verifying is held by a         *)
(* boundary that will take it out: for every number of goals, rounds and   *)
(* verification results.                                                   *)
(***************************************************************************)
EXTENDS AiraGoal, TLAPS

GoalSet == [status : Statuses, round : 0..MaxRounds,
            verdict : {"none", "pass", "fail", "inconclusive"}, lastResult : Nat,
            pending : BOOLEAN, wait : {"none", "evidence", "interaction"},
            interaction : BOOLEAN, evidenceRound : Nat, repair : BOOLEAN]
FileSet == [id : Goals, status : Statuses, round : 0..MaxRounds,
            verdict : {"none", "pass", "fail", "inconclusive"},
            wait : {"none", "evidence", "interaction"}]
ResultSet == [id : Nat \ {0}, verdict : {"pass", "fail", "inconclusive"}, stale : BOOLEAN]

\* The awaits of a boundary, and those that end with a verdict or without one.
Awaits == {"verify", "evidence", "recheck", "send"}
Judging == {"verify", "evidence", "recheck"}
HandlerSet == [pc : Awaits, g : Goals]

\* The types of the variables.
GTypeOK ==
  /\ goals \in [Goals -> GoalSet]
  /\ created \in 0..MaxGoals
  /\ cur \in 0..created
  /\ file = NoFile \/ file \in FileSet
  /\ failObs \in BOOLEAN
  /\ result = NoResult \/ result \in ResultSet
  /\ results \in Nat
  /\ handler \in [Sources -> HandlerSet \cup {Idle}]
  /\ agent \in {"idle", "running", "ending"}

\* The file never lags behind a terminal status: a restart cannot reopen a goal.
FileInv ==
  /\ file # NoFile => file.id <= created
  /\ file # NoFile /\ goals[file.id].status \in Terminal
       => file.status = goals[file.id].status

\* Boundaries hold goals that were created, and agent_end awaits its own: another
\* round starts when it is over.
HandlerInv ==
  /\ agent # "ending" => handler["agent"] = Idle
  /\ \A b \in Sources : handler[b].g <= created

\* The goals to come are idle.
FreshInv == \A i \in Goals : i > created => goals[i].status = "idle"

\* "Never a stuck state", the safety half: a goal in verifying is held by a
\* boundary that still awaits its verdict.
Holds(b, i) == handler[b].pc \in Judging /\ handler[b].g = i
VerifyingIsHeld ==
  \A i \in Goals : goals[i].status = "verifying" => \E b \in Sources : Holds(b, i)

GInv == /\ GTypeOK /\ FileInv /\ HandlerInv /\ FreshInv
        /\ OrphansStopped /\ RecoveredNeedsUser /\ VerifyingIsHeld

-----------------------------------------------------------------------------
(***************************************************************************)
(* What a boundary does to the goal it holds                               *)
(***************************************************************************)

\* An outcome for a goal that was in status s: a stopped goal keeps its status,
\* and a terminal status that is new is persisted.
Good(s, o) ==
  /\ o.goal \in GoalSet
  /\ o.pc \in Awaits \cup {"idle"}
  /\ o.save \in BOOLEAN
  /\ o.obs \in BOOLEAN
  /\ s \notin Running \cup {"waiting"} => o.goal.status = s
  /\ o.goal.status \in Terminal => o.goal.status = s \/ o.save

\* A boundary that is over, or about to continue the agent, leaves no goal in
\* verifying.
Leaves(o) == o.goal.status = "verifying" => o.pc \in Judging

\* Of the statuses a boundary moves a goal to, the table allows each exactly from
\* the running ones.
LEMMA BoundaryTargets ==
  ASSUME NEW s \in Statuses, NEW to \in {"completed", "budget-limited", "waiting"}
  PROVE  Allowed(s, to) <=> s = to \/ s \in Running
  BY DEF Allowed, Table, Statuses, Running, Terminal

\* complete, budgetLimit and enterWaiting: a good outcome, never in verifying, and
\* persisted when the goal was running.
LEMMA MoveToGood ==
  ASSUME NEW g \in GoalSet, NEW to \in {"completed", "budget-limited", "waiting"},
         NEW obs \in BOOLEAN
  PROVE  /\ Good(g.status, MoveTo(g, to, obs))
         /\ MoveTo(g, to, obs).goal.status # "verifying"
         /\ g.status \in Running => MoveTo(g, to, obs).save
  <1> DEFINE m == [g EXCEPT !.status = to,
                            !.wait = CASE to = "waiting" -> "evidence"
                                       [] to = "completed" -> "none"
                                       [] OTHER -> @]
  <1>1. g.status \in Statuses
    BY DEF GoalSet
  <1>2. Allowed(g.status, to) <=> g.status = to \/ g.status \in Running
    BY <1>1, BoundaryTargets
  <1>3. m \in GoalSet /\ m.status = to
    BY DEF GoalSet, Statuses, Terminal
  <1>4. CASE Allowed(g.status, to)
    <2>1. MoveTo(g, to, obs) = Outcome(m, "idle", TRUE, obs)
      BY <1>4 DEF MoveTo
    <2> HIDE DEF m
    <2>2. QED
      BY <1>1, <1>2, <1>3, <1>4, <2>1 DEF Good, Outcome, Running
  <1>5. CASE ~Allowed(g.status, to)
    <2>1. MoveTo(g, to, obs) = Outcome(g, "idle", FALSE, obs)
      BY <1>5 DEF MoveTo
    <2>2. QED
      BY <1>1, <1>2, <1>5, <2>1 DEF Good, Outcome, Running
  <1>6. QED
    BY <1>4, <1>5

\* A boundary without a verdict leaves verifying and nothing else.
LEMMA NormalisedGood ==
  ASSUME NEW g \in GoalSet
  PROVE  /\ Normalised(g) \in GoalSet
         /\ Normalised(g).status = IF g.status = "verifying" THEN "active" ELSE g.status
  BY DEF Normalised, GoalSet, Statuses

\* enqueueRepair: good outcomes within the rounds; what its caller persisted stays
\* persisted; with a result to act on the goal does not stay in verifying.
LEMMA EnqueueRepairGood ==
  ASSUME NEW g \in GoalSet, NEW obs \in BOOLEAN, NEW save \in BOOLEAN,
         NEW o \in EnqueueRepair(g, obs, save)
  PROVE  /\ Good(g.status, o)
         /\ save /\ o.goal.status \in Terminal => o.save
         /\ g.repair => Leaves(o)
         /\ o.goal.status = "verifying" => g.status = "verifying"
         /\ o.pc \in {"idle", "send"}
  <1> USE RoundsAssumption
  <1>0. g.status \in Statuses /\ g.round \in 0..MaxRounds /\ g.repair \in BOOLEAN
    BY DEF GoalSet
  <1>1. CASE o = Outcome(g, "idle", save, obs) /\ (g.status \notin Running \/ ~g.repair)
    BY <1>0, <1>1 DEF Good, Leaves, Outcome, Running, Terminal
  <1>2. CASE o = Outcome(Normalised(g), "idle", TRUE, obs) /\ g.status \in Running
    BY <1>0, <1>2, NormalisedGood DEF Good, Leaves, Outcome, Running, Terminal
  <1>3. CASE o = MoveTo(g, "budget-limited", obs) /\ g.status \in Running
    <2>1. /\ Good(g.status, o) /\ o.goal.status # "verifying" /\ o.save
      BY <1>3, MoveToGood
    <2>2. o.pc = "idle"
      BY <1>3 DEF MoveTo, Outcome
    <2>3. QED
      BY <2>1, <2>2 DEF Leaves
  <1>4. CASE /\ o = Outcome([g EXCEPT !.status = "repairing", !.round = @ + 1], "send", TRUE, obs)
             /\ g.status \in Running /\ g.round + 1 <= MaxRounds
    <2> DEFINE k == g.round + 1
               m == [g EXCEPT !.status = "repairing", !.round = k]
    <2>1. k \in 0..MaxRounds
      BY <1>0, <1>4
    <2>2. o = Outcome(m, "send", TRUE, obs)
      BY <1>4
    <2> HIDE DEF k
    <2>3. m \in GoalSet /\ m.status = "repairing"
      BY <2>1 DEF GoalSet, Statuses
    <2>4. g.status \in Running
      BY <1>4
    <2> HIDE DEF m
    <2>5. o.goal = m /\ o.pc = "send" /\ o.save = TRUE /\ o.obs = obs
      BY <2>2 DEF Outcome
    <2>6. QED
      BY <2>3, <2>4, <2>5 DEF Good, Leaves, Running, Terminal, Awaits
  <1>5. QED
    <2>1. CASE g.status \notin Running
      BY <1>1, <2>1 DEF EnqueueRepair
    <2>2. CASE g.status \in Running /\ ~(g.round + 1 > MaxRounds)
      <3>1. g.round + 1 <= MaxRounds
        BY <1>0, <2>2
      <3>2. QED
        BY <1>1, <1>2, <1>3, <1>4, <2>2, <3>1 DEF EnqueueRepair
    <2>3. CASE g.status \in Running /\ g.round + 1 > MaxRounds
      BY <1>2, <1>3, <2>3 DEF EnqueueRepair
    <2>4. QED
      BY <2>1, <2>2, <2>3

\* handleFail: good outcomes; a goal that has a FAIL does not stay in verifying.
LEMMA HandleFailGood ==
  ASSUME NEW g \in GoalSet, g.repair, NEW o \in HandleFail(g)
  PROVE  Good(g.status, o) /\ Leaves(o)
  <1>1. CASE o \in EnqueueRepair(g, TRUE, TRUE)
    BY <1>1, EnqueueRepairGood
  <1>2. CASE o = MoveTo(g, "budget-limited", TRUE)
    BY <1>2, MoveToGood DEF Leaves
  <1>3. QED
    BY <1>1, <1>2 DEF HandleFail

\* handleInconclusive: good outcomes; a goal that stays in verifying awaits tests.
LEMMA HandleInconclusiveGood ==
  ASSUME NEW g \in GoalSet, failObs \in BOOLEAN, NEW o \in HandleInconclusive(g)
  PROVE  Good(g.status, o) /\ Leaves(o)
  <1>1. CASE o = MoveTo(g, "waiting", failObs) \/ o = MoveTo(g, "budget-limited", failObs)
    BY <1>1, MoveToGood DEF Leaves
  <1>2. CASE o = Outcome([g EXCEPT !.evidenceRound = g.round], "evidence", FALSE, failObs)
    <2> DEFINE m == [g EXCEPT !.evidenceRound = g.round]
    <2>1. m \in GoalSet /\ m.status = g.status
      BY RoundsAssumption DEF GoalSet
    <2> HIDE DEF m
    <2>2. o = Outcome(m, "evidence", FALSE, failObs)
      BY <1>2 DEF m
    <2>3. QED
      BY <2>1, <2>2 DEF Good, Leaves, Outcome, Awaits, Judging
  <1>3. QED
    BY <1>1, <1>2 DEF HandleInconclusive

\* Consuming a result changes neither the status nor the round.
LEMMA ConsumedGood ==
  ASSUME NEW g \in GoalSet, result \in ResultSet
  PROVE  /\ Consumed(g) \in GoalSet
         /\ Consumed(g).status = g.status
         /\ result.verdict = "fail" => Consumed(g).repair
  <1>1. /\ result.id \in Nat /\ result.verdict \in {"pass", "fail", "inconclusive"}
        /\ g.repair \in BOOLEAN
    BY DEF ResultSet, GoalSet
  <1>2. QED
    BY <1>1 DEF Consumed, GoalSet

\* Acting on a verdict: good outcomes, and verifying is left unless tests are awaited.
LEMMA JudgeGood ==
  ASSUME NEW g \in GoalSet, result \in ResultSet, failObs \in BOOLEAN, NEW o \in Judge(g)
  PROVE  Good(g.status, o) /\ Leaves(o)
  <1> DEFINE c == Consumed(g)
  <1>1. c \in GoalSet /\ c.status = g.status /\ (result.verdict = "fail" => c.repair)
    BY ConsumedGood
  <1>2. result.verdict \in {"pass", "fail", "inconclusive"}
    BY DEF ResultSet
  <1> HIDE DEF c
  <1>3. CASE result.verdict = "pass"
    <2>1. o = MoveTo(c, "completed", failObs)
      BY <1>3 DEF Judge, c
    <2>2. QED
      BY <1>1, <2>1, MoveToGood DEF Leaves
  <1>4. CASE result.verdict = "fail"
    <2>1. o \in HandleFail(c)
      BY <1>4 DEF Judge, c
    <2>2. QED
      BY <1>1, <1>4, <2>1, HandleFailGood
  <1>5. CASE result.verdict = "inconclusive"
    <2>1. o \in HandleInconclusive(c)
      BY <1>5 DEF Judge, c
    <2>2. QED
      BY <1>1, <1>5, <2>1, HandleInconclusiveGood
  <1>6. QED
    BY <1>2, <1>3, <1>4, <1>5

\* A boundary that ends with a note.
LEMMA NotedGood ==
  ASSUME NEW g \in GoalSet, failObs \in BOOLEAN, g.status \in Statuses
  PROVE  Good(g.status, Noted(g)) /\ Leaves(Noted(g))
  BY NormalisedGood DEF Good, Leaves, Noted, Outcome, Running, Terminal

\* The current result, when it is there to be consumed.
LEMMA ConsumableResult ==
  ASSUME result = NoResult \/ result \in ResultSet, NEW g, Consumable(g)
  PROVE  result \in ResultSet
  BY DEF Consumable

\* handleBoundary up to its first await.
LEMMA HandleBoundaryGood ==
  ASSUME NEW g \in GoalSet, failObs \in BOOLEAN, result = NoResult \/ result \in ResultSet,
         NEW o \in HandleBoundary(g)
  PROVE  /\ Good(g.status, o)
         /\ g.status # "verifying" => Leaves(o)
         /\ Leaves(o) \/ o.goal.status = g.status
  <1>0. g.status \in Statuses
    BY DEF GoalSet
  <1>1. CASE o = Outcome(g, "idle", FALSE, failObs) /\ g.status \notin {"active", "repairing"}
    BY <1>0, <1>1 DEF Good, Leaves, Outcome
  <1>2. CASE o = Noted(g)
    BY <1>0, <1>2, NotedGood DEF Leaves
  <1>3. CASE Consumable(g) /\ o \in Judge(g)
    BY <1>3, JudgeGood, ConsumableResult DEF Leaves
  <1>4. CASE /\ o = Outcome([g EXCEPT !.status = "verifying"], "verify", FALSE, failObs)
             /\ g.status \in {"active", "repairing"}
    <2> DEFINE m == [g EXCEPT !.status = "verifying"]
    <2>1. m \in GoalSet /\ m.status = "verifying"
      BY DEF GoalSet, Statuses
    <2> HIDE DEF m
    <2>2. o = Outcome(m, "verify", FALSE, failObs)
      BY <1>4 DEF m
    <2>3. QED
      BY <1>4, <2>1, <2>2 DEF Good, Leaves, Outcome, Awaits, Judging, Running, Terminal
  <1>5. QED
    BY <1>1, <1>2, <1>3, <1>4 DEF HandleBoundary

-----------------------------------------------------------------------------
(***************************************************************************)
(* Steps that write one goal                                               *)
(***************************************************************************)

\* No goal leaves a terminal status but to be forgotten.
Final == \A i \in Goals : goals[i].status \in Terminal
                            => goals'[i].status \in {goals[i].status, "idle"}

\* Goal i becomes g: a terminal status is kept and is in the file, and a goal the
\* session has let go of is not started.
Write(i, g) ==
  /\ i \in 1..created /\ g \in GoalSet
  /\ goals' = [goals EXCEPT ![i] = g]
  /\ created' = created /\ cur' = cur
  /\ goals[i].status \in Terminal => g.status = goals[i].status
  /\ i # cur => g.status \notin Running \cup {"waiting"}
  /\ \/ /\ file' \in FileSet /\ file'.id = i
        /\ g.status \in Terminal => file'.status = g.status
     \/ /\ file' = file
        /\ g.status \in Terminal => g.status = goals[i].status

\* What persistGoal writes.
LEMMA SavedType ==
  ASSUME NEW i \in Goals, NEW g \in GoalSet
  PROVE  /\ Saved(i, g) \in FileSet
         /\ Saved(i, g).id = i
         /\ Saved(i, g).status = g.status
  BY DEF Saved, FileSet, GoalSet

\* The file of a session names a goal.
LEMMA FileIsGoal ==
  ASSUME file \in FileSet
  PROVE  file.id \in Goals /\ file # NoFile
  BY BoundsAssumption DEF FileSet, NoFile, Goals

\* Writing a goal keeps what the file, the other goals and the orphans need.
LEMMA WriteKeeps ==
  ASSUME GTypeOK, FileInv, FreshInv, OrphansStopped, NEW i, NEW g, Write(i, g)
  PROVE  /\ goals' \in [Goals -> GoalSet]
         /\ created' \in 0..MaxGoals /\ cur' \in 0..created'
         /\ file' = NoFile \/ file' \in FileSet
         /\ FileInv' /\ FreshInv' /\ OrphansStopped' /\ Final
  <1> USE BoundsAssumption
  <1>1. i \in Goals /\ i <= created /\ created \in 0..MaxGoals
    BY DEF Write, GTypeOK, Goals
  <1>2. /\ goals \in [Goals -> GoalSet] /\ goals' = [goals EXCEPT ![i] = g]
        /\ g \in GoalSet
    BY DEF GTypeOK, Write
  <1>3. /\ goals' \in [Goals -> GoalSet]
        /\ goals'[i] = g
        /\ \A j \in Goals : j # i => goals'[j] = goals[j]
    BY <1>1, <1>2
  <1>4. /\ created' \in 0..MaxGoals /\ cur' \in 0..created'
        /\ file' = NoFile \/ file' \in FileSet
    BY DEF GTypeOK, Write
  <1>5. FileInv'
    <2>1. CASE file' \in FileSet /\ file'.id = i /\ (g.status \in Terminal => file'.status = g.status)
      <3>1. created' = created
        BY DEF Write
      <3>2. QED
        BY <1>1, <1>3, <2>1, <3>1 DEF FileInv
    <2>2. CASE file' = file /\ (g.status \in Terminal => g.status = goals[i].status)
      <3>1. created' = created
        BY DEF Write
      <3>2. CASE file = NoFile
        BY <2>2, <3>2 DEF FileInv, NoFile
      <3>3. CASE file \in FileSet
        <4>1. file.id \in Goals
          BY <3>3, FileIsGoal
        <4>2. QED
          BY <1>3, <2>2, <3>1, <4>1 DEF FileInv
      <3>4. QED
        BY <3>2, <3>3 DEF GTypeOK
    <2>3. QED
      BY <2>1, <2>2 DEF Write
  <1>6. FreshInv'
    BY <1>1, <1>3 DEF FreshInv, Write, Goals
  <1>7. OrphansStopped'
    BY <1>1, <1>3 DEF OrphansStopped, Write
  <1>8. Final
    BY <1>1, <1>3 DEF Final, Write
  <1>9. QED
    BY <1>3, <1>4, <1>5, <1>6, <1>7, <1>8

\* A boundary that runs to a good outcome writes its goal.
LEMMA ApplyWrites ==
  ASSUME GInv, NEW b \in Sources, NEW i \in 1..created, NEW o,
         Good(goals[i].status, o), Apply(b, i, o), created' = created, cur' = cur
  PROVE  /\ Write(i, o.goal)
         /\ handler' \in [Sources -> HandlerSet \cup {Idle}]
         /\ HandlerInv'
         /\ failObs' \in BOOLEAN
         /\ agent' \in {"idle", "running", "ending"}
  <1> USE BoundsAssumption
  <1>0. i \in Goals /\ GTypeOK /\ HandlerInv /\ OrphansStopped /\ created \in Nat
    BY DEF GInv, GTypeOK, Goals
  <1>1. Write(i, o.goal)
    <2>1. o.goal \in GoalSet /\ goals[i] \in GoalSet
      BY <1>0 DEF Good, GTypeOK
    <2>2. goals' = [goals EXCEPT ![i] = o.goal]
      BY DEF Apply
    <2>3. goals[i].status \in Terminal => o.goal.status = goals[i].status
      BY DEF Good, Terminal, Running
    <2>4. i # cur => o.goal.status \notin Running \cup {"waiting"}
      BY <1>0 DEF Good, OrphansStopped
    <2>5. \/ /\ file' \in FileSet /\ file'.id = i
             /\ o.goal.status \in Terminal => file'.status = o.goal.status
          \/ /\ file' = file
             /\ o.goal.status \in Terminal => o.goal.status = goals[i].status
      <3>1. CASE o.save
        BY <1>0, <2>1, <3>1, SavedType DEF Apply
      <3>2. CASE ~o.save
        BY <3>2 DEF Apply, Good
      <3>3. QED
        BY <3>1, <3>2
    <2>6. QED
      BY <2>1, <2>2, <2>3, <2>4, <2>5 DEF Write
  <1> DEFINE h == IF o.pc = "idle" THEN Idle ELSE [pc |-> o.pc, g |-> i]
  <1>2. h \in HandlerSet \cup {Idle} /\ h.g <= created /\ (h # Idle => o.pc # "idle")
    <2>1. o.pc # "idle" => o.pc \in Awaits
      BY DEF Good
    <2>2. CASE o.pc = "idle"
      BY <1>0, <2>2 DEF Idle
    <2>3. CASE o.pc # "idle"
      BY <1>0, <2>1, <2>3 DEF HandlerSet, Goals
    <2>4. QED
      BY <2>2, <2>3
  <1>3. handler' = [handler EXCEPT ![b] = h]
    BY DEF Apply
  <1> HIDE DEF h
  <1>4. /\ handler' \in [Sources -> HandlerSet \cup {Idle}]
        /\ handler'[b] = h /\ \A c \in Sources : c # b => handler'[c] = handler[c]
    BY <1>0, <1>2, <1>3 DEF GTypeOK
  <1>5. failObs' \in BOOLEAN
    BY DEF Apply, Good
  <1>6. agent' \in {"idle", "running", "ending"}
    BY <1>0 DEF Apply, GTypeOK
  <1>7. agent' # "ending" => handler'["agent"] = Idle
    <2>1. CASE b = "agent"
      BY <1>2, <1>4, <2>1 DEF Apply
    <2>2. CASE b # "agent"
      BY <1>0, <1>4, <2>2 DEF Apply, HandlerInv, Sources
    <2>3. QED
      BY <2>1, <2>2
  <1>8. \A c \in Sources : handler'[c].g <= created'
    BY <1>0, <1>2, <1>4 DEF HandlerInv
  <1>9. QED
    BY <1>1, <1>4, <1>5, <1>6, <1>7, <1>8 DEF HandlerInv

\* A boundary that leaves verifying, or that did not hold the goal, leaves every
\* goal in verifying to a boundary that holds it.
LEMMA ApplyHolds ==
  ASSUME GTypeOK, VerifyingIsHeld, NEW b \in Sources, NEW i \in Goals, NEW o,
         Apply(b, i, o),
         handler[b] = Idle \/ handler[b].g = i,
         \/ Leaves(o)
         \/ o.goal.status = goals[i].status /\ handler[b].pc \notin Judging
  PROVE  VerifyingIsHeld'
  <1> DEFINE h == IF o.pc = "idle" THEN Idle ELSE [pc |-> o.pc, g |-> i]
  <1>1. handler' = [handler EXCEPT ![b] = h] /\ goals' = [goals EXCEPT ![i] = o.goal]
    BY DEF Apply
  <1>2. o.pc \in Judging => h.pc \in Judging /\ h.g = i
    BY DEF Judging
  <1> HIDE DEF h
  <1>3. /\ handler'[b] = h /\ \A c \in Sources : c # b => handler'[c] = handler[c]
        /\ goals'[i] = o.goal /\ \A j \in Goals : j # i => goals'[j] = goals[j]
    BY <1>1 DEF GTypeOK
  <1>4. SUFFICES ASSUME NEW j \in Goals, goals'[j].status = "verifying"
                 PROVE  \E c \in Sources : Holds(c, j)'
    BY DEF VerifyingIsHeld
  <1>5. CASE j # i
    <2>1. PICK c \in Sources : Holds(c, j)
      BY <1>3, <1>4, <1>5 DEF VerifyingIsHeld
    <2>2. c # b
      BY <1>5, <2>1 DEF Holds, Idle, Judging
    <2>3. QED
      BY <1>3, <2>1, <2>2 DEF Holds
  <1>6. CASE j = i /\ Leaves(o)
    BY <1>2, <1>3, <1>4, <1>6 DEF Leaves, Holds
  <1>7. CASE j = i /\ o.goal.status = goals[i].status /\ handler[b].pc \notin Judging
    <2>1. PICK c \in Sources : Holds(c, j)
      BY <1>3, <1>4, <1>7 DEF VerifyingIsHeld
    <2>2. c # b
      BY <1>7, <2>1 DEF Holds
    <2>3. QED
      BY <1>3, <2>1, <2>2 DEF Holds
  <1>8. QED
    BY <1>5, <1>6, <1>7

-----------------------------------------------------------------------------
(***************************************************************************)
(* The invariant                                                           *)
(***************************************************************************)

\* A session without a goal satisfies the invariant.
LEMMA InitInv == Init => GInv
  <1> SUFFICES ASSUME Init PROVE GInv
    OBVIOUS
  <1> USE BoundsAssumption, RoundsAssumption
  <1>1. NoGoal \in GoalSet /\ NoGoal.status = "idle"
    BY DEF NoGoal, GoalSet, Statuses
  <1>2. goals \in [Goals -> GoalSet] /\ \A i \in Goals : goals[i].status = "idle"
    BY <1>1 DEF Init
  <1>3. GTypeOK
    <2>1. handler \in [Sources -> HandlerSet \cup {Idle}]
      BY DEF Init
    <2>2. created \in 0..MaxGoals /\ cur \in 0..created /\ results \in Nat
      BY DEF Init
    <2>3. failObs \in BOOLEAN /\ file = NoFile /\ result = NoResult /\ agent = "idle"
      BY Zenon DEF Init
    <2>4. QED
      BY <1>2, <2>1, <2>2, <2>3 DEF GTypeOK
  <1>4. FileInv /\ FreshInv
    BY <1>2 DEF FileInv, FreshInv, Init, NoFile
  <1>5. HandlerInv
    BY DEF HandlerInv, Init, Idle, Sources
  <1>6. OrphansStopped /\ VerifyingIsHeld
    BY <1>2 DEF OrphansStopped, VerifyingIsHeld, Running
  <1>7. RecoveredNeedsUser
    BY DEF RecoveredNeedsUser, Init, Status, Running, Sources
  <1>8. QED
    BY <1>3, <1>4, <1>5, <1>6, <1>7 DEF GInv

\* Steps that touch neither goals nor boundaries.
LEMMA QuietKeeps ==
  ASSUME GInv, UNCHANGED <<goalVars, handler, resumed>>,
         result' = NoResult \/ result' \in ResultSet, results' \in Nat,
         agent' \in {"idle", "running"} \/ agent' = agent,
         agent' # "ending" => agent # "ending" \/ handler["agent"] = Idle
  PROVE  GInv' /\ Final
  <1>1. /\ goals' = goals /\ created' = created /\ cur' = cur /\ file' = file
        /\ failObs' = failObs /\ handler' = handler /\ resumed' = resumed
    BY DEF goalVars
  <1>2. GTypeOK'
    BY <1>1 DEF GInv, GTypeOK
  <1>3. FileInv' /\ FreshInv' /\ HandlerInv'
    BY <1>1 DEF GInv, FileInv, FreshInv, HandlerInv
  <1>4. OrphansStopped' /\ VerifyingIsHeld' /\ RecoveredNeedsUser'
    BY <1>1 DEF GInv, OrphansStopped, VerifyingIsHeld, Holds, RecoveredNeedsUser, Status
  <1>5. Final
    BY <1>1 DEF Final
  <1>6. QED
    BY <1>2, <1>3, <1>4, <1>5 DEF GInv

\* Verification results, the agent's run and a question nobody waits for.
LEMMA QuietSteps ==
  ASSUME GInv,
         \/ \E v \in {"pass", "fail", "inconclusive"}, stale \in BOOLEAN : ResultPublished(v, stale)
         \/ ResultStales \/ AgentStarts \/ AgentEndsIgnored \/ QuestionClosed
  PROVE  GInv' /\ Final
  <1>0. GTypeOK /\ HandlerInv
    BY DEF GInv
  <1>1. ASSUME NEW v \in {"pass", "fail", "inconclusive"}, NEW stale \in BOOLEAN,
               ResultPublished(v, stale)
        PROVE  GInv' /\ Final
    <2>1. result' \in ResultSet /\ results' \in Nat
      BY <1>0, <1>1 DEF ResultPublished, ResultSet, GTypeOK
    <2>2. QED
      BY <1>1, <2>1, QuietKeeps DEF ResultPublished, sessionVars
  <1>2. ASSUME ResultStales PROVE GInv' /\ Final
    <2>1. result' \in ResultSet /\ results' \in Nat
      BY <1>0, <1>2 DEF ResultStales, ResultSet, GTypeOK
    <2>2. QED
      BY <1>2, <2>1, QuietKeeps DEF ResultStales, sessionVars
  <1>3. ASSUME AgentStarts \/ AgentEndsIgnored \/ QuestionClosed PROVE GInv' /\ Final
    <2>1. UNCHANGED <<goalVars, handler, resumed, result, results>>
      BY <1>3 DEF AgentStarts, AgentEndsIgnored, QuestionClosed, resultVars
    <2>2. /\ agent' \in {"idle", "running"} \/ agent' = agent
          /\ agent' # "ending" => agent # "ending"
      BY <1>3 DEF AgentStarts, AgentEndsIgnored, QuestionClosed
    <2>3. /\ result' = NoResult \/ result' \in ResultSet
          /\ results' \in Nat
      BY <1>0, <2>1 DEF GTypeOK
    <2>4. QED
      BY <2>1, <2>2, <2>3, QuietKeeps
  <1>4. QED
    BY <1>1, <1>2, <1>3

\* A boundary step of a running goal, or of a boundary that is suspended.
LEMMA BoundaryKeeps ==
  ASSUME GInv, NEW b \in Sources, NEW i \in 1..created, NEW o,
         Good(goals[i].status, o), Apply(b, i, o),
         handler[b] = Idle \/ handler[b].g = i,
         \/ Leaves(o)
         \/ o.goal.status = goals[i].status /\ handler[b].pc \notin Judging,
         handler[b] # Idle \/ Status \in Running,
         UNCHANGED <<created, cur, resultVars, question, disposed, resumed>>
  PROVE  GInv' /\ Final
  <1>0. /\ GTypeOK /\ FileInv /\ FreshInv /\ OrphansStopped /\ VerifyingIsHeld
        /\ RecoveredNeedsUser /\ i \in Goals
    BY BoundsAssumption DEF GInv, GTypeOK, Goals
  <1>1. /\ Write(i, o.goal) /\ HandlerInv'
        /\ handler' \in [Sources -> HandlerSet \cup {Idle}]
        /\ failObs' \in BOOLEAN /\ agent' \in {"idle", "running", "ending"}
    BY ApplyWrites
  <1>2. /\ goals' \in [Goals -> GoalSet]
        /\ created' \in 0..MaxGoals /\ cur' \in 0..created'
        /\ file' = NoFile \/ file' \in FileSet
        /\ FileInv' /\ FreshInv' /\ OrphansStopped' /\ Final
    BY <1>0, <1>1, WriteKeeps
  <1>3. VerifyingIsHeld'
    BY <1>0, ApplyHolds
  <1>4. resumed /\ resumed' = resumed
    BY <1>0 DEF RecoveredNeedsUser
  <1>5. GTypeOK'
    BY <1>0, <1>1, <1>2 DEF GTypeOK, resultVars
  <1>6. QED
    BY <1>1, <1>2, <1>3, <1>4, <1>5 DEF GInv, RecoveredNeedsUser

\* agent_end and the task graph begin a boundary of the current goal.
LEMMA BoundaryBegins ==
  ASSUME GInv, AgentEnds \/ TasksSettle
  PROVE  GInv' /\ Final
  <1>0. GTypeOK /\ HandlerInv /\ Status \in Running
    BY DEF GInv, AgentEnds, TasksSettle
  <1>1. cur \in 1..created /\ goals[cur].status \in Running /\ cur \in Goals
    BY <1>0, BoundsAssumption DEF Status, Running, GTypeOK, Goals
  <1>2. goals[cur] \in GoalSet
    BY <1>0, <1>1 DEF GTypeOK
  <1>3. PICK g \in GoalSet, b \in Sources :
          /\ g.status = goals[cur].status /\ handler[b] = Idle
          /\ \E o \in HandleBoundary(g) : Apply(b, cur, o)
    <2>1. CASE AgentEnds
      <3> DEFINE m == [goals[cur] EXCEPT !.pending = FALSE]
      <3>1. m \in GoalSet /\ m.status = goals[cur].status
        BY <1>2 DEF GoalSet
      <3>2. \E o \in HandleBoundary(m) : Apply("agent", cur, o)
        BY <2>1 DEF AgentEnds
      <3>3. handler["agent"] = Idle
        BY <1>0, <2>1 DEF HandlerInv, AgentEnds
      <3> HIDE DEF m
      <3>4. QED
        BY <3>1, <3>2, <3>3 DEF Sources
    <2>2. CASE TasksSettle
      BY <1>2, <2>2 DEF TasksSettle, Sources
    <2>3. QED
      BY <2>1, <2>2
  <1> PICK o \in HandleBoundary(g) : Apply(b, cur, o)
    BY <1>3
  <1>4. /\ Good(goals[cur].status, o)
        /\ Leaves(o) \/ o.goal.status = goals[cur].status
    BY <1>0, <1>3, HandleBoundaryGood DEF GTypeOK
  <1>5. handler[b].pc \notin Judging
    BY <1>3 DEF Idle, Judging
  <1>6. UNCHANGED <<created, cur, resultVars, question, disposed, resumed>>
    BY DEF AgentEnds, TasksSettle
  <1>7. QED
    BY <1>0, <1>1, <1>3, <1>4, <1>5, <1>6, BoundaryKeeps

\* A suspended boundary goes on.
LEMMA HandlerSteps ==
  ASSUME GInv, NEW b \in Sources, HandlerStep(b)
  PROVE  GInv' /\ Final
  <1> DEFINE i == handler[b].g
             g == goals[i]
  <1>0. GTypeOK /\ HandlerInv
    BY DEF GInv
  <1>1. handler[b] # Idle
    <2>1. handler[b].pc \in Awaits
      BY DEF HandlerStep, VerifyReturns, EvidenceReturns, RecheckReturns, SendReturns, Awaits
    <2>2. QED
      BY <2>1 DEF Idle, Awaits
  <1>2. i \in Goals /\ i \in 1..created
    BY <1>0, <1>1, BoundsAssumption DEF GTypeOK, HandlerSet, HandlerInv, Goals
  <1>3. g \in GoalSet /\ g.status \in Statuses
    BY <1>0, <1>2 DEF GTypeOK, GoalSet
  <1>4. UNCHANGED <<created, cur, resultVars, question, disposed, resumed>>
    BY DEF HandlerStep, VerifyReturns, EvidenceReturns, RecheckReturns, SendReturns
  <1>5. SUFFICES \E o : /\ Good(g.status, o) /\ Apply(b, i, o)
                        /\ \/ Leaves(o)
                           \/ o.goal.status = g.status /\ handler[b].pc \notin Judging
    BY <1>1, <1>2, <1>4, BoundaryKeeps
  <1>6. CASE VerifyReturns(b)
    <2>1. PICK o \in IF Consumable(g) THEN Judge(g) ELSE {Noted(g)} : Apply(b, i, o)
      BY <1>6 DEF VerifyReturns, held
    <2>2. Good(g.status, o) /\ Leaves(o)
      <3>1. CASE Consumable(g)
        BY <1>0, <1>3, <2>1, <3>1, JudgeGood, ConsumableResult DEF GTypeOK
      <3>2. CASE ~Consumable(g)
        BY <1>0, <1>3, <2>1, <3>2, NotedGood DEF GTypeOK
      <3>3. QED
        BY <3>1, <3>2
    <2>3. QED
      BY <2>1, <2>2
  <1>7. ASSUME NEW ran \in BOOLEAN, EvidenceReturns(b, ran)
        PROVE  \E o : /\ Good(g.status, o) /\ Apply(b, i, o)
                      /\ \/ Leaves(o)
                         \/ o.goal.status = g.status /\ handler[b].pc \notin Judging
    <2>1. PICK o : /\ o = IF ran THEN Outcome(g, "recheck", FALSE, failObs)
                                 ELSE MoveTo(g, "waiting", failObs)
                   /\ Apply(b, i, o)
      BY <1>7 DEF EvidenceReturns, held
    <2>2. Good(g.status, o) /\ Leaves(o)
      <3>1. CASE ran
        BY <1>0, <1>3, <2>1, <3>1 DEF Good, Leaves, Outcome, Awaits, Judging, GTypeOK
      <3>2. CASE ~ran
        BY <1>0, <1>3, <2>1, <3>2, MoveToGood DEF Leaves, GTypeOK
      <3>3. QED
        BY <3>1, <3>2
    <2>3. QED
      BY <2>1, <2>2
  <1>8. ASSUME NEW ok \in BOOLEAN, RecheckReturns(b, ok)
        PROVE  \E o : /\ Good(g.status, o) /\ Apply(b, i, o)
                      /\ \/ Leaves(o)
                         \/ o.goal.status = g.status /\ handler[b].pc \notin Judging
    <2> DEFINE fresh == ok /\ Consumable(g)
    <2>1. PICK o \in IF fresh /\ result.verdict # "inconclusive" THEN Judge(g)
                     ELSE {MoveTo(IF fresh THEN Consumed(g) ELSE g, "waiting", failObs)} :
            Apply(b, i, o)
      BY <1>8 DEF RecheckReturns, held
    <2>2. Good(g.status, o) /\ Leaves(o)
      <3>1. CASE fresh /\ result.verdict # "inconclusive"
        BY <1>0, <1>3, <2>1, <3>1, JudgeGood, ConsumableResult DEF GTypeOK
      <3>2. CASE fresh /\ ~(result.verdict # "inconclusive")
        <4> DEFINE c == Consumed(g)
        <4>1. c \in GoalSet /\ c.status = g.status
          BY <1>0, <1>3, <3>2, ConsumedGood, ConsumableResult DEF GTypeOK
        <4>2. o = MoveTo(c, "waiting", failObs)
          BY <2>1, <3>2
        <4> HIDE DEF c
        <4>3. QED
          BY <1>0, <4>1, <4>2, MoveToGood DEF Leaves, GTypeOK
      <3>3. CASE ~fresh
        BY <1>0, <1>3, <2>1, <3>3, MoveToGood DEF Leaves, GTypeOK
      <3>4. QED
        BY <3>1, <3>2, <3>3
    <2>3. QED
      BY <2>1, <2>2
  <1>9. ASSUME NEW sent \in BOOLEAN, SendReturns(b, sent)
        PROVE  \E o : /\ Good(g.status, o) /\ Apply(b, i, o)
                      /\ \/ Leaves(o)
                         \/ o.goal.status = g.status /\ handler[b].pc \notin Judging
    <2> DEFINE m == [g EXCEPT !.pending = sent]
    <2>1. PICK o : o = Outcome(m, "idle", ~sent, failObs) /\ Apply(b, i, o)
      BY <1>9 DEF SendReturns, held
    <2>2. m \in GoalSet /\ m.status = g.status
      BY <1>3 DEF GoalSet
    <2> HIDE DEF m
    <2>3. o.goal.status = g.status /\ handler[b].pc \notin Judging
      BY <1>9, <2>1, <2>2 DEF Outcome, SendReturns, Judging
    <2>4. Good(g.status, o)
      BY <1>0, <2>1, <2>2 DEF Good, Outcome, GTypeOK
    <2>5. QED
      BY <2>1, <2>3, <2>4
  <1>10. QED
    BY <1>6, <1>7, <1>8, <1>9 DEF HandlerStep

\* A write of the current goal that takes it out of verifying, or leaves the
\* boundaries that hold it.
LEMMA WriteHolds ==
  ASSUME GTypeOK, VerifyingIsHeld, NEW i \in Goals, NEW g,
         goals' = [goals EXCEPT ![i] = g], handler' = handler, g.status # "verifying"
  PROVE  VerifyingIsHeld'
  <1>1. goals'[i] = g /\ \A j \in Goals : j # i => goals'[j] = goals[j]
    BY DEF GTypeOK
  <1>2. QED
    BY <1>1 DEF VerifyingIsHeld, Holds

\* The current goal is rewritten and persisted, by a command or when its run breaks.
LEMMA RewriteKeeps ==
  ASSUME GInv, NEW g \in GoalSet, cur # 0,
         goals' = [goals EXCEPT ![cur] = g], file' = Saved(cur, g),
         UNCHANGED <<created, cur, failObs, resultVars, handler>>,
         goals[cur].status \notin Terminal, g.status # "verifying",
         agent' \in {"idle", "running", "ending"},
         agent' # "ending" => agent # "ending",
         resumed' \/ (resumed' = resumed /\ g.status \notin Running)
  PROVE  GInv' /\ Final
  <1>0. /\ GTypeOK /\ FileInv /\ FreshInv /\ OrphansStopped /\ VerifyingIsHeld
        /\ RecoveredNeedsUser /\ HandlerInv
    BY DEF GInv
  <1>1. cur \in 1..created /\ cur \in Goals
    BY <1>0, BoundsAssumption DEF GTypeOK, Goals
  <1>2. Write(cur, g)
    BY <1>1, SavedType DEF Write
  <1>3. /\ goals' \in [Goals -> GoalSet]
        /\ created' \in 0..MaxGoals /\ cur' \in 0..created'
        /\ file' = NoFile \/ file' \in FileSet
        /\ FileInv' /\ FreshInv' /\ OrphansStopped' /\ Final
    BY <1>0, <1>2, WriteKeeps
  <1>4. VerifyingIsHeld'
    BY <1>0, <1>1, WriteHolds
  <1>5. RecoveredNeedsUser'
    <2>1. goals'[cur] = g /\ cur' = cur
      BY <1>0, <1>1 DEF GTypeOK
    <2>2. QED
      BY <1>0, <2>1 DEF RecoveredNeedsUser, Status
  <1>6. GTypeOK'
    BY <1>0, <1>3 DEF GTypeOK, resultVars
  <1>7. HandlerInv'
    BY <1>0 DEF HandlerInv
  <1>8. QED
    BY <1>3, <1>4, <1>5, <1>6, <1>7 DEF GInv

\* The broken run, dispose() of a running goal.
LEMMA PauseSteps ==
  ASSUME GInv, AgentEndsBroken \/ Dispose
  PROVE  GInv' /\ Final
  <1>0. GTypeOK /\ HandlerInv
    BY DEF GInv
  <1>1. CASE Status \in Running
    <2> DEFINE g == [goals[cur] EXCEPT !.status = "paused", !.pending = FALSE]
    <2>1. cur # 0 /\ goals[cur].status \in Running
      BY <1>1 DEF Status, Running
    <2>2. cur \in Goals
      BY <1>0, <2>1, BoundsAssumption DEF GTypeOK, Goals
    <2>3. g \in GoalSet /\ g.status = "paused"
      BY <1>0, <2>2 DEF GTypeOK, GoalSet, Statuses
    <2>4. goals' = [goals EXCEPT ![cur] = g]
      BY <1>0, <1>1, <2>2 DEF GTypeOK, AgentEndsBroken, Dispose
    <2>5. file' = Saved(cur, g)
      BY <1>0, <1>1, <2>2, <2>4 DEF GTypeOK, AgentEndsBroken, Dispose
    <2>6. /\ UNCHANGED <<created, cur, failObs, resultVars, handler, resumed>>
          /\ agent' \in {"idle", "running", "ending"}
          /\ agent' # "ending" => agent # "ending"
      BY <1>0 DEF AgentEndsBroken, Dispose, GTypeOK
    <2> HIDE DEF g
    <2>7. QED
      BY <2>1, <2>3, <2>4, <2>5, <2>6, RewriteKeeps DEF Running, Terminal
  <1>2. CASE Status \notin Running
    <2>1. UNCHANGED <<goalVars, handler, resumed, result, results, agent>>
      BY <1>2 DEF AgentEndsBroken, Dispose, goalVars, resultVars
    <2>2. QED
      BY <1>0, <2>1, QuietKeeps DEF GTypeOK
  <1>3. QED
    BY <1>1, <1>2

\* The commands that rewrite the current goal.
LEMMA RewriteSteps ==
  ASSUME GInv, \/ UserMessage \/ Stop \/ Cancel
               \/ QuestionOpens /\ Status \in Running
               \/ QuestionAnswered /\ Status = "waiting" /\ goals[cur].interaction
  PROVE  GInv' /\ Final
  <1>0. GTypeOK /\ HandlerInv
    BY DEF GInv
  <1>1. /\ cur # 0 /\ goals[cur].status \notin Terminal
        /\ goals[cur] \in GoalSet
    <2>1. cur # 0 /\ Status = goals[cur].status
      BY DEF UserMessage, Stop, Cancel, Status, Running
    <2>2. cur \in Goals
      BY <1>0, <2>1, BoundsAssumption DEF GTypeOK, Goals
    <2>3. goals[cur] \in GoalSet
      BY <1>0, <2>2 DEF GTypeOK
    <2>4. ASSUME Cancel PROVE goals[cur].status \notin Terminal
      <3>1. goals[cur].status \in Statuses
        BY <2>3 DEF GoalSet
      <3>2. \A st \in Terminal : Table[st] = {"idle"}
        BY DEF Table, Statuses, Terminal
      <3>3. QED
        BY <2>1, <2>4, <3>1, <3>2 DEF Cancel, Allowed
    <2>5. ASSUME ~Cancel PROVE goals[cur].status \notin Terminal
      BY <2>1, <2>5 DEF UserMessage, Stop, Running, Terminal
    <2>6. QED
      BY <2>1, <2>3, <2>4, <2>5
  <1>2. PICK g \in GoalSet : g.status # "verifying" /\ Rewrite(g)
    <2>1. CASE UserMessage
      <3> DEFINE m == [goals[cur] EXCEPT !.status = "active", !.wait = "none"]
      <3>1. m \in GoalSet /\ m.status = "active"
        BY <1>1 DEF GoalSet, Statuses
      <3>2. Rewrite(m)
        BY <2>1 DEF UserMessage
      <3> HIDE DEF m
      <3>3. QED
        BY <3>1, <3>2
    <2>2. CASE Stop
      <3> DEFINE m == [goals[cur] EXCEPT !.status = "paused", !.pending = FALSE]
      <3>1. m \in GoalSet /\ m.status = "paused"
        BY <1>1 DEF GoalSet, Statuses
      <3>2. Rewrite(m)
        BY <2>2 DEF Stop
      <3> HIDE DEF m
      <3>3. QED
        BY <3>1, <3>2
    <2>3. CASE Cancel
      <3> DEFINE m == [goals[cur] EXCEPT !.status = "cancelled", !.pending = FALSE, !.wait = "none"]
      <3>1. m \in GoalSet /\ m.status = "cancelled"
        BY <1>1 DEF GoalSet, Statuses
      <3>2. Rewrite(m)
        BY <2>3 DEF Cancel
      <3> HIDE DEF m
      <3>3. QED
        BY <3>1, <3>2
    <2>4. CASE QuestionOpens /\ Status \in Running
      <3> DEFINE m == [goals[cur] EXCEPT !.status = "waiting", !.wait = "interaction",
                                         !.interaction = TRUE]
      <3>1. m \in GoalSet /\ m.status = "waiting"
        BY <1>1 DEF GoalSet, Statuses
      <3>2. Rewrite(m)
        BY <2>4 DEF QuestionOpens
      <3> HIDE DEF m
      <3>3. QED
        BY <3>1, <3>2
    <2>5. CASE QuestionAnswered /\ Status = "waiting" /\ goals[cur].interaction
      <3> DEFINE m == [goals[cur] EXCEPT !.status = "active", !.wait = "none",
                                         !.interaction = FALSE]
      <3>1. m \in GoalSet /\ m.status = "active"
        BY <1>1 DEF GoalSet, Statuses
      <3>2. Rewrite(m)
        BY <2>5 DEF QuestionAnswered
      <3> HIDE DEF m
      <3>3. QED
        BY <3>1, <3>2
    <2>6. QED
      BY <2>1, <2>2, <2>3, <2>4, <2>5
  <1>3. UNCHANGED <<resultVars, handler, agent>>
    BY DEF UserMessage, Stop, Cancel, QuestionOpens, QuestionAnswered, userUnchanged
  <1>4. /\ goals' = [goals EXCEPT ![cur] = g] /\ file' = Saved(cur, g) /\ resumed'
        /\ UNCHANGED <<created, cur, failObs>>
    BY <1>2 DEF Rewrite
  <1>5. agent' \in {"idle", "running", "ending"} /\ (agent' # "ending" => agent # "ending")
    BY <1>0, <1>3 DEF GTypeOK
  <1>6. QED
    BY <1>1, <1>2, <1>3, <1>4, <1>5, RewriteKeeps

\* Questions that hold up no goal.
LEMMA QuestionSteps ==
  ASSUME GInv, \/ QuestionOpens /\ Status \notin Running
               \/ QuestionAnswered /\ ~(Status = "waiting" /\ goals[cur].interaction)
  PROVE  GInv' /\ Final
  <1>1. UNCHANGED <<goalVars, handler, resumed, result, results, agent>>
    BY DEF QuestionOpens, QuestionAnswered, resultVars
  <1>2. QED
    BY <1>1, QuietKeeps DEF GInv, GTypeOK

\* promote(): the new goal was idle, the one it replaces is stopped.
LEMMA CreateKeeps ==
  ASSUME GInv, Create
  PROVE  GInv' /\ Final
  <1> USE BoundsAssumption, RoundsAssumption
  <1> DEFINE n == created + 1
  <1>0. /\ GTypeOK /\ FreshInv /\ OrphansStopped /\ VerifyingIsHeld /\ HandlerInv
        /\ created \in 0..MaxGoals /\ cur \in 0..created
    BY DEF GInv, GTypeOK
  <1>1. /\ created < MaxGoals /\ created' = n /\ cur' = n
        /\ goals' = [goals EXCEPT ![n] = NewGoal]
        /\ file' = Saved(n, NewGoal) /\ failObs' = FALSE /\ resumed' = TRUE
    BY DEF Create, Promote
  <1>2. UNCHANGED <<result, results, handler, agent>>
    BY DEF Create, userUnchanged, resultVars
  <1>3. n \in Goals /\ n \in 1..MaxGoals /\ n > created /\ cur # n
    BY <1>0, <1>1 DEF Goals
  <1>4. NewGoal \in GoalSet /\ NewGoal.status = "active"
    <2>1. NoGoal \in GoalSet
      BY DEF NoGoal, GoalSet, Statuses
    <2>2. 1 \in 0..MaxRounds /\ "active" \in Statuses
      BY DEF Statuses
    <2>3. QED
      BY <2>1, <2>2 DEF NewGoal, GoalSet
  <1>5. /\ goals' \in [Goals -> GoalSet] /\ goals'[n] = NewGoal
        /\ \A j \in Goals : j # n => goals'[j] = goals[j]
    BY <1>0, <1>1, <1>3, <1>4 DEF GTypeOK
  <1>6. goals[n].status = "idle"
    BY <1>0, <1>3 DEF FreshInv
  <1>7. file' \in FileSet /\ file'.id = n /\ file'.status = "active"
    BY <1>1, <1>3, <1>4, SavedType
  <1>8. GTypeOK'
    <2>1. created' \in 0..MaxGoals /\ cur' \in 0..created'
      BY <1>1, <1>3
    <2>2. failObs' \in BOOLEAN
      BY <1>1
    <2>3. QED
      BY <1>0, <1>2, <1>5, <1>7, <2>1, <2>2 DEF GTypeOK
  <1>9. FileInv'
    BY <1>1, <1>3, <1>4, <1>5, <1>7 DEF FileInv, Terminal
  <1>10. FreshInv'
    BY <1>0, <1>1, <1>3, <1>5 DEF FreshInv, Goals
  <1>11. OrphansStopped'
    <2>1. cur # 0 => goals[cur].status \notin Running \cup {"waiting"}
      BY DEF Create, Status, Running, Terminal
    <2>2. SUFFICES ASSUME NEW j \in Goals, j # n
                   PROVE  goals'[j].status \notin Running \cup {"waiting"}
      BY <1>1 DEF OrphansStopped
    <2>3. j = cur => cur # 0
      BY <2>2 DEF Goals
    <2>4. QED
      BY <1>0, <1>5, <2>1, <2>2, <2>3 DEF OrphansStopped
  <1>12. VerifyingIsHeld'
    BY <1>0, <1>1, <1>2, <1>3, <1>4, WriteHolds
  <1>13. HandlerInv'
    <2>1. ASSUME NEW b \in Sources PROVE handler[b].g <= n
      <3>1. handler[b].g \in Nat
        BY <1>0 DEF GTypeOK, HandlerSet, Idle, Goals
      <3>2. handler[b].g <= created
        BY <1>0 DEF HandlerInv
      <3>3. QED
        BY <1>0, <3>1, <3>2
    <2>2. QED
      BY <1>0, <1>1, <1>2, <2>1 DEF HandlerInv
  <1>14. Final
    BY <1>5, <1>6, <1>3 DEF Final, Terminal
  <1>15. RecoveredNeedsUser'
    BY <1>1 DEF RecoveredNeedsUser
  <1>16. QED
    BY <1>8, <1>9, <1>10, <1>11, <1>12, <1>13, <1>14, <1>15 DEF GInv

\* clear(): the goal that is let go of is stopped.
LEMMA ClearKeeps ==
  ASSUME GInv, Clear
  PROVE  GInv' /\ Final
  <1>0. /\ GTypeOK /\ FreshInv /\ OrphansStopped /\ VerifyingIsHeld /\ HandlerInv
        /\ RecoveredNeedsUser
    BY DEF GInv
  <1>1. /\ cur' = 0 /\ file' = NoFile /\ failObs' = FALSE /\ goals' = goals
        /\ created' = created /\ handler' = handler /\ resumed' = resumed
        /\ UNCHANGED <<result, results, agent>>
    BY DEF Clear, userUnchanged, resultVars
  <1>2. GTypeOK'
    <2>1. created \in Nat
      BY <1>0, BoundsAssumption DEF GTypeOK
    <2>2. cur' \in 0..created'
      BY <1>1, <2>1
    <2>3. failObs' \in BOOLEAN
      BY <1>1, Zenon
    <2>4. QED
      BY <1>0, <1>1, <2>2, <2>3 DEF GTypeOK
  <1>3. OrphansStopped'
    BY <1>0, <1>1 DEF OrphansStopped, Clear, Status, Running, Terminal
  <1>4. FileInv' /\ FreshInv' /\ HandlerInv' /\ VerifyingIsHeld'
    BY <1>0, <1>1 DEF FileInv, FreshInv, HandlerInv, VerifyingIsHeld, Holds
  <1>5. RecoveredNeedsUser'
    BY <1>0, <1>1 DEF RecoveredNeedsUser, Status, Running
  <1>6. Final
    BY <1>1 DEF Final
  <1>7. QED
    BY <1>2, <1>3, <1>4, <1>5, <1>6 DEF GInv

\* The two awaits resume() may leave behind: what they make of the goal.
LEMMA ResumeGood ==
  ASSUME GTypeOK, NEW g \in GoalSet, g.status = "active",
         NEW first \in HandleBoundary(g) \cup {Outcome(g, "idle", TRUE, failObs)},
         NEW last \in IF first.goal.verdict = "fail" /\ ~first.goal.pending
                      THEN EnqueueRepair(first.goal, first.obs, first.save)
                      ELSE {Outcome(first.goal, "idle", first.save, first.obs)}
  PROVE  /\ last.goal \in GoalSet /\ last.obs \in BOOLEAN
         /\ first.pc \in Awaits \cup {"idle"} /\ last.pc \in Awaits \cup {"idle"}
         /\ last.goal.status \in Terminal => last.save
         /\ last.goal.status = "verifying" => first.pc \in Judging
  <1>1. Good("active", first) /\ Leaves(first)
    <2>1. CASE first \in HandleBoundary(g)
      BY <2>1, HandleBoundaryGood DEF GTypeOK
    <2>2. CASE first = Outcome(g, "idle", TRUE, failObs)
      BY <2>2 DEF Good, Leaves, Outcome, Terminal, Running, GTypeOK
    <2>3. QED
      BY <2>1, <2>2
  <1>2. /\ first.goal \in GoalSet /\ first.obs \in BOOLEAN /\ first.save \in BOOLEAN
        /\ first.goal.status \in Terminal => first.save
    BY <1>1 DEF Good, Terminal
  <1>3. CASE last \in EnqueueRepair(first.goal, first.obs, first.save)
    <2>1. /\ Good(first.goal.status, last)
          /\ first.save /\ last.goal.status \in Terminal => last.save
          /\ last.goal.status = "verifying" => first.goal.status = "verifying"
      BY <1>2, <1>3, EnqueueRepairGood
    <2>2. QED
      BY <1>1, <1>2, <2>1 DEF Good, Leaves
  <1>4. CASE last = Outcome(first.goal, "idle", first.save, first.obs)
    BY <1>1, <1>2, <1>4 DEF Good, Leaves, Outcome
  <1>5. QED
    BY <1>3, <1>4

\* resume(): the goal is persisted with a terminal status if it got one, and when it
\* is left in verifying the boundary of the task graph holds it.
LEMMA ResumeKeeps ==
  ASSUME GInv, Resume
  PROVE  GInv' /\ Final
  <1> USE BoundsAssumption
  <1>0. /\ GTypeOK /\ FileInv /\ FreshInv /\ OrphansStopped /\ VerifyingIsHeld /\ HandlerInv
    BY DEF GInv
  <1>1. /\ cur \in 1..created /\ cur \in Goals
        /\ goals[cur].status \notin Terminal
    BY <1>0 DEF Resume, Status, Terminal, GTypeOK, Goals
  <1> DEFINE g == [goals[cur] EXCEPT !.status = "active", !.wait = "none"]
  <1>2. g \in GoalSet /\ g.status = "active"
    BY <1>0, <1>1 DEF GTypeOK, GoalSet, Statuses
  <1>3. PICK first \in HandleBoundary(g) \cup {Outcome(g, "idle", TRUE, failObs)} :
        \E last \in IF first.goal.verdict = "fail" /\ ~first.goal.pending
                    THEN EnqueueRepair(first.goal, first.obs, first.save)
                    ELSE {Outcome(first.goal, "idle", first.save, first.obs)} :
          /\ goals' = [goals EXCEPT ![cur] = last.goal]
          /\ file' = Saved(cur, IF last.save THEN last.goal ELSE g)
          /\ failObs' = last.obs
          /\ handler' = [handler EXCEPT
                !["tasks"] = IF first.pc = "idle" THEN Idle ELSE [pc |-> first.pc, g |-> cur],
                !["resume"] = IF last.pc = "idle" THEN Idle ELSE [pc |-> last.pc, g |-> cur]]
    BY DEF Resume
  <1> HIDE DEF g
  <1>4. PICK last \in IF first.goal.verdict = "fail" /\ ~first.goal.pending
                    THEN EnqueueRepair(first.goal, first.obs, first.save)
                    ELSE {Outcome(first.goal, "idle", first.save, first.obs)} :
          /\ goals' = [goals EXCEPT ![cur] = last.goal]
          /\ file' = Saved(cur, IF last.save THEN last.goal ELSE g)
          /\ failObs' = last.obs
          /\ handler' = [handler EXCEPT
                !["tasks"] = IF first.pc = "idle" THEN Idle ELSE [pc |-> first.pc, g |-> cur],
                !["resume"] = IF last.pc = "idle" THEN Idle ELSE [pc |-> last.pc, g |-> cur]]
    BY <1>3
  <1>5. /\ last.goal \in GoalSet /\ last.obs \in BOOLEAN
        /\ first.pc \in Awaits \cup {"idle"} /\ last.pc \in Awaits \cup {"idle"}
        /\ last.goal.status \in Terminal => last.save
        /\ last.goal.status = "verifying" => first.pc \in Judging
    BY <1>0, <1>2, ResumeGood
  <1>6. /\ resumed' = TRUE /\ handler["tasks"] = Idle /\ handler["resume"] = Idle
        /\ UNCHANGED <<created, cur, result, results, agent>>
    BY DEF Resume, userUnchanged, resultVars
  <1>7. Write(cur, last.goal)
    <2> DEFINE f == IF last.save THEN last.goal ELSE g
    <2>1. f \in GoalSet /\ (last.goal.status \in Terminal => f.status = last.goal.status)
      BY <1>2, <1>5
    <2>2. file' = Saved(cur, f)
      BY <1>4
    <2> HIDE DEF f
    <2>3. file' \in FileSet /\ file'.id = cur /\ file'.status = f.status
      BY <1>1, <2>1, <2>2, SavedType
    <2>4. QED
      BY <1>1, <1>4, <1>5, <1>6, <2>1, <2>3 DEF Write
  <1>8. /\ goals' \in [Goals -> GoalSet]
        /\ created' \in 0..MaxGoals /\ cur' \in 0..created'
        /\ file' = NoFile \/ file' \in FileSet
        /\ FileInv' /\ FreshInv' /\ OrphansStopped' /\ Final
    BY <1>0, <1>7, WriteKeeps
  <1> DEFINE h1 == IF first.pc = "idle" THEN Idle ELSE [pc |-> first.pc, g |-> cur]
             h2 == IF last.pc = "idle" THEN Idle ELSE [pc |-> last.pc, g |-> cur]
  <1>9. /\ h1 \in HandlerSet \cup {Idle} /\ h1.g <= created
        /\ first.pc \in Judging => h1.pc \in Judging /\ h1.g = cur
    <2>1. CASE first.pc = "idle"
      BY <1>0, <2>1 DEF Idle, GTypeOK, Judging
    <2>2. CASE first.pc # "idle"
      BY <1>1, <1>5, <2>2 DEF HandlerSet
    <2>3. QED
      BY <2>1, <2>2
  <1>10. h2 \in HandlerSet \cup {Idle} /\ h2.g <= created
    <2>1. CASE last.pc = "idle"
      BY <1>0, <2>1 DEF Idle, GTypeOK
    <2>2. CASE last.pc # "idle"
      BY <1>1, <1>5, <2>2 DEF HandlerSet
    <2>3. QED
      BY <2>1, <2>2
  <1>11. handler' = [handler EXCEPT !["tasks"] = h1, !["resume"] = h2]
    BY <1>4
  <1> HIDE DEF h1, h2
  <1>12. /\ handler' \in [Sources -> HandlerSet \cup {Idle}]
         /\ handler'["tasks"] = h1 /\ handler'["resume"] = h2
         /\ handler'["agent"] = handler["agent"]
    BY <1>0, <1>9, <1>10, <1>11 DEF GTypeOK, Sources
  <1>13. HandlerInv'
    BY <1>0, <1>6, <1>9, <1>10, <1>12 DEF HandlerInv, Sources
  <1>14. VerifyingIsHeld'
    <2>1. /\ goals'[cur] = last.goal /\ \A j \in Goals : j # cur => goals'[j] = goals[j]
      BY <1>0, <1>1, <1>4 DEF GTypeOK
    <2>2. SUFFICES ASSUME NEW j \in Goals, goals'[j].status = "verifying"
                   PROVE  \E c \in Sources : Holds(c, j)'
      BY DEF VerifyingIsHeld
    <2>3. CASE j = cur
      BY <1>5, <1>9, <1>12, <2>1, <2>2, <2>3 DEF Holds, Sources
    <2>4. CASE j # cur
      <3>1. PICK c \in Sources : Holds(c, j)
        BY <1>0, <2>1, <2>2, <2>4 DEF VerifyingIsHeld
      <3>2. c = "agent"
        BY <1>6, <3>1 DEF Holds, Idle, Judging, Sources
      <3>3. QED
        BY <1>12, <3>1, <3>2 DEF Holds
    <2>5. QED
      BY <2>3, <2>4
  <1>15. GTypeOK'
    BY <1>0, <1>4, <1>5, <1>6, <1>8, <1>12 DEF GTypeOK
  <1>16. RecoveredNeedsUser'
    BY <1>6 DEF RecoveredNeedsUser
  <1>17. QED
    BY <1>8, <1>13, <1>14, <1>15, <1>16 DEF GInv

\* recover(): only the file survives, and what was running is paused.
LEMMA RestartKeeps ==
  ASSUME GInv, Restart
  PROVE  GInv' /\ Final
  <1> USE BoundsAssumption, RoundsAssumption
  <1>0. GTypeOK /\ FileInv /\ created \in 0..MaxGoals
    BY DEF GInv, GTypeOK
  <1>1. NoGoal \in GoalSet /\ NoGoal.status = "idle"
    BY DEF NoGoal, GoalSet, Statuses
  <1>2. /\ cur' = file.id /\ created' = created /\ file' = file /\ results' = results
        /\ handler' = [b \in Sources |-> Idle] /\ failObs' = FALSE /\ result' = NoResult
        /\ agent' = "idle" /\ resumed' = FALSE
    BY DEF Restart
  <1>3. /\ handler' \in [Sources -> HandlerSet \cup {Idle}]
        /\ \A b \in Sources : handler'[b] = Idle
    BY <1>2
  <1>4. file # NoFile => /\ Recovered \in GoalSet
                         /\ Recovered.status \notin Running
                         /\ Recovered.status \in Terminal => Recovered.status = file.status
                         /\ file.status \in Terminal => Recovered.status = file.status
    <2> SUFFICES ASSUME file # NoFile
                 PROVE  /\ Recovered \in GoalSet
                        /\ Recovered.status \notin Running
                        /\ Recovered.status \in Terminal => Recovered.status = file.status
                        /\ file.status \in Terminal => Recovered.status = file.status
      OBVIOUS
    <2>1. file \in FileSet
      BY <1>0 DEF GTypeOK
    <2> DEFINE st == IF file.status \in Running THEN "paused" ELSE file.status
               w == (file.wait = "interaction")
    <2>2. /\ st \in Statuses /\ file.round \in 0..MaxRounds
          /\ file.verdict \in {"none", "pass", "fail", "inconclusive"}
          /\ file.wait \in {"none", "evidence", "interaction"}
      BY <2>1 DEF FileSet, Statuses
    <2>3. w \in BOOLEAN
      OBVIOUS
    <2>4. Recovered = [NoGoal EXCEPT !.status = st, !.round = file.round,
                                     !.verdict = file.verdict, !.wait = file.wait,
                                     !.interaction = w]
      BY DEF Recovered
    <2>5. /\ st \notin Running
          /\ st \in Terminal => st = file.status
          /\ file.status \in Terminal => st = file.status
      BY DEF Running, Terminal
    <2> HIDE DEF st, w
    <2>6. Recovered \in GoalSet /\ Recovered.status = st
      BY <1>1, <2>2, <2>3, <2>4 DEF GoalSet
    <2>7. QED
      BY <2>5, <2>6
  <1>5. file = NoFile => file.id = 0
    BY DEF NoFile
  <1>6. file # NoFile => file.id \in Goals /\ file.id <= created
    BY <1>0, FileIsGoal DEF GTypeOK, FileInv
  <1>7. \A i \in Goals : goals'[i] = IF i = file.id THEN Recovered ELSE NoGoal
    BY DEF Restart
  <1>8. \A i \in Goals : /\ i # file.id => goals'[i].status = "idle"
                         /\ i = file.id => file # NoFile /\ goals'[i] = Recovered
    BY <1>1, <1>5, <1>7 DEF Goals
  <1>9. goals' \in [Goals -> GoalSet]
    BY <1>1, <1>4, <1>8 DEF Restart
  <1>10. cur' \in 0..created'
    BY <1>0, <1>2, <1>5, <1>6 DEF Goals
  <1>11. GTypeOK'
    <2>1. failObs' \in BOOLEAN /\ result' = NoResult /\ agent' \in {"idle", "running", "ending"}
      BY <1>2
    <2>2. QED
      BY <1>0, <1>2, <1>3, <1>9, <1>10, <2>1 DEF GTypeOK
  <1>12. FileInv'
    BY <1>0, <1>2, <1>4, <1>6, <1>8 DEF FileInv
  <1>13. HandlerInv'
    BY <1>0, <1>2, <1>3 DEF HandlerInv, Idle, Sources
  <1>14. FreshInv'
    <2>1. \A i \in Goals : i > created => i # file.id
      BY <1>0, <1>5, <1>6 DEF Goals
    <2>2. QED
      BY <1>2, <1>8, <2>1 DEF FreshInv
  <1>15. OrphansStopped'
    BY <1>2, <1>8 DEF OrphansStopped, Running
  <1>16. VerifyingIsHeld'
    <2>1. \A i \in Goals : goals'[i].status # "verifying"
      BY <1>4, <1>8 DEF Running
    <2>2. QED
      BY <2>1 DEF VerifyingIsHeld
  <1>17. RecoveredNeedsUser'
    <2>1. Status' \notin Running
      BY <1>2, <1>4, <1>5, <1>6, <1>8 DEF Status, Running
    <2>2. QED
      BY <1>3, <2>1 DEF RecoveredNeedsUser
  <1>18. Final
    BY <1>0, <1>4, <1>8 DEF Final, FileInv
  <1>19. QED
    BY <1>11, <1>12, <1>13, <1>14, <1>15, <1>16, <1>17, <1>18 DEF GInv

\* Every step keeps the invariant and the terminal statuses.
LEMMA NextInv == GInv /\ [Next]_vars => GInv' /\ (Next => Final)
  <1> SUFFICES ASSUME GInv, [Next]_vars PROVE GInv' /\ (Next => Final)
    OBVIOUS
  <1>1. ASSUME Next PROVE GInv' /\ Final
    <2>1. ASSUME Command PROVE GInv' /\ Final
      BY <2>1, CreateKeeps, RewriteSteps, ResumeKeeps, ClearKeeps, QuestionSteps, QuietSteps
         DEF Command
    <2>2. QED
      BY <1>1, <2>1, QuietSteps, PauseSteps, BoundaryBegins, HandlerSteps, RestartKeeps DEF Next
  <1>2. CASE UNCHANGED vars
    BY <1>2, QuietKeeps DEF vars, goalVars, resultVars, sessionVars, GInv, GTypeOK
  <1>3. QED
    <2>1. CASE Next
      BY <1>1, <2>1
    <2>2. CASE ~Next
      BY <1>2, <2>2
    <2>3. QED
      BY <2>1, <2>2

-----------------------------------------------------------------------------

\* The invariant of the goal runtime: the types, and how the file, the boundaries and
\* the statuses belong together.
THEOREM Invariant == Spec => []GInv
  <1>1. Init => GInv
    BY InitInv
  <1>2. GInv /\ [Next]_vars => GInv'
    BY NextInv
  <1>3. QED
    BY <1>1, <1>2, PTL DEF Spec

\* "Autonomous continuation is strictly bounded": for every bound on the rounds no
\* goal passes it, whoever starts the rounds.
THEOREM Rounds == Spec => []RoundsBounded
  <1>1. GInv => RoundsBounded
    BY RoundsAssumption DEF GInv, GTypeOK, GoalSet, RoundsBounded
  <1>2. QED
    BY <1>1, Invariant, PTL

\* A goal that was cleared or replaced is stopped and stays stopped, although
\* boundaries still hold it.
THEOREM Orphans == Spec => []OrphansStopped
  <1>1. GInv => OrphansStopped
    BY DEF GInv
  <1>2. QED
    BY <1>1, Invariant, PTL

\* After a restart no goal runs and no boundary is under way until the user acts.
THEOREM Recovery == Spec => []RecoveredNeedsUser
  <1>1. GInv => RecoveredNeedsUser
    BY DEF GInv
  <1>2. QED
    BY <1>1, Invariant, PTL

\* Terminal statuses are final, across late boundaries, commands and restarts.
THEOREM TerminalFinal == Spec => TerminalIsFinal
  <1> DEFINE Kept == \A i \in Goals : goals[i].status \in Terminal
                        => goals'[i].status \in {goals[i].status, "idle"}
  <1>1. GInv /\ [Next]_vars => [Kept]_vars
    BY NextInv DEF Final
  <1>2. QED
    BY <1>1, Invariant, PTL DEF Spec, TerminalIsFinal

\* "Never a stuck state", the half that is a safety property: a goal in verifying is
\* held by a boundary that awaits a verdict or the tests for one, across resumptions,
\* replacements and restarts.
THEOREM NeverStuck == Spec => []VerifyingIsHeld
  <1>1. GInv => VerifyingIsHeld
    BY DEF GInv
  <1>2. QED
    BY <1>1, Invariant, PTL

=============================================================================
