----------------------- MODULE AiraVerificationProofs -----------------------
(***************************************************************************)
(* Proofs of the safety properties of AiraVerification for every set of    *)
(* files and callers, every set of verdicts and any number of changes.     *)
(***************************************************************************)
EXTENDS AiraVerification, FiniteSetTheorems, TLAPS

\* computeRevisionId of some set of files at some time.
Revisions == UNION {[S -> Int] : S \in SUBSET File}

Calls == [pc : PCs, force : BOOLEAN, files : SUBSET File, rev : Revisions,
          verdict : Verdict \cup {"none"}, completedAt : Int]

Results == [rev : Revisions, verdict : Verdict, completedAt : Int, stale : BOOLEAN]

\* The calls and the result in full, which VTypeOK states only in part.
RecordInv ==
  /\ call \in [Caller -> Calls]
  /\ result \in Results \cup {NoResult}
  /\ \A c \in Caller : call[c].pc \in {"fenceSeam", "fenceClassify"} => call[c].verdict \in Verdict

\* At most one call is past runVerification's test, and the flag says which.
FlightInv ==
  /\ \A c, d \in Caller : call[c].pc \in InRun /\ call[d].pc \in InRun => c = d
  /\ inFlight <=> \E c \in Caller : call[c].pc \in InRun
  /\ status = "running" <=> inFlight

\* A tool writes only in an agent run, and an agent run has its scope.
ScopeInv ==
  /\ writing # {} => agent = "running"
  /\ agent = "running" => scopeActive \/ disposed
  /\ agent = "ending" <=> call["auto"].pc # "idle"

Inv == VTypeOK /\ RecordInv /\ FlightInv /\ ScopeInv

-----------------------------------------------------------------------------
\* A revision of files of the workspace is a revision.
LEMMA RevisionType ==
  ASSUME VTypeOK, NEW S \in SUBSET File
  PROVE  Revision(S) \in Revisions /\ DOMAIN Revision(S) = S
  <1>1. Revision(S) \in [S -> Int]
    BY DEF Revision, VTypeOK, Missing
  <1> QED BY <1>1 DEF Revisions

\* A call that has returned is well formed.
LEMMA IdleCallType == IdleCall \in Calls /\ IdleCall.pc = "idle"
  <1>1. [f \in {} |-> 0] \in [{} -> Int]
    OBVIOUS
  <1>2. [f \in {} |-> 0] \in Revisions
    BY <1>1 DEF Revisions
  <1> QED BY <1>2 DEF IdleCall, Calls, PCs

\* invalidateResult keeps results well formed and leaves none fresh.
LEMMA InvalidatedType ==
  ASSUME NEW r \in Results \cup {NoResult}
  PROVE  /\ Invalidated(r) \in Results \cup {NoResult}
         /\ Invalidated(r) = NoResult \/ Invalidated(r).stale
  BY DEF Invalidated, Results, NoResult

\* What classify leaves of a call's files are files of the workspace.
LEMMA ClassifiedType ==
  ASSUME Inv, NEW c \in Caller
  PROVE  Classified(c) \in SUBSET File
  BY DEF Inv, RecordInv, Calls, Classified

\* The manager starts idle.
LEMMA InitInv == Init => Inv
  <1> SUFFICES ASSUME Init PROVE Inv
    OBVIOUS
  <1>1. call \in [Caller -> Calls] /\ \A c \in Caller : call[c].pc = "idle"
    BY IdleCallType DEF Init
  <1>2. "auto" \in Caller
    BY DEF Caller
  <1>3. VTypeOK
    <2>1. disk \in [File -> Missing..MaxClock]
      BY ClockAssumption DEF Init, Missing
    <2>2. own \in [File -> {"none", "owned", "drifted", "protected"}]
      BY DEF Init
    <2>3. \A c \in Caller : call[c].pc \in PCs /\ call[c].files \subseteq File
      BY <1>1 DEF Calls
    <2>4. clock \in 0..MaxClock
      BY ClockAssumption DEF Init
    <2> QED BY <2>1, <2>2, <2>3, <2>4 DEF Init, VTypeOK
  <1>4. RecordInv
    BY <1>1 DEF Init, RecordInv
  <1>5. FlightInv
    BY <1>1 DEF Init, FlightInv, InRun
  <1>6. ScopeInv
    BY <1>1, <1>2 DEF Init, ScopeInv
  <1> QED BY <1>3, <1>4, <1>5, <1>6 DEF Inv

-----------------------------------------------------------------------------
(***************************************************************************)
(* What each step of a call does to the callers' records                   *)
(***************************************************************************)

\* c's record becomes r, the others stay.
Moves(c, r) ==
  /\ r \in Calls
  /\ call' \in [Caller -> Calls]
  /\ call'[c] = r
  /\ \A d \in Caller \ {c} : call'[d] = call[d]

\* A call that returns frees its record, and with the automatic one agent_end.
LEMMA ReturnMoves ==
  ASSUME RecordInv, NEW c \in Caller, Return(c)
  PROVE  Moves(c, IdleCall)
  BY IdleCallType DEF RecordInv, Return, Moves

\* agent_end opens the automatic call.
LEMMA AgentEndsMoves ==
  ASSUME RecordInv, AgentEnds
  PROVE  Moves("auto", [call["auto"] EXCEPT !.pc = "seam"])
  BY DEF RecordInv, AgentEnds, Moves, Calls, Caller, PCs

\* verify() opens the call of its caller.
LEMMA VerifyMoves ==
  ASSUME RecordInv, NEW c \in Caller, NEW force \in BOOLEAN, Verify(c, force)
  PROVE  Moves(c, [call[c] EXCEPT !.pc = "seam", !.force = force])
  BY DEF RecordInv, Verify, Moves, Calls, PCs

\* The seam's answer is stored, and the classification is awaited.
LEMMA SeamMoves ==
  ASSUME VTypeOK, RecordInv, NEW c \in Caller, SeamReturns(c)
  PROVE  \E S \in SUBSET File :
           Moves(c, [call[c] EXCEPT
                       !.pc = IF @ = "seam" THEN "classify" ELSE "fenceClassify", !.files = S])
  <1>1. PICK seam \in {changed, {}} :
          call' = [call EXCEPT ![c].pc = IF @ = "seam" THEN "classify" ELSE "fenceClassify",
                               ![c].files = seam \cup edits]
    BY DEF SeamReturns
  <1>2. seam \cup edits \in SUBSET File
    BY DEF VTypeOK
  <1>3. Moves(c, [call[c] EXCEPT !.pc = IF @ = "seam" THEN "classify" ELSE "fenceClassify",
                                 !.files = seam \cup edits])
    <2> DEFINE pc == IF call[c].pc = "seam" THEN "classify" ELSE "fenceClassify"
               r == [call[c] EXCEPT !.pc = pc, !.files = seam \cup edits]
    <2>1. pc \in PCs
      BY DEF PCs
    <2> HIDE DEF pc
    <2>2. r \in Calls
      BY <1>2, <2>1 DEF RecordInv, Calls
    <2>3. call' = [call EXCEPT ![c] = r]
      BY <1>1 DEF RecordInv, Calls, pc
    <2> HIDE DEF r
    <2>4. Moves(c, r)
      BY <2>2, <2>3 DEF RecordInv, Moves
    <2> QED BY <2>4 DEF r, pc
  <1> QED BY <1>2, <1>3

\* runVerification is held, or takes the flight.
LEMMA BeginMoves ==
  ASSUME RecordInv, NEW c \in Caller, NEW rev \in Revisions, Begin(c, rev)
  PROVE  \/ inFlight /\ Moves(c, IdleCall)
         \/ ~inFlight /\ Moves(c, [call[c] EXCEPT !.pc = "runtime", !.rev = rev])
  <1>1. CASE inFlight /\ Return(c)
    BY <1>1, ReturnMoves
  <1>2. CASE ~inFlight /\ call' = [call EXCEPT ![c].pc = "runtime", ![c].rev = rev]
    BY <1>2 DEF RecordInv, Moves, Calls, PCs
  <1> QED BY <1>1, <1>2 DEF Begin

\* The verifier is launched.
LEMMA RuntimeMoves ==
  ASSUME RecordInv, NEW c \in Caller, RuntimeResolved(c)
  PROVE  Moves(c, [call[c] EXCEPT !.pc = "verifier"])
  BY DEF RecordInv, RuntimeResolved, Moves, Calls, PCs

\* The verdict is stored, and the fence begins.
LEMMA VerifierMoves ==
  ASSUME VTypeOK, RecordInv, NEW c \in Caller, NEW v \in Verdict, VerifierReturns(c, v)
  PROVE  Moves(c, [call[c] EXCEPT !.pc = "fenceSeam", !.verdict = v, !.completedAt = clock])
  <1>1. clock \in Int
    BY ClockAssumption DEF VTypeOK
  <1> DEFINE r == [call[c] EXCEPT !.pc = "fenceSeam", !.verdict = v, !.completedAt = clock]
  <1>2. r \in Calls
    BY <1>1 DEF RecordInv, Calls, PCs
  <1>3. call' = [call EXCEPT ![c] = r]
    BY DEF RecordInv, Calls, VerifierReturns
  <1> HIDE DEF r
  <1>4. Moves(c, r)
    BY <1>2, <1>3 DEF RecordInv, Moves
  <1> QED BY <1>4 DEF r

\* A move keeps the records well formed.
LEMMA MovesRecord ==
  ASSUME RecordInv, NEW c \in Caller, NEW r, Moves(c, r),
         r.pc \in {"fenceSeam", "fenceClassify"} => r.verdict \in Verdict,
         result' \in Results \cup {NoResult}
  PROVE  RecordInv'
  BY DEF RecordInv, Moves

\* A move within the run, or outside it, leaves the flight alone.
LEMMA MovesCruise ==
  ASSUME FlightInv, NEW c \in Caller, NEW r, Moves(c, r),
         r.pc \in InRun <=> call[c].pc \in InRun, UNCHANGED <<inFlight, status>>
  PROVE  FlightInv'
  <1>1. \A d \in Caller : call'[d].pc \in InRun <=> call[d].pc \in InRun
    BY DEF Moves
  <1> QED BY <1>1 DEF FlightInv

\* A run takes the flight when nobody has it.
LEMMA MovesTakeOff ==
  ASSUME FlightInv, NEW c \in Caller, NEW r, Moves(c, r),
         ~inFlight, r.pc \in InRun, inFlight' = TRUE, status' = "running"
  PROVE  FlightInv'
  <1>1. \A d \in Caller : call'[d].pc \in InRun <=> d = c
    BY DEF Moves, FlightInv
  <1> QED BY <1>1 DEF FlightInv

\* A run that ends gives the flight back.
LEMMA MovesLand ==
  ASSUME FlightInv, NEW c \in Caller, NEW r, Moves(c, r),
         call[c].pc \in InRun, r.pc \notin InRun, inFlight' = FALSE, status' # "running"
  PROVE  FlightInv'
  <1>1. \A d \in Caller : call'[d].pc \notin InRun
    BY DEF Moves, FlightInv
  <1> QED BY <1>1 DEF FlightInv

\* The scope survives a step of a call: only the automatic one settles agent_end.
LEMMA MovesScope ==
  ASSUME ScopeInv, NEW c \in Caller, NEW r, Moves(c, r),
         UNCHANGED <<writing, scopeActive, disposed>>,
         \/ /\ agent' = agent
            /\ c # "auto" \/ (call[c].pc # "idle" /\ r.pc # "idle")
         \/ /\ c = "auto" /\ call[c].pc # "idle" /\ r.pc = "idle"
            /\ agent' = "idle"
  PROVE  ScopeInv'
  <1>1. "auto" \in Caller
    BY DEF Caller
  <1>2. CASE c # "auto" /\ agent' = agent
    <2>1. call'["auto"] = call["auto"]
      BY <1>1, <1>2 DEF Moves
    <2> QED BY <1>2, <2>1 DEF ScopeInv
  <1>3. CASE c = "auto"
    BY <1>3 DEF ScopeInv, Moves
  <1> QED BY <1>2, <1>3

\* The call of c returns: agent_end settles if it was the automatic one.
LEMMA ReturnScope ==
  ASSUME RecordInv, ScopeInv, NEW c \in Caller, Return(c), call[c].pc # "idle",
         UNCHANGED <<writing, scopeActive, disposed>>
  PROVE  ScopeInv'
  <1>1. Moves(c, IdleCall)
    BY ReturnMoves
  <1>2. agent' = IF c = "auto" THEN "idle" ELSE agent
    BY DEF Return
  <1> QED BY <1>1, <1>2, MovesScope, IdleCallType

\* The call of c goes on in another await.
LEMMA GoesOnScope ==
  ASSUME ScopeInv, NEW c \in Caller, NEW r, Moves(c, r), call[c].pc # "idle", r.pc # "idle",
         UNCHANGED <<agent, writing, scopeActive, disposed>>
  PROVE  ScopeInv'
  BY MovesScope

-----------------------------------------------------------------------------
(***************************************************************************)
(* Every step preserves the parts of the invariant about calls and scope   *)
(***************************************************************************)
CallInv == RecordInv /\ FlightInv /\ ScopeInv

\* A step that touches neither the calls nor the flight keeps both.
LEMMA QuietStep ==
  ASSUME RecordInv, FlightInv, UNCHANGED <<call, inFlight, status>>,
         result' \in Results \cup {NoResult}
  PROVE  RecordInv' /\ FlightInv'
  BY DEF RecordInv, FlightInv

\* The steps of the workspace and of the agent's tools.
LEMMA WorkspaceSteps ==
  ASSUME Inv, NEW f \in File, NEW kind,
         ToolWrites(f) \/ ToolEditEnds(f) \/ ExternalChange(f, kind)
  PROVE  CallInv'
  <1> USE DEF Inv
  <1>1. result \in Results \cup {NoResult}
    BY DEF RecordInv
  <1>2. CASE ToolWrites(f)
    <2>1. RecordInv' /\ FlightInv'
      BY <1>1, <1>2, QuietStep DEF ToolWrites, runVars
    <2>2. ScopeInv'
      BY <1>2 DEF ToolWrites, ScopeInv
    <2> QED BY <2>1, <2>2 DEF CallInv
  <1>3. CASE ToolEditEnds(f)
    <2>1. result' \in Results \cup {NoResult}
      BY <1>1, <1>3, InvalidatedType DEF ToolEditEnds
    <2>2. RecordInv' /\ FlightInv'
      BY <1>3, <2>1, QuietStep DEF ToolEditEnds, runVars
    <2>3. ScopeInv'
      BY <1>3 DEF ToolEditEnds, ScopeInv
    <2> QED BY <2>2, <2>3 DEF CallInv
  <1>4. CASE ExternalChange(f, kind)
    <2>1. RecordInv' /\ FlightInv'
      BY <1>1, <1>4, QuietStep DEF ExternalChange, runVars
    <2>2. ScopeInv'
      BY <1>4 DEF ExternalChange, agentVars, ScopeInv
    <2> QED BY <2>1, <2>2 DEF CallInv
  <1> QED BY <1>2, <1>3, <1>4

\* The steps of the agent, the goal and the host that open no call.
LEMMA SessionSteps ==
  ASSUME Inv,
         \/ TurnStart \/ AgentEndsUnverified \/ GoalBegins \/ GoalGoesOn \/ GoalEnds
         \/ RefreshStaleness \/ Dispose \/ UNCHANGED vars
  PROVE  CallInv'
  <1> USE DEF Inv
  <1>1. result \in Results \cup {NoResult}
    BY DEF RecordInv
  <1>2. result' \in Results \cup {NoResult}
    BY <1>1, InvalidatedType
       DEF TurnStart, AgentEndsUnverified, GoalBegins, GoalGoesOn, GoalEnds,
           RefreshStaleness, Dispose, vars
  <1>3. UNCHANGED <<call, inFlight, status>>
    BY DEF TurnStart, AgentEndsUnverified, GoalBegins, GoalGoesOn, GoalEnds,
           RefreshStaleness, Dispose, vars, runVars
  <1>4. RecordInv' /\ FlightInv'
    BY <1>2, <1>3, QuietStep
  <1>5. ScopeInv'
    <2>1. CASE TurnStart
      BY <2>1 DEF TurnStart, ScopeInv
    <2>2. CASE AgentEndsUnverified
      BY <2>2 DEF AgentEndsUnverified, ScopeInv
    <2>3. CASE GoalBegins \/ GoalGoesOn \/ GoalEnds
      BY <2>3 DEF GoalBegins, GoalGoesOn, GoalEnds, agentVars, ScopeInv
    <2>4. CASE RefreshStaleness
      BY <2>4 DEF RefreshStaleness, envVars, otherVars, ScopeInv
    <2>5. CASE Dispose
      BY <2>5 DEF Dispose, agentVars, ScopeInv
    <2>6. CASE UNCHANGED vars
      BY <2>6 DEF vars, agentVars, ScopeInv
    <2> QED BY <2>1, <2>2, <2>3, <2>4, <2>5, <2>6
  <1> QED BY <1>4, <1>5 DEF CallInv

\* agent_end opens the automatic call.
LEMMA AgentEndsStep ==
  ASSUME Inv, AgentEnds
  PROVE  CallInv'
  <1> USE DEF Inv
  <1> DEFINE r == [call["auto"] EXCEPT !.pc = "seam"]
  <1>1. "auto" \in Caller /\ Moves("auto", r)
    BY AgentEndsMoves DEF Caller
  <1>2. r.pc = "seam"
    BY <1>1 DEF RecordInv, Calls
  <1>3. call["auto"].pc = "idle"
    BY DEF AgentEnds, ScopeInv
  <1> HIDE DEF r
  <1>4. RecordInv'
    BY <1>1, <1>2, MovesRecord DEF AgentEnds, RecordInv
  <1>5. FlightInv'
    BY <1>1, <1>2, <1>3, MovesCruise DEF AgentEnds, runVars, InRun
  <1>6. ScopeInv'
    BY <1>1, <1>2 DEF AgentEnds, ScopeInv, Moves
  <1> QED BY <1>4, <1>5, <1>6 DEF CallInv

\* verify() opens the call of its caller.
LEMMA VerifyStep ==
  ASSUME Inv, NEW c \in Explicit, NEW force \in BOOLEAN, Verify(c, force)
  PROVE  CallInv'
  <1> USE DEF Inv
  <1> DEFINE r == [call[c] EXCEPT !.pc = "seam", !.force = force]
  <1>0. c \in Caller /\ c # "auto"
    BY ExplicitAssumption DEF Caller
  <1>1. Moves(c, r)
    BY <1>0, VerifyMoves
  <1>2. r.pc = "seam"
    BY <1>0 DEF RecordInv, Calls
  <1> HIDE DEF r
  <1>4. RecordInv'
    BY <1>0, <1>1, <1>2, MovesRecord DEF Verify, RecordInv
  <1>5. FlightInv'
    BY <1>0, <1>1, <1>2, MovesCruise DEF Verify, runVars, InRun
  <1>6. ScopeInv'
    BY <1>0, <1>1, MovesScope DEF Verify, envVars, otherVars
  <1> QED BY <1>4, <1>5, <1>6 DEF CallInv

\* The seam answers.
LEMMA SeamStep ==
  ASSUME Inv, NEW c \in Caller, SeamReturns(c)
  PROVE  CallInv'
  <1> USE DEF Inv
  <1>1. PICK S \in SUBSET File :
          Moves(c, [call[c] EXCEPT
                      !.pc = IF @ = "seam" THEN "classify" ELSE "fenceClassify", !.files = S])
    BY SeamMoves
  <1> DEFINE r == [call[c] EXCEPT
                     !.pc = IF @ = "seam" THEN "classify" ELSE "fenceClassify", !.files = S]
  <1>2. /\ r.pc = IF call[c].pc = "seam" THEN "classify" ELSE "fenceClassify"
        /\ r.verdict = call[c].verdict
    BY DEF RecordInv, Calls
  <1>3. call[c].pc \in {"seam", "fenceSeam"}
    BY DEF SeamReturns
  <1>4. Moves(c, r)
    BY <1>1
  <1> HIDE DEF r
  <1>5. RecordInv'
    BY <1>2, <1>3, <1>4, MovesRecord DEF SeamReturns, RecordInv
  <1>6. FlightInv'
    BY <1>2, <1>3, <1>4, MovesCruise DEF SeamReturns, runVars, InRun
  <1>7. ScopeInv'
    BY <1>2, <1>3, <1>4, GoesOnScope DEF SeamReturns, envVars, otherVars
  <1> QED BY <1>5, <1>6, <1>7 DEF CallInv

\* The call of c returns from outside the run: nothing to verify, or held.
LEMMA TurnedAway ==
  ASSUME Inv, NEW c \in Caller, call[c].pc = "classify", Return(c),
         result' \in Results \cup {NoResult},
         UNCHANGED <<runVars, writing, scopeActive, disposed>>
  PROVE  CallInv'
  <1> USE DEF Inv
  <1>1. Moves(c, IdleCall)
    BY ReturnMoves
  <1>2. RecordInv'
    BY <1>1, MovesRecord, IdleCallType
  <1>3. FlightInv'
    BY <1>1, MovesCruise, IdleCallType DEF InRun, runVars
  <1>4. ScopeInv'
    BY ReturnScope
  <1> QED BY <1>2, <1>3, <1>4 DEF CallInv

\* runVerification: held, or the run takes the flight.
LEMMA BeginStep ==
  ASSUME Inv, NEW c \in Caller, call[c].pc = "classify", NEW rev \in Revisions, Begin(c, rev),
         result' \in Results \cup {NoResult},
         UNCHANGED <<writing, scopeActive, disposed>>
  PROVE  CallInv'
  <1> USE DEF Inv
  <1>1. CASE inFlight
    BY <1>1, TurnedAway DEF Begin
  <1>2. CASE ~inFlight
    <2> DEFINE r == [call[c] EXCEPT !.pc = "runtime", !.rev = rev]
    <2>1. Moves(c, r)
      BY <1>2, BeginMoves
    <2>2. r.pc = "runtime"
      BY DEF RecordInv, Calls
    <2>3. inFlight' = TRUE /\ status' = "running" /\ agent' = agent
      BY <1>2 DEF Begin
    <2> HIDE DEF r
    <2>4. RecordInv'
      BY <2>1, <2>2, MovesRecord
    <2>5. FlightInv'
      BY <1>2, <2>1, <2>2, <2>3, MovesTakeOff DEF InRun
    <2>6. ScopeInv'
      BY <2>1, <2>2, <2>3, GoesOnScope
    <2> QED BY <2>4, <2>5, <2>6 DEF CallInv
  <1> QED BY <1>1, <1>2

\* verify() resumes.
LEMMA EvaluateExplicitStep ==
  ASSUME Inv, NEW c \in Caller, EvaluateExplicit(c)
  PROVE  CallInv'
  <1> DEFINE rev == Revision(Classified(c))
  <1>1. rev \in Revisions
    BY ClassifiedType, RevisionType DEF Inv
  <1>2. /\ call[c].pc = "classify"
        /\ result' \in Results \cup {NoResult}
        /\ UNCHANGED <<writing, scopeActive, disposed>>
    BY DEF EvaluateExplicit, otherVars, Inv, RecordInv
  <1>3. \/ Return(c) /\ UNCHANGED runVars
        \/ Begin(c, rev)
    BY DEF EvaluateExplicit
  <1> QED BY <1>1, <1>2, <1>3, TurnedAway, BeginStep

\* onAgentEnd resumes.
LEMMA EvaluateAutoStep ==
  ASSUME Inv, EvaluateAuto
  PROVE  CallInv'
  <1> DEFINE rev == Revision(Classified("auto"))
  <1>0. "auto" \in Caller
    BY DEF Caller
  <1>1. rev \in Revisions
    BY <1>0, ClassifiedType, RevisionType DEF Inv
  <1>2. result' \in Results \cup {NoResult}
    BY InvalidatedType DEF EvaluateAuto, Refreshed, Inv, RecordInv
  <1>3. /\ call["auto"].pc = "classify"
        /\ UNCHANGED <<writing, scopeActive, disposed>>
    BY DEF EvaluateAuto, otherVars
  <1>4. \/ Return("auto") /\ UNCHANGED runVars
        \/ Begin("auto", rev)
    BY DEF EvaluateAuto
  <1> QED BY <1>0, <1>1, <1>2, <1>3, <1>4, TurnedAway, BeginStep

\* The verifier is launched.
LEMMA RuntimeStep ==
  ASSUME Inv, NEW c \in Caller, RuntimeResolved(c)
  PROVE  CallInv'
  <1> USE DEF Inv
  <1> DEFINE r == [call[c] EXCEPT !.pc = "verifier"]
  <1>1. Moves(c, r)
    BY RuntimeMoves
  <1>2. r.pc = "verifier"
    BY DEF RecordInv, Calls
  <1> HIDE DEF r
  <1>3. RecordInv'
    BY <1>1, <1>2, MovesRecord DEF RuntimeResolved, RecordInv
  <1>4. FlightInv'
    BY <1>1, <1>2, MovesCruise DEF RuntimeResolved, runVars, InRun
  <1>5. ScopeInv'
    BY <1>1, <1>2, GoesOnScope DEF RuntimeResolved, envVars, otherVars
  <1> QED BY <1>3, <1>4, <1>5 DEF CallInv

\* The verifier answers.
LEMMA VerifierStep ==
  ASSUME Inv, NEW c \in Caller, NEW v \in Verdict, VerifierReturns(c, v)
  PROVE  CallInv'
  <1> USE DEF Inv
  <1> DEFINE r == [call[c] EXCEPT !.pc = "fenceSeam", !.verdict = v, !.completedAt = clock]
  <1>1. Moves(c, r)
    BY VerifierMoves
  <1>2. r.pc = "fenceSeam" /\ r.verdict = v
    BY DEF RecordInv, Calls
  <1> HIDE DEF r
  <1>3. RecordInv'
    BY <1>1, <1>2, MovesRecord DEF VerifierReturns, RecordInv
  <1>4. FlightInv'
    BY <1>1, <1>2, MovesCruise DEF VerifierReturns, runVars, InRun
  <1>5. ScopeInv'
    BY <1>1, <1>2, GoesOnScope DEF VerifierReturns, envVars, otherVars
  <1> QED BY <1>3, <1>4, <1>5 DEF CallInv

\* A run that ends, with a result or without.
LEMMA LandStep ==
  ASSUME Inv, NEW c \in Caller, call[c].pc \in InRun, Return(c),
         inFlight' = FALSE, status' # "running", result' \in Results \cup {NoResult},
         UNCHANGED <<writing, scopeActive, disposed>>
  PROVE  CallInv'
  <1> USE DEF Inv
  <1>1. Moves(c, IdleCall)
    BY ReturnMoves
  <1>2. RecordInv'
    BY <1>1, MovesRecord, IdleCallType
  <1>3. FlightInv'
    BY <1>1, MovesLand, IdleCallType DEF InRun
  <1>4. ScopeInv'
    BY ReturnScope DEF InRun
  <1> QED BY <1>2, <1>3, <1>4 DEF CallInv

\* failRun.
LEMMA RunFailsStep ==
  ASSUME Inv, NEW c \in Caller, RunFails(c)
  PROVE  CallInv'
  BY LandStep DEF RunFails, Fail, InRun, envVars, otherVars, Inv, RecordInv

\* What the fence publishes is a result.
LEMMA PublishResult ==
  ASSUME Inv, NEW c \in Caller, Publish(c)
  PROVE  result' \in Results /\ status' \in Verdict
  <1>1. call[c] \in Calls /\ call[c].verdict \in Verdict
    BY DEF Publish, Inv, RecordInv
  <1> QED BY <1>1 DEF Publish, Results, Calls

\* The completion fence publishes and lands.
LEMMA PublishStep ==
  ASSUME Inv, NEW c \in Caller, Publish(c)
  PROVE  CallInv'
  <1>1. result' \in Results /\ status' # "running"
    BY PublishResult, VerdictAssumption
  <1> QED BY <1>1, LandStep DEF Publish, InRun, otherVars

-----------------------------------------------------------------------------
(***************************************************************************)
(* Every step preserves the types                                          *)
(***************************************************************************)
FsType == clock \in 0..MaxClock /\ disk \in [File -> Missing..MaxClock] /\ changed \subseteq File
AgentType == /\ writing \subseteq File /\ edits \subseteq File
             /\ agent \in {"idle", "running", "ending"} /\ scopeActive \in BOOLEAN
GoalType == /\ goalActive \in BOOLEAN /\ tracking \in BOOLEAN
            /\ own \in [File -> {"none", "owned", "drifted", "protected"}]
RunType == /\ inFlight \in BOOLEAN /\ lastFiles \subseteq File /\ disposed \in BOOLEAN
           /\ status \in {"idle", "running", "inconclusive"} \cup Verdict
PartTypes == FsType /\ AgentType /\ GoalType /\ RunType

\* VTypeOK is its parts, with the records.
LEMMA TypeParts ==
  /\ VTypeOK => PartTypes
  /\ PartTypes /\ RecordInv => VTypeOK
  <1>1. RecordInv => /\ \A c \in Caller : call[c].pc \in PCs /\ call[c].files \subseteq File
                     /\ result = NoResult \/ (result.verdict \in Verdict /\ result.stale \in BOOLEAN)
    BY DEF RecordInv, Calls, Results
  <1> QED BY <1>1 DEF VTypeOK, PartTypes, FsType, AgentType, GoalType, RunType

\* A change of a file keeps the clock below its bound and the mtimes below the clock's.
LEMMA TouchType ==
  ASSUME FsType, NEW f \in File, NEW m \in Missing..MaxClock, Touch(f, m)
  PROVE  clock' \in 0..MaxClock /\ disk' \in [File -> Missing..MaxClock]
  <1>1. clock' \in 0..MaxClock
    BY ClockAssumption DEF FsType, Touch
  <1> QED BY <1>1 DEF FsType, Touch

\* What a write does to the ownership of a file.
LEMMA DriftedType ==
  ASSUME GoalType, NEW f \in File
  PROVE  Drifted(f) \in [File -> {"none", "owned", "drifted", "protected"}]
  BY DEF GoalType, Drifted

\* What a classification does to the ownership of the files.
LEMMA ProtectedType ==
  ASSUME GoalType, NEW c
  PROVE  Protected(c) \in [File -> {"none", "owned", "drifted", "protected"}]
  BY DEF GoalType, Protected

\* The types after a step of the workspace or of the agent's tools.
LEMMA WorkspaceTypes ==
  ASSUME PartTypes, NEW f \in File, NEW kind,
         ToolWrites(f) \/ ToolEditEnds(f) \/ ExternalChange(f, kind)
  PROVE  PartTypes'
  <1> USE DEF PartTypes
  <1>1. clock < MaxClock => clock + 1 \in Missing..MaxClock
    BY ClockAssumption DEF FsType, Missing
  <1>2. Missing \in Missing..MaxClock
    BY ClockAssumption DEF Missing
  <1>3. CASE ToolWrites(f)
    <2>1. clock + 1 \in Missing..MaxClock
      BY <1>1, <1>3 DEF ToolWrites, Touch
    <2>2. FsType'
      BY <1>3, <2>1, TouchType DEF ToolWrites, FsType
    <2>3. GoalType'
      BY <1>3, DriftedType DEF ToolWrites, GoalType
    <2>4. AgentType' /\ RunType'
      BY <1>3 DEF ToolWrites, AgentType, RunType, runVars
    <2> QED BY <2>2, <2>3, <2>4
  <1>4. CASE ToolEditEnds(f)
    <2>1. GoalType'
      BY <1>4 DEF ToolEditEnds, GoalType
    <2>2. AgentType'
      BY <1>4 DEF ToolEditEnds, AgentType
    <2>3. FsType' /\ RunType'
      BY <1>4 DEF ToolEditEnds, FsType, RunType, fsVars, runVars
    <2> QED BY <2>1, <2>2, <2>3
  <1>5. CASE ExternalChange(f, kind)
    <2>1. PICK m \in Missing..MaxClock : Touch(f, m)
      <3>1. clock < MaxClock
        BY <1>5 DEF ExternalChange, Touch
      <3> QED BY <1>1, <1>2, <1>5, <3>1 DEF ExternalChange
    <2>2. FsType'
      BY <1>5, <2>1, TouchType DEF ExternalChange, FsType
    <2>3. GoalType'
      BY <1>5, DriftedType DEF ExternalChange, GoalType
    <2>4. AgentType' /\ RunType'
      BY <1>5 DEF ExternalChange, AgentType, RunType, runVars, agentVars
    <2> QED BY <2>2, <2>3, <2>4
  <1> QED BY <1>3, <1>4, <1>5

\* The types after a step of the agent, the goal or the host.
LEMMA SessionTypes ==
  ASSUME PartTypes,
         \/ TurnStart \/ AgentEndsUnverified \/ AgentEnds \/ GoalBegins \/ GoalGoesOn
         \/ GoalEnds \/ RefreshStaleness \/ Dispose \/ UNCHANGED vars
  PROVE  PartTypes'
  <1> USE DEF PartTypes
  <1>1. CASE TurnStart \/ AgentEndsUnverified \/ AgentEnds
    <2>1. AgentType'
      BY <1>1 DEF TurnStart, AgentEndsUnverified, AgentEnds, AgentType, RunType
    <2>2. UNCHANGED <<fsVars, goalVars, runVars, disposed>>
      BY <1>1 DEF TurnStart, AgentEndsUnverified, AgentEnds
    <2> QED BY <2>1, <2>2 DEF FsType, GoalType, RunType, fsVars, goalVars, runVars
  <1>2. CASE GoalBegins \/ GoalGoesOn \/ GoalEnds
    <2>1. GoalType'
      BY <1>2 DEF GoalBegins, GoalGoesOn, GoalEnds, GoalType
    <2>2. UNCHANGED <<fsVars, agentVars, runVars, disposed>>
      BY <1>2 DEF GoalBegins, GoalGoesOn, GoalEnds
    <2> QED BY <2>1, <2>2 DEF FsType, AgentType, RunType, fsVars, agentVars, runVars
  <1>3. CASE RefreshStaleness
    BY <1>3 DEF RefreshStaleness, FsType, AgentType, GoalType, RunType, envVars, otherVars,
                fsVars, runVars
  <1>4. CASE Dispose
    BY <1>4 DEF Dispose, FsType, AgentType, GoalType, RunType, fsVars, agentVars, goalVars,
                runVars
  <1>5. CASE UNCHANGED vars
    BY <1>5 DEF vars, FsType, AgentType, GoalType, RunType, fsVars, agentVars, goalVars,
                runVars
  <1> QED BY <1>1, <1>2, <1>3, <1>4, <1>5

\* The types after a step of a call: it moves the flight, settles agent_end at
\* most, and leaves the ownership as it was or as a classification left it.
LEMMA CallTypes ==
  ASSUME PartTypes, NEW c, UNCHANGED otherVars, own' \in {own, Protected(c)},
         agent' \in {agent, "idle"}, RunType'
  PROVE  PartTypes'
  <1> USE DEF PartTypes
  <1>1. GoalType'
    BY ProtectedType DEF otherVars, GoalType
  <1>2. FsType' /\ AgentType'
    BY DEF otherVars, fsVars, FsType, AgentType
  <1> QED BY <1>1, <1>2

\* The types after runVerification has been held or has begun.
LEMMA BeginTypes ==
  ASSUME RunType, NEW c \in Caller, NEW files \in SUBSET File, VTypeOK, disposed' = disposed,
         \/ Return(c) /\ UNCHANGED runVars
         \/ Begin(c, Revision(files))
  PROVE  RunType' /\ agent' \in {agent, "idle"}
  <1>1. DOMAIN Revision(files) = files
    BY RevisionType
  <1>2. CASE Return(c) /\ UNCHANGED runVars
    BY <1>2 DEF Return, runVars, RunType
  <1>3. CASE Begin(c, Revision(files))
    BY <1>1, <1>3 DEF Begin, Return, runVars, RunType
  <1> QED BY <1>2, <1>3

\* The types after a call has resumed from the classification.
LEMMA EvaluateTypes ==
  ASSUME Inv, PartTypes, NEW c \in Caller,
         EvaluateExplicit(c) \/ (c = "auto" /\ EvaluateAuto)
  PROVE  PartTypes'
  <1>1. /\ \/ Return(c) /\ UNCHANGED runVars
           \/ Begin(c, Revision(Classified(c)))
        /\ UNCHANGED otherVars /\ own' = Protected(c)
    BY DEF EvaluateExplicit, EvaluateAuto
  <1>2. disposed' = disposed
    BY <1>1 DEF otherVars
  <1>3. Classified(c) \in SUBSET File
    BY ClassifiedType
  <1>4. RunType' /\ agent' \in {agent, "idle"}
    BY <1>1, <1>2, <1>3, BeginTypes DEF Inv, PartTypes
  <1> QED BY <1>1, <1>4, CallTypes

\* The types after the other steps of a call.
LEMMA AwaitTypes ==
  ASSUME Inv, PartTypes, NEW c \in Caller,
         \/ \E force \in BOOLEAN : Verify(c, force)
         \/ CallStep(c)
  PROVE  PartTypes'
  <1>1. CASE \/ \E force \in BOOLEAN : Verify(c, force)
             \/ SeamReturns(c) \/ RuntimeResolved(c)
             \/ \E v \in Verdict : VerifierReturns(c, v)
    <2>1. UNCHANGED <<envVars, agent, runVars>>
      BY <1>1 DEF Verify, SeamReturns, RuntimeResolved, VerifierReturns
    <2>2. RunType' /\ UNCHANGED <<otherVars, own, agent>>
      BY <2>1 DEF envVars, otherVars, runVars, PartTypes, RunType
    <2> QED BY <2>2, CallTypes
  <1>2. CASE RunFails(c)
    <2>1. RunType' /\ UNCHANGED <<otherVars, own>> /\ agent' \in {agent, "idle"}
      BY <1>2 DEF RunFails, Fail, Return, envVars, otherVars, PartTypes, RunType
    <2> QED BY <2>1, CallTypes
  <1>3. CASE Publish(c)
    <2>1. status' \in Verdict
      BY <1>3, PublishResult
    <2>2. RunType' /\ UNCHANGED otherVars /\ own' = Protected(c) /\ agent' \in {agent, "idle"}
      BY <1>3, <2>1 DEF Publish, Return, otherVars, PartTypes, RunType
    <2> QED BY <2>2, CallTypes
  <1> QED BY <1>1, <1>2, <1>3 DEF CallStep

-----------------------------------------------------------------------------
\* The invariant is inductive.
LEMMA NextInv == Inv /\ [Next]_vars => Inv'
  <1> SUFFICES ASSUME Inv, [Next]_vars PROVE Inv'
    OBVIOUS
  <1>0. PartTypes
    BY TypeParts DEF Inv
  <1>1. CallInv' /\ PartTypes'
    <2>1. CASE \E f \in File : ToolWrites(f) \/ ToolEditEnds(f)
      BY <1>0, <2>1, WorkspaceSteps, WorkspaceTypes
    <2>2. CASE \E f \in File, kind \in {"write", "delete", "revert"} : ExternalChange(f, kind)
      BY <1>0, <2>2, WorkspaceSteps, WorkspaceTypes
    <2>3. CASE TurnStart \/ AgentEndsUnverified \/ GoalBegins \/ GoalGoesOn \/ GoalEnds
               \/ RefreshStaleness \/ Dispose \/ UNCHANGED vars
      BY <1>0, <2>3, SessionSteps, SessionTypes
    <2>4. CASE AgentEnds
      BY <1>0, <2>4, AgentEndsStep, SessionTypes
    <2>5. CASE \E c \in Explicit : EvaluateExplicit(c)
      BY <1>0, <2>5, EvaluateExplicitStep, EvaluateTypes DEF Caller
    <2>6. CASE \E c \in Explicit : \E force \in BOOLEAN : Verify(c, force)
      BY <1>0, <2>6, VerifyStep, AwaitTypes DEF Caller
    <2>7. CASE EvaluateAuto
      BY <1>0, <2>7, EvaluateAutoStep, EvaluateTypes DEF Caller
    <2>8. CASE \E c \in Caller : CallStep(c)
      <3>1. PICK c \in Caller : CallStep(c)
        BY <2>8
      <3>2. PartTypes'
        BY <1>0, <3>1, AwaitTypes
      <3>3. CallInv'
        BY <3>1, SeamStep, RuntimeStep, RunFailsStep, VerifierStep, PublishStep DEF CallStep
      <3> QED BY <3>2, <3>3
    <2> QED BY <2>1, <2>2, <2>3, <2>4, <2>5, <2>6, <2>7, <2>8 DEF Next
  <1>2. RecordInv' /\ PartTypes'
    BY <1>1 DEF CallInv
  <1>3. VTypeOK'
    BY <1>2, TypeParts, PTL
  <1> QED BY <1>1, <1>3 DEF Inv, CallInv

\* Every behaviour of the manager satisfies the invariant.
LEMMA Invariance == Spec => []Inv
  <1>1. Init => Inv
    BY InitInv
  <1>2. Inv /\ [Next]_vars => Inv'
    BY NextInv
  <1> QED BY <1>1, <1>2, PTL DEF Spec

\* The type invariant holds for every workspace and every set of callers.
THEOREM VTypeCorrect == Spec => []VTypeOK
  <1>1. Inv => VTypeOK
    BY DEF Inv
  <1> QED BY <1>1, Invariance, PTL

\* One verifier at a time, for any number of callers: inFlight is tested before
\* two awaits and set after them, and still at most one call is past the second
\* test, with the flag and the published status telling whether there is one.
THEOREM SingleFlightHolds == Spec => []SingleFlight
  <1>1. Inv => SingleFlight
    <2> SUFFICES ASSUME Inv PROVE SingleFlight
      OBVIOUS
    <2> DEFINE running == {c \in Caller : call[c].pc \in InRun}
    <2>1. /\ inFlight <=> running # {}
          /\ status = "running" <=> inFlight
      BY DEF Inv, FlightInv
    <2>2. Cardinality(running) <= 1
      <3>1. CASE running = {}
        BY <3>1, FS_EmptySet
      <3>2. CASE running # {}
        <4>1. PICK c \in running : TRUE
          BY <3>2
        <4>2. running = {c}
          BY <4>1 DEF Inv, FlightInv
        <4>3. Cardinality({c}) = 1
          BY FS_Singleton
        <4> QED BY <4>2, <4>3
      <3> QED BY <3>1, <3>2
    <2> QED BY <2>1, <2>2 DEF SingleFlight
  <1> QED BY <1>1, Invariance, PTL

\* A run begins in the evaluation of a call, and ends in a failure or in the fence.
LEMMA FlightSteps ==
  ASSUME Inv, Next, inFlight' # inFlight
  PROVE  \/ \E c \in Explicit : EvaluateExplicit(c)
         \/ EvaluateAuto
         \/ \E c \in Caller : RunFails(c) \/ Publish(c)
  <1>1. (\E f \in File : ToolWrites(f) \/ ToolEditEnds(f)) => inFlight' = inFlight
    BY DEF ToolWrites, ToolEditEnds, runVars
  <1>2. (\E f \in File, kind \in {"write", "delete", "revert"} : ExternalChange(f, kind))
          => inFlight' = inFlight
    BY DEF ExternalChange, runVars
  <1>3. TurnStart \/ AgentEndsUnverified \/ AgentEnds \/ GoalBegins \/ GoalGoesOn \/ GoalEnds
          \/ RefreshStaleness \/ Dispose => inFlight' = inFlight
    BY DEF TurnStart, AgentEndsUnverified, AgentEnds, GoalBegins, GoalGoesOn, GoalEnds,
           RefreshStaleness, Dispose, runVars
  <1>4. (\E c \in Explicit : \E force \in BOOLEAN : Verify(c, force)) => inFlight' = inFlight
    BY DEF Verify, runVars
  <1>5. \A c \in Caller : SeamReturns(c) \/ RuntimeResolved(c) => inFlight' = inFlight
    BY DEF SeamReturns, RuntimeResolved, runVars
  <1>6. \A c \in Caller, v \in Verdict : VerifierReturns(c, v) => inFlight' = inFlight
    BY DEF VerifierReturns, runVars
  <1> QED BY <1>1, <1>2, <1>3, <1>4, <1>5, <1>6 DEF Next, CallStep

\* A result published fresh describes the verified files as they are on disk,
\* whatever was written while the verifier and the fence were suspended.
THEOREM PublishedFresh == Spec => PublishedFreshIsAccurate
  <1>1. Inv /\ [Next]_vars =>
          [inFlight /\ ~inFlight' /\ result' # result /\ ~result'.stale =>
             \A f \in DOMAIN result'.rev : result'.rev[f] = disk[f]]_vars
    <2> SUFFICES ASSUME Inv, Next, inFlight, ~inFlight', result' # result, ~result'.stale
                 PROVE  \A f \in DOMAIN result'.rev : result'.rev[f] = disk[f]
      OBVIOUS
    <2>1. inFlight' # inFlight
      OBVIOUS
    <2>2. ASSUME NEW c \in Caller, Publish(c)
          PROVE  \A f \in DOMAIN result'.rev : result'.rev[f] = disk[f]
      <3>1. result'.rev = Revision(Classified(c))
        BY <2>2 DEF Publish
      <3> QED BY <3>1 DEF Revision
    <2>3. \A c \in Caller : ~RunFails(c)
      BY DEF RunFails, Fail
    <2>4. (\A c \in Explicit : ~EvaluateExplicit(c)) /\ ~EvaluateAuto
      BY DEF EvaluateExplicit, EvaluateAuto, Begin, runVars
    <2> QED BY <2>1, <2>2, <2>3, <2>4, FlightSteps
  <1> QED BY <1>1, Invariance, PTL DEF Spec, PublishedFreshIsAccurate

\* An unchanged revision with a fresh result is not verified again unless the
\* caller forces it, whatever the other callers published in the meantime.
THEOREM NoDuplicate == Spec => NoDuplicateVerification
  <1>1. Inv /\ [Next]_vars =>
          [~inFlight /\ inFlight' =>
             \E c \in Caller : /\ call'[c].pc = "runtime"
                               /\ call[c].force \/ ~Current(result', call'[c].rev)]_vars
    <2> SUFFICES ASSUME Inv, Next, ~inFlight, inFlight'
                 PROVE  \E c \in Caller : /\ call'[c].pc = "runtime"
                                          /\ call[c].force \/ ~Current(result', call'[c].rev)
      OBVIOUS
    <2>1. inFlight' # inFlight
      OBVIOUS
    <2>2. \A c \in Caller : ~RunFails(c) /\ ~Publish(c)
      BY DEF RunFails, Fail, Publish
    <2>3. ASSUME NEW c \in Caller, NEW rev \in Revisions, Begin(c, rev)
          PROVE  call'[c].pc = "runtime" /\ call'[c].rev = rev
      <3>1. Moves(c, [call[c] EXCEPT !.pc = "runtime", !.rev = rev])
        BY <2>3, BeginMoves DEF Inv
      <3> QED BY <3>1 DEF Moves, Inv, RecordInv, Calls
    <2>4. ASSUME NEW c \in Explicit, EvaluateExplicit(c)
          PROVE  \E d \in Caller : /\ call'[d].pc = "runtime"
                                   /\ call[d].force \/ ~Current(result', call'[d].rev)
      <3> DEFINE rev == Revision(Classified(c))
      <3>1. c \in Caller
        BY DEF Caller
      <3>2. rev \in Revisions
        BY <3>1, ClassifiedType, RevisionType DEF Inv
      <3>3. /\ Begin(c, rev) /\ result' = result
            /\ call[c].force \/ ~Current(result, rev)
        BY <2>4 DEF EvaluateExplicit, runVars
      <3> HIDE DEF rev
      <3>4. call'[c].pc = "runtime" /\ call'[c].rev = rev
        BY <2>3, <3>1, <3>2, <3>3
      <3> QED BY <3>1, <3>3, <3>4 DEF Current
    <2>5. ASSUME EvaluateAuto
          PROVE  \E d \in Caller : /\ call'[d].pc = "runtime"
                                   /\ call[d].force \/ ~Current(result', call'[d].rev)
      <3> DEFINE rev == Revision(Classified("auto"))
      <3>1. "auto" \in Caller
        BY DEF Caller
      <3>2. rev \in Revisions
        BY <3>1, ClassifiedType, RevisionType DEF Inv
      <3>3. Begin("auto", rev) /\ ~Current(result', rev)
        BY <2>5 DEF EvaluateAuto, runVars
      <3> HIDE DEF rev
      <3>4. call'["auto"].pc = "runtime" /\ call'["auto"].rev = rev
        BY <2>3, <3>1, <3>2, <3>3
      <3> QED BY <3>1, <3>3, <3>4
    <2> QED BY <2>1, <2>2, <2>4, <2>5, FlightSteps
  <1> QED BY <1>1, Invariance, PTL DEF Spec, NoDuplicateVerification

\* The end of a tool's edit leaves no fresh result, in whichever agent run the
\* edit is made: the scope of every agent run is open while its tools write.
THEOREM ToolEditsStale == Spec => ToolEditStales
  <1>1. Inv /\ [Next]_vars =>
          [(\E f \in writing : ToolEditEnds(f)) /\ ~disposed =>
             result' = NoResult \/ result'.stale]_vars
    <2> SUFFICES ASSUME Inv, ~disposed, NEW f \in writing, ToolEditEnds(f)
                 PROVE  result' = NoResult \/ result'.stale
      OBVIOUS
    <2>1. scopeActive
      BY DEF Inv, ScopeInv
    <2>2. result' = Invalidated(result)
      BY <2>1 DEF ToolEditEnds
    <2> QED BY <2>2, InvalidatedType DEF Inv, RecordInv
  <1> QED BY <1>1, Invariance, PTL DEF Spec, ToolEditStales
=============================================================================
