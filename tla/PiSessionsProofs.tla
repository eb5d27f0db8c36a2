-------------------------- MODULE PiSessionsProofs --------------------------
(***************************************************************************)
(* A durable session of pi-server never has two runtimes, none is disposed *)
(* under an operation, and only attached connections are served: for every *)
(* set of connections, of commands in execution and of session objects.    *)
(***************************************************************************)
EXTENDS PiSessions, FiniteSetTheorems, SequenceTheorems, TLAPS

LiveSet == [conns : SUBSET Conn, ops : Nat, phase : {"idle", "busy"}, terminal : BOOLEAN,
            doomed : SUBSET Conn, disposing : {"no", "pending", "done"}]
ReqSet == [at : {"free", "joined", "disposing", "casting", "op", "detaching"},
           conn : Conn, obj : 0..MaxLive]

\* The objects whose runtime the service has not got back.
Held == {i \in 1..Len(live) : live[i].disposing # "done"}

\* A request whose disposal is over and that has not resumed yet.
Lags(r) == req[r].at = "disposing" /\ live[req[r].obj].disposing = "done"

\* Requests point to objects that exist, and those in opening.by await it.
ReqInv ==
  /\ \A r \in Req : req[r].at \notin {"free", "joined"} => req[r].obj \in 1..Len(live)
  /\ \A k \in 1..Len(opening.by) : req[opening.by[k]].at = "joined"
  /\ opening.at # "none" => Len(live) < MaxLive

\* At most one object is held, by the map until the server's close clears it; while
\* one is held nothing is being opened and nobody lags behind an earlier disposal;
\* while a runtime is being taken over none is held.
RuntimeInv ==
  /\ \A i, j \in Held : i = j
  /\ current # 0 => current \in Held
  /\ Held # {} => opening.at = "none" /\ \A r \in Req : ~Lags(r)
  /\ opening.at \in {"snapshot", "rejecting"} => \A r \in Req : ~Lags(r)
  /\ current = 0 /\ Held # {} => up = {}

\* The operations of an object are the requests in execution on it.
Ops(i) == {r \in Req : req[r].at = "op" /\ req[r].obj = i}
OpsInv == \A i \in 1..Len(live) : live[i].ops = Cardinality(Ops(i))

LInv == LTypeOK /\ ReqInv /\ RuntimeInv /\ OpsInv /\ NotDisposedInUse

-----------------------------------------------------------------------------
\* A change of an object that leaves its operations alone and begins its disposal
\* only if it has none, or when the server closes.
Gentle(old, new) ==
  /\ new \in LiveSet /\ new.ops = old.ops
  /\ \/ new.disposing = old.disposing
     \/ old.disposing = "no" /\ new.disposing = "pending" /\ (closing \/ old.ops = 0)

GentleStep ==
  /\ live' \in Seq(LiveSet) /\ Len(live') = Len(live)
  /\ \A i \in 1..Len(live) : Gentle(live[i], live'[i])

\* maybeDispose is gentle.
LEMMA MaybeDisposeGentle ==
  ASSUME NEW l \in LiveSet
  PROVE  /\ Gentle(l, MaybeDispose(l))
         /\ MaybeDispose(l).conns = l.conns
  <1>1. CASE MaybeDispose(l) = l
    BY <1>1 DEF Gentle, LiveSet
  <1>2. CASE MaybeDispose(l) # l
    <2>1. /\ MaybeDispose(l) = [l EXCEPT !.disposing = "pending"]
          /\ l.disposing = "no" /\ ~(l.ops > 0)
      BY <1>2 DEF MaybeDispose
    <2>2. l.ops = 0
      BY <2>1 DEF LiveSet
    <2> QED BY <2>1, <2>2 DEF Gentle, LiveSet
  <1> QED BY <1>1, <1>2

\* Gentle changes compose.
LEMMA GentleTransitive ==
  ASSUME NEW a, NEW b, NEW c, Gentle(a, b), Gentle(b, c)
  PROVE  Gentle(a, c)
  BY DEF Gentle

\* One object, or none, changed gently.
LEMMA GentleUpdate ==
  ASSUME live \in Seq(LiveSet), NEW i \in 1..Len(live), NEW l, Gentle(live[i], l),
         live' = [live EXCEPT ![i] = l]
  PROVE  /\ GentleStep /\ live'[i] = l
         /\ \A j \in 1..Len(live) : j # i => live'[j] = live[j]
  <1>1. l \in LiveSet
    BY DEF Gentle
  <1>2. /\ live' \in Seq(LiveSet) /\ Len(live') = Len(live)
        /\ \A j \in 1..Len(live) : live'[j] = IF j = i THEN l ELSE live[j]
    BY <1>1, ExceptSeq
  <1>3. \A j \in 1..Len(live) : live[j] \in LiveSet
    OBVIOUS
  <1> QED BY <1>2, <1>3 DEF GentleStep, Gentle

LEMMA GentleStutter ==
  ASSUME live \in Seq(LiveSet), live' = live
  PROVE  GentleStep
  <1>1. \A j \in 1..Len(live) : live[j] \in LiveSet
    OBVIOUS
  <1> QED BY <1>1 DEF GentleStep, Gentle

-----------------------------------------------------------------------------
\* A step that opens nothing, gives nothing back and resumes nobody keeps what is held.
LEMMA HoldKeepsRuntime ==
  ASSUME LTypeOK, ReqInv, RuntimeInv, Len(live') = Len(live),
         \A i \in 1..Len(live) : live'[i].disposing = "done" <=> live[i].disposing = "done",
         current' = current, up' \subseteq up,
         opening'.at = opening.at,
         \A r \in Req : req'[r].at = "disposing" =>
            \/ req[r].at = "disposing" /\ req'[r].obj = req[r].obj
            \/ req'[r].obj \in 1..Len(live) /\ live[req'[r].obj].disposing # "done"
  PROVE  RuntimeInv'
  <1>1. Held' = Held
    BY DEF Held
  <1>2. \A r \in Req : Lags(r)' => Lags(r)
    BY DEF Lags, ReqInv
  <1> QED BY <1>1, <1>2 DEF RuntimeInv

LEMMA GentleHolds ==
  ASSUME GentleStep
  PROVE  /\ Len(live') = Len(live)
         /\ \A i \in 1..Len(live) : live'[i].disposing = "done" <=> live[i].disposing = "done"
  BY DEF GentleStep, Gentle

\* A gentle step that starts and ends no operation keeps the counts, and disposes
\* nothing in use.
LEMMA GentleKeepsOps ==
  ASSUME LTypeOK, OpsInv, NotDisposedInUse, GentleStep, closing => closing',
         \A r \in Req : \/ req'[r] = req[r]
                        \/ req[r].at # "op" /\ req'[r].at # "op"
  PROVE  OpsInv' /\ NotDisposedInUse'
  <1>1. \A i : Ops(i)' = Ops(i)
    BY DEF Ops
  <1>2. OpsInv'
    BY <1>1 DEF OpsInv, GentleStep, Gentle
  <1>3. NotDisposedInUse'
    BY DEF NotDisposedInUse, GentleStep, Gentle
  <1> QED BY <1>2, <1>3

-----------------------------------------------------------------------------
\* The parts of the type invariant under their own names.
LEMMA Types ==
  LTypeOK <=> /\ up \subseteq Conn /\ attached \subseteq Conn /\ closing \in BOOLEAN
              /\ live \in Seq(LiveSet)
              /\ current \in 0..Len(live) /\ Len(live) <= MaxLive
              /\ opening \in [at : {"none", "acquiring", "snapshot", "rejecting"}, by : Seq(Req)]
              /\ req \in [Req -> ReqSet]
  BY DEF LTypeOK, LiveSet, ReqSet

LEMMA FreeType == Free \in ReqSet /\ Free.at = "free"
  BY ConnType, MaxLiveType DEF Free, ReqSet

\* One request moves on; it was not awaiting an opening.
LEMMA ReqKeeps ==
  ASSUME LTypeOK, ReqInv, NEW r \in Req, req[r].at # "joined", NEW q \in ReqSet,
         q.at # "joined", q.at # "free" => q.obj \in 1..Len(live),
         req' = [req EXCEPT ![r] = q], Len(live') = Len(live), opening' = opening
  PROVE  ReqInv' /\ req' \in [Req -> ReqSet]
  <1>0. req \in [Req -> ReqSet] /\ opening.by \in Seq(Req)
    BY Types
  <1>1. req' \in [Req -> ReqSet] /\ req'[r] = q /\ \A s \in Req \ {r} : req'[s] = req[s]
    BY <1>0
  <1>2. \A k \in 1..Len(opening.by) : opening.by[k] \in Req /\ opening.by[k] # r
    BY <1>0 DEF ReqInv
  <1> QED BY <1>1, <1>2 DEF ReqInv

\* What a step with a gentle change, of one request at most, has to show.
LEMMA QuietKeeps ==
  ASSUME LInv, GentleStep, up' \subseteq up, attached' \subseteq Conn, closing' \in BOOLEAN,
         closing => closing', current' = current, opening' = opening,
         \/ req' = req
         \/ \E r \in Req, q \in ReqSet :
              /\ req' = [req EXCEPT ![r] = q]
              /\ req[r].at \notin {"joined", "op"} /\ q.at \notin {"joined", "op"}
              /\ q.at # "free" => q.obj \in 1..Len(live)
              /\ q.at = "disposing" => live[q.obj].disposing # "done"
  PROVE  LInv'
  <1>0. LTypeOK /\ ReqInv /\ RuntimeInv /\ OpsInv /\ NotDisposedInUse
    BY DEF LInv
  <1>1. live' \in Seq(LiveSet) /\ Len(live') = Len(live)
    BY DEF GentleStep
  <1>2. CASE req' = req
    <2>1. ReqInv'
      BY <1>0, <1>1, <1>2 DEF ReqInv
    <2>2. RuntimeInv'
      BY <1>0, <1>2, HoldKeepsRuntime, GentleHolds
    <2>3. OpsInv' /\ NotDisposedInUse'
      BY <1>0, <1>2, GentleKeepsOps
    <2>4. LTypeOK'
      BY <1>0, <1>1, <1>2 DEF LTypeOK, LiveSet
    <2> QED BY <2>1, <2>2, <2>3, <2>4 DEF LInv
  <1>3. CASE req' # req
    <2>1. PICK r \in Req, q \in ReqSet :
              /\ req' = [req EXCEPT ![r] = q]
              /\ req[r].at \notin {"joined", "op"} /\ q.at \notin {"joined", "op"}
              /\ q.at # "free" => q.obj \in 1..Len(live)
              /\ q.at = "disposing" => live[q.obj].disposing # "done"
      BY <1>3
    <2>2. ReqInv' /\ req' \in [Req -> ReqSet]
      BY <1>0, <1>1, <2>1, ReqKeeps
    <2>3. req'[r] = q /\ \A s \in Req \ {r} : req'[s] = req[s]
      BY <1>0, <2>1 DEF LTypeOK
    <2>4. RuntimeInv'
      <3>1. \A s \in Req : req'[s].at = "disposing" =>
            \/ req[s].at = "disposing" /\ req'[s].obj = req[s].obj
            \/ req'[s].obj \in 1..Len(live) /\ live[req'[s].obj].disposing # "done"
        BY <2>1, <2>3
      <3> QED BY <1>0, <3>1, HoldKeepsRuntime, GentleHolds
    <2>5. OpsInv' /\ NotDisposedInUse'
      <3>1. \A s \in Req : \/ req'[s] = req[s]
                           \/ req[s].at # "op" /\ req'[s].at # "op"
        BY <2>1, <2>3
      <3> QED BY <1>0, <3>1, GentleKeepsOps
    <2>6. LTypeOK'
      BY <1>0, <1>1, <2>2 DEF LTypeOK, LiveSet, ReqSet
    <2> QED BY <2>2, <2>4, <2>5, <2>6 DEF LInv
  <1> QED BY <1>2, <1>3

\* attach() by a sequence of connections is gentle to the object.
LEMMA AttachAllGentle ==
  ASSUME NEW l \in LiveSet, NEW cs \in Seq(Conn)
  PROVE  /\ Gentle(l, AttachAll(l, cs))
         /\ AttachAll(l, cs).conns = l.conns \cup ({cs[i] : i \in 1..Len(cs)} \cap up)
  <1> DEFINE here == {i \in 1..Len(cs) : cs[i] \in up}
             joined == [l EXCEPT !.conns = @ \cup {cs[i] : i \in here}]
  <1>1. {cs[i] : i \in here} = {cs[i] : i \in 1..Len(cs)} \cap up
    OBVIOUS
  <1>2. {cs[i] : i \in here} \subseteq Conn
    OBVIOUS
  <1>3. /\ joined \in LiveSet /\ joined.ops = l.ops /\ joined.disposing = l.disposing
        /\ joined.conns = l.conns \cup {cs[i] : i \in here}
    BY <1>2 DEF LiveSet
  <1>4. AttachAll(l, cs) = joined
        \/ AttachAll(l, cs) = [joined EXCEPT !.disposing = MaybeDispose(l).disposing]
    BY DEF AttachAll
  <1> HIDE DEF joined, here
  <1>5. Gentle(l, MaybeDispose(l)) /\ MaybeDispose(l).disposing \in {"no", "pending", "done"}
    BY MaybeDisposeGentle DEF Gentle, LiveSet
  <1>6. CASE AttachAll(l, cs) = joined
    BY <1>1, <1>3, <1>6 DEF Gentle
  <1>7. CASE AttachAll(l, cs) = [joined EXCEPT !.disposing = MaybeDispose(l).disposing]
    <2>1. /\ AttachAll(l, cs) \in LiveSet /\ AttachAll(l, cs).ops = l.ops
          /\ AttachAll(l, cs).disposing = MaybeDispose(l).disposing
          /\ AttachAll(l, cs).conns = joined.conns
      BY <1>3, <1>5, <1>7 DEF LiveSet
    <2> QED BY <1>1, <1>3, <1>5, <2>1 DEF Gentle
  <1> QED BY <1>4, <1>6, <1>7

-----------------------------------------------------------------------------
\* acquire() that finds the object in the map.
LEMMA ExistingKeeps ==
  ASSUME LInv, NEW r \in Req, NEW c \in Conn, req[r].at \in {"free", "disposing"},
         AcquireExisting(r, c), UNCHANGED <<up, current, closing>>
  PROVE  LInv'
  <1>0. LTypeOK /\ RuntimeInv /\ live \in Seq(LiveSet) /\ Len(live) \in Nat
        /\ current \in 1..Len(live) /\ current \in 0..MaxLive /\ live[current] \in LiveSet
        /\ attached \subseteq Conn /\ closing \in BOOLEAN
    <2>1. LTypeOK /\ RuntimeInv
      BY DEF LInv
    <2>2. live \in Seq(LiveSet) /\ current \in 0..Len(live) /\ Len(live) <= MaxLive /\ current # 0
          /\ attached \subseteq Conn /\ closing \in BOOLEAN
      BY <2>1, Types DEF AcquireExisting
    <2> QED BY <2>1, <2>2, MaxLiveType
  <1>1. live[current].disposing # "done"
    BY <1>0 DEF RuntimeInv, Held, AcquireExisting
  <1>2. \A at \in {"disposing", "casting"} :
          LET q == [at |-> at, conn |-> c, obj |-> current] IN
          q \in ReqSet /\ q.at = at /\ q.obj = current
    BY <1>0 DEF ReqSet
  <1>3. /\ opening' = opening /\ attached' \subseteq Conn
        /\ \/ req' = [req EXCEPT ![r] = Free]
           \/ req' = [req EXCEPT ![r] = [at |-> "disposing", conn |-> c, obj |-> current]]
           \/ req' = [req EXCEPT ![r] = [at |-> "casting", conn |-> c, obj |-> current]]
    BY <1>0 DEF AcquireExisting
  <1>4. \E q \in ReqSet : /\ req' = [req EXCEPT ![r] = q]
                          /\ q.at \notin {"joined", "op"}
                          /\ q.at # "free" => q.obj = current
    BY <1>2, <1>3, FreeType
  <1>5. GentleStep
    <2>1. CASE live' = live
      BY <1>0, <2>1, GentleStutter
    <2>2. CASE live' = [live EXCEPT ![current] = AttachAll(@, <<c>>)]
      <3>1. <<c>> \in Seq(Conn)
        OBVIOUS
      <3>2. Gentle(live[current], AttachAll(live[current], <<c>>))
        BY <1>0, <3>1, AttachAllGentle
      <3> QED BY <1>0, <2>2, <3>2, GentleUpdate
    <2> QED BY <2>1, <2>2 DEF AcquireExisting
  <1>6. \E s \in Req, q \in ReqSet :
              /\ req' = [req EXCEPT ![s] = q]
              /\ req[s].at \notin {"joined", "op"} /\ q.at \notin {"joined", "op"}
              /\ q.at # "free" => q.obj \in 1..Len(live)
              /\ q.at = "disposing" => live[q.obj].disposing # "done"
    BY <1>0, <1>1, <1>4
  <1> QED BY <1>0, <1>3, <1>5, <1>6, QuietKeeps

\* A command is answered that had no object to give up.
LEMMA AnswerKeeps ==
  ASSUME LInv, NEW r \in Req, req[r].at \notin {"joined", "op"}, Answer(r), GentleStep,
         UNCHANGED <<up, attached, current, opening, closing>>
  PROVE  LInv'
  <1>1. \E s \in Req, q \in ReqSet :
              /\ req' = [req EXCEPT ![s] = q]
              /\ req[s].at \notin {"joined", "op"} /\ q.at \notin {"joined", "op"}
              /\ q.at # "free" => q.obj \in 1..Len(live)
              /\ q.at = "disposing" => live[q.obj].disposing # "done"
    BY FreeType DEF Answer
  <1>2. attached' \subseteq Conn /\ closing' \in BOOLEAN
    BY Types DEF LInv
  <1> QED BY <1>1, <1>2, QuietKeeps

\* detach and its snapshot.
LEMMA DetachKeeps ==
  ASSUME LInv, NEW r \in Req,
         (\E c \in Conn : Detach(r, c)) \/ DetachAnswered(r)
  PROVE  LInv'
  <1>0. LTypeOK /\ ReqInv /\ RuntimeInv /\ live \in Seq(LiveSet) /\ current \in 0..Len(live)
        /\ Len(live) <= MaxLive /\ Len(live) \in Nat
        /\ attached \subseteq Conn /\ closing \in BOOLEAN
    <2>1. LTypeOK /\ ReqInv /\ RuntimeInv
      BY DEF LInv
    <2> QED BY <2>1, Types
  <1>1. ASSUME NEW c \in Conn, Detach(r, c) PROVE LInv'
    <2>1. /\ req[r].at = "free" /\ attached' \subseteq Conn
          /\ UNCHANGED <<up, current, opening, closing>>
      BY <1>0, <1>1 DEF Detach
    <2>2. CASE current = 0
      <3>1. UNCHANGED <<live, req>>
        BY <1>1, <2>2 DEF Detach
      <3> QED BY <1>0, <2>1, <3>1, GentleStutter, QuietKeeps
    <2>3. CASE current # 0
      <3> DEFINE l == Without(live[current], {c})
                 q == [at |-> "detaching", conn |-> c, obj |-> current]
      <3>1. current \in 1..Len(live) /\ live[current] \in LiveSet
        BY <1>0, <2>3
      <3>2. l \in LiveSet /\ Gentle(live[current], l)
        BY <3>1 DEF LiveSet, Gentle, Without
      <3>3. Gentle(live[current], MaybeDispose(l))
        BY <3>2, MaybeDisposeGentle, GentleTransitive
      <3>4. \/ /\ live' = [live EXCEPT ![current] = l]
               /\ req' = [req EXCEPT ![r] = q]
            \/ live' = [live EXCEPT ![current] = MaybeDispose(l)] /\ req' = req
        BY <1>1, <2>3 DEF Detach
      <3>5. q \in ReqSet /\ q.at = "detaching" /\ q.obj = current
        BY <1>0, <3>1, MaxLiveType DEF ReqSet
      <3> HIDE DEF l, q
      <3>6. GentleStep
        BY <1>0, <3>1, <3>2, <3>3, <3>4, GentleUpdate
      <3>7. \/ req' = req
            \/ \E s \in Req, p \in ReqSet :
                 /\ req' = [req EXCEPT ![s] = p]
                 /\ req[s].at \notin {"joined", "op"} /\ p.at \notin {"joined", "op"}
                 /\ p.at # "free" => p.obj \in 1..Len(live)
                 /\ p.at = "disposing" => live[p.obj].disposing # "done"
        BY <2>1, <3>1, <3>4, <3>5
      <3> QED BY <1>0, <2>1, <3>6, <3>7, QuietKeeps
    <2> QED BY <2>2, <2>3
  <1>2. ASSUME DetachAnswered(r) PROVE LInv'
    <2> DEFINE i == req[r].obj
    <2>1. req[r].at = "detaching" /\ Answer(r) /\ UNCHANGED <<up, attached, current, opening, closing>>
      BY <1>2 DEF DetachAnswered
    <2>2. i \in 1..Len(live) /\ live[i] \in LiveSet
      BY <1>0, <2>1 DEF ReqInv
    <2>3. live' = live \/ live' = [live EXCEPT ![i] = MaybeDispose(live[i])]
      BY <1>2 DEF DetachAnswered
    <2> HIDE DEF i
    <2>4. GentleStep
      BY <1>0, <2>2, <2>3, MaybeDisposeGentle, GentleUpdate, GentleStutter
    <2> QED BY <2>1, <2>4, AnswerKeeps
  <1> QED BY <1>1, <1>2

\* sessions.disconnect is gentle to the object in the map.
LEMMA DroppedGentle ==
  ASSUME LTypeOK, NEW cs \in SUBSET Conn
  PROVE  /\ Dropped(live, cs) \in Seq(LiveSet) /\ Len(Dropped(live, cs)) = Len(live)
         /\ \A i \in 1..Len(live) : /\ Gentle(live[i], Dropped(live, cs)[i])
                                    /\ i # current => Dropped(live, cs)[i] = live[i]
         /\ current # 0 => Dropped(live, cs)[current].conns
                             = IF cs \cap attached = {} THEN live[current].conns
                               ELSE live[current].conns \ cs
  <1>0. live \in Seq(LiveSet) /\ current \in 0..Len(live)
    BY Types
  <1>1. \A i \in 1..Len(live) : live[i] \in LiveSet /\ Gentle(live[i], live[i])
    BY <1>0 DEF Gentle
  <1>2. CASE current = 0
    BY <1>0, <1>1, <1>2 DEF Dropped
  <1>3. CASE current # 0
    <2> DEFINE l == Without(live[current], cs)
               m == IF cs \cap attached = {} THEN live[current] ELSE MaybeDispose(l)
    <2>1. current \in 1..Len(live)
      BY <1>0, <1>3
    <2>2. l \in LiveSet /\ Gentle(live[current], l) /\ l.conns = live[current].conns \ cs
      BY <1>1, <2>1 DEF LiveSet, Gentle, Without
    <2>3. Gentle(live[current], MaybeDispose(l)) /\ MaybeDispose(l).conns = l.conns
      BY <2>2, MaybeDisposeGentle, GentleTransitive
    <2> HIDE DEF l
    <2>4. m \in LiveSet /\ Gentle(live[current], m)
          /\ m.conns = IF cs \cap attached = {} THEN live[current].conns ELSE live[current].conns \ cs
      BY <1>1, <2>1, <2>2, <2>3 DEF Gentle
    <2>5. Dropped(live, cs) = [live EXCEPT ![current] = m]
      BY <1>3 DEF Dropped, l
    <2> HIDE DEF m
    <2>6. /\ Dropped(live, cs) \in Seq(LiveSet) /\ Len(Dropped(live, cs)) = Len(live)
          /\ \A i \in 1..Len(live) : Dropped(live, cs)[i] = IF i = current THEN m ELSE live[i]
      BY <1>0, <2>1, <2>4, <2>5, ExceptSeq
    <2> QED BY <1>1, <2>1, <2>4, <2>6
  <1> QED BY <1>2, <1>3

\* The end of terminate(): its connections are gone, then maybeDispose.
LEMMA TerminatedGentle ==
  ASSUME LTypeOK, NEW i \in 1..Len(live), Terminated(i)
  PROVE  /\ GentleStep
         /\ current # 0 => live'[current].conns
                             = IF live[i].doomed \cap attached = {} THEN live[current].conns
                               ELSE live[current].conns \ live[i].doomed
  <1> DEFINE ls == Dropped(live, live[i].doomed)
  <1>0. live \in Seq(LiveSet) /\ live[i].doomed \in SUBSET Conn /\ current \in 0..Len(live)
    <2>1. live \in Seq(LiveSet) /\ current \in 0..Len(live)
      BY Types
    <2>2. live[i] \in LiveSet
      BY <2>1
    <2> QED BY <2>1, <2>2 DEF LiveSet
  <1>1. /\ ls \in Seq(LiveSet) /\ Len(ls) = Len(live)
        /\ \A j \in 1..Len(live) : Gentle(live[j], ls[j])
        /\ current # 0 => ls[current].conns
                             = IF live[i].doomed \cap attached = {} THEN live[current].conns
                               ELSE live[current].conns \ live[i].doomed
    BY <1>0, DroppedGentle
  <1>2. live' = [ls EXCEPT ![i] = MaybeDispose(ls[i])]
    BY DEF Terminated
  <1> HIDE DEF ls
  <1>3. ls[i] \in LiveSet
    BY <1>1
  <1>4. /\ MaybeDispose(ls[i]) \in LiveSet /\ MaybeDispose(ls[i]).conns = ls[i].conns
        /\ Gentle(ls[i], MaybeDispose(ls[i]))
    BY <1>3, MaybeDisposeGentle DEF Gentle
  <1>5. Gentle(live[i], MaybeDispose(ls[i]))
    BY <1>1, <1>4, GentleTransitive
  <1>6. /\ live' \in Seq(LiveSet) /\ Len(live') = Len(live)
        /\ \A j \in 1..Len(live) : live'[j] = IF j = i THEN MaybeDispose(ls[i]) ELSE ls[j]
    BY <1>1, <1>2, <1>4, ExceptSeq
  <1>7. GentleStep
    BY <1>1, <1>5, <1>6 DEF GentleStep
  <1>8. current # 0 => live'[current].conns = ls[current].conns
    BY <1>0, <1>4, <1>6
  <1> QED BY <1>1, <1>7, <1>8

-----------------------------------------------------------------------------
\* Nothing is held when a request reaches the creation of a new object.
LEMMA OpeningKeeps ==
  ASSUME LInv, NEW r \in Req, NEW c \in Conn, AcquireOpening(r, c), UNCHANGED <<up, current, closing>>,
         \/ req[r].at = "free" /\ c \in up
         \/ Lags(r)
  PROVE  LInv'
  <1>0. LTypeOK /\ ReqInv /\ RuntimeInv /\ OpsInv /\ NotDisposedInUse
    BY DEF LInv
  <1> DEFINE q == [at |-> "joined", conn |-> c, obj |-> 0]
             by == IF opening.at = "none" THEN <<r>> ELSE Append(opening.by, r)
  <1>1. /\ req \in [Req -> ReqSet] /\ opening.by \in Seq(Req)
        /\ opening \in [at : {"none", "acquiring", "snapshot", "rejecting"}, by : Seq(Req)]
        /\ live \in Seq(LiveSet)
    BY <1>0, Types
  <1>2. /\ current = 0 /\ Len(live) < MaxLive /\ UNCHANGED <<attached, live>>
        /\ req' = [req EXCEPT ![r] = q]
        /\ opening' = IF opening.at = "none" THEN [at |-> "acquiring", by |-> <<r>>]
                      ELSE [opening EXCEPT !.by = Append(@, r)]
    BY DEF AcquireOpening
  <1>3. q \in ReqSet /\ q.at = "joined"
    BY MaxLiveType DEF ReqSet
  <1> HIDE DEF q
  <1>4. Held = {} /\ Held' = {}
    BY <1>0, <1>2 DEF RuntimeInv, Held
  <1>5. /\ req' \in [Req -> ReqSet] /\ req'[r] = q /\ \A s \in Req \ {r} : req'[s] = req[s]
    BY <1>1, <1>2, <1>3
  <1>6. by \in Seq(Req) /\ \A k \in 1..Len(by) : by[k] = r
                             \/ (k \in 1..Len(opening.by) /\ by[k] = opening.by[k])
    <2>1. CASE opening.at = "none"
      BY <2>1
    <2>2. CASE opening.at # "none"
      BY <1>1, <2>2, AppendProperties
    <2> QED BY <2>1, <2>2
  <1>7. /\ opening'.by = by
        /\ opening'.at = IF opening.at = "none" THEN "acquiring" ELSE opening.at
        /\ opening' \in [at : {"none", "acquiring", "snapshot", "rejecting"}, by : Seq(Req)]
    <2>1. CASE opening.at = "none"
      BY <1>2, <1>6, <2>1
    <2>2. CASE opening.at # "none"
      BY <1>1, <1>2, <1>6, <2>2
    <2> QED BY <2>1, <2>2
  <1> HIDE DEF by
  <1>8. LTypeOK'
    BY <1>0, <1>2, <1>5, <1>7 DEF LTypeOK, LiveSet, ReqSet
  <1>9. ReqInv'
    <2>1. \A k \in 1..Len(opening.by) : opening.by[k] \in Req /\ req[opening.by[k]].at = "joined"
      BY <1>0, <1>1 DEF ReqInv
    <2>2. \A k \in 1..Len(by) : req'[by[k]].at = "joined"
      BY <1>3, <1>5, <1>6, <2>1
    <2> QED BY <1>0, <1>2, <1>3, <1>5, <1>7, <2>2 DEF ReqInv
  <1>10. RuntimeInv'
    <2>1. \A s \in Req : Lags(s)' => Lags(s)
      BY <1>2, <1>3, <1>5 DEF Lags
    <2> QED BY <1>0, <1>2, <1>4, <1>7, <2>1 DEF RuntimeInv
  <1>11. OpsInv' /\ NotDisposedInUse'
    <2>1. GentleStep
      BY <1>1, <1>2, GentleStutter
    <2>2. req[r].at # "op"
      BY DEF Lags
    <2> QED BY <1>0, <1>3, <1>5, <2>1, <2>2, GentleKeepsOps
  <1> QED BY <1>8, <1>9, <1>10, <1>11 DEF LInv

\* An opening that failed, or was rejected, answers everybody who awaited it.
LEMMA FailureKeeps ==
  ASSUME LInv, AnswerAll(opening.by), opening' = NotOpening,
         UNCHANGED <<up, attached, live, current, closing>>
  PROVE  LInv'
  <1>0. LTypeOK /\ ReqInv /\ RuntimeInv /\ OpsInv /\ NotDisposedInUse
    BY DEF LInv
  <1>1. req \in [Req -> ReqSet] /\ live \in Seq(LiveSet) /\ opening.by \in Seq(Req)
    BY <1>0, Types
  <1>2. \A r \in Req : \/ req'[r] = req[r]
                       \/ req'[r] = Free /\ req[r].at = "joined"
    BY <1>0 DEF AnswerAll, ReqInv
  <1>3. req' \in [Req -> ReqSet]
    BY <1>1, FreeType DEF AnswerAll
  <1>4. /\ opening'.at = "none" /\ opening'.by = <<>> /\ Len(opening'.by) = 0
        /\ opening' \in [at : {"none", "acquiring", "snapshot", "rejecting"}, by : Seq(Req)]
    BY DEF NotOpening
  <1>5. LTypeOK'
    BY <1>0, <1>3, <1>4 DEF LTypeOK, LiveSet, ReqSet
  <1>6. ReqInv'
    <2>1. \A k \in 1..Len(opening'.by) : FALSE
      BY <1>4
    <2> QED BY <1>0, <1>2, <1>4, <2>1, FreeType DEF ReqInv
  <1>7. RuntimeInv'
    <2>1. \A r \in Req : Lags(r)' => Lags(r)
      BY <1>2, FreeType DEF Lags
    <2>2. Held' = Held
      BY DEF Held
    <2> QED BY <1>0, <1>4, <2>1, <2>2 DEF RuntimeInv
  <1>8. OpsInv' /\ NotDisposedInUse'
    <2>1. GentleStep
      BY <1>1, GentleStutter
    <2> QED BY <1>0, <1>2, <2>1, FreeType, GentleKeepsOps
  <1> QED BY <1>5, <1>6, <1>7, <1>8 DEF LInv

\* The runtime is there, or its snapshot was refused: only the state of create() moves.
LEMMA CreateKeeps ==
  ASSUME LInv, RuntimeAcquired \/ SnapshotRefused
  PROVE  LInv'
  <1>0. LTypeOK /\ ReqInv /\ RuntimeInv /\ OpsInv /\ NotDisposedInUse
    BY DEF LInv
  <1>1. /\ UNCHANGED <<up, attached, live, current, req, closing>>
        /\ opening.at \in {"acquiring", "snapshot"}
        /\ \A r \in Req : ~Lags(r)
    BY <1>0 DEF RuntimeAcquired, SnapshotRefused, Resumed, Lags, RuntimeInv
  <1>2. \E at \in {"snapshot", "rejecting"} : opening' = [opening EXCEPT !.at = at]
    BY DEF RuntimeAcquired, SnapshotRefused
  <1>3. /\ opening'.at \in {"snapshot", "rejecting"} /\ opening'.by = opening.by
        /\ opening' \in [at : {"none", "acquiring", "snapshot", "rejecting"}, by : Seq(Req)]
    BY <1>0, <1>2 DEF LTypeOK
  <1>4. LTypeOK'
    BY <1>0, <1>1, <1>3 DEF LTypeOK
  <1>5. ReqInv'
    BY <1>0, <1>1, <1>3 DEF ReqInv
  <1>6. RuntimeInv'
    BY <1>0, <1>1, <1>3 DEF RuntimeInv, Held, Lags
  <1>7. OpsInv' /\ NotDisposedInUse'
    BY <1>0, <1>1 DEF OpsInv, Ops, NotDisposedInUse
  <1> QED BY <1>4, <1>5, <1>6, <1>7 DEF LInv

\* The new object is the only one that is held.
LEMMA OpenedKeeps ==
  ASSUME LInv, Opened
  PROVE  /\ LInv' /\ current' = Len(live) + 1
         /\ live'[current'].conns = {req[opening.by[k]].conn : k \in 1..Len(opening.by)} \cap up
  <1>0. LTypeOK /\ ReqInv /\ RuntimeInv /\ OpsInv /\ NotDisposedInUse
    BY DEF LInv
  <1> DEFINE cs == Waiting(opening.by)
             l == AttachAll(NewLive, cs)
             n == Len(live) + 1
             awaits(r) == ~ \A k \in 1..Len(opening.by) : opening.by[k] # r
  <1>1. /\ req \in [Req -> ReqSet] /\ live \in Seq(LiveSet) /\ Len(live) \in Nat
        /\ opening.by \in Seq(Req) /\ Len(opening.by) \in Nat
        /\ attached \subseteq Conn /\ up \subseteq Conn
    BY <1>0, Types
  <1>2. /\ opening.at = "snapshot" /\ Len(live) < MaxLive
        /\ live' = Append(live, l) /\ current' = n /\ opening' = NotOpening /\ UNCHANGED <<up, closing>>
        /\ attached' = attached \cup ({cs[i] : i \in 1..Len(cs)} \cap up)
    BY <1>0 DEF Opened, ReqInv
  <1>3. /\ cs \in Seq(Conn) /\ Len(cs) = Len(opening.by)
        /\ \A k \in 1..Len(opening.by) : cs[k] = req[opening.by[k]].conn
    <2>1. \A k \in 1..Len(opening.by) : req[opening.by[k]].conn \in Conn
      BY <1>1 DEF ReqSet
    <2> QED BY <1>1, <2>1 DEF Waiting
  <1>4. NewLive \in LiveSet /\ NewLive.disposing = "no" /\ NewLive.ops = 0 /\ NewLive.conns = {}
    BY DEF NewLive, LiveSet
  <1>5. Gentle(NewLive, l) /\ l.conns = {} \cup ({cs[i] : i \in 1..Len(cs)} \cap up)
    BY <1>3, <1>4, AttachAllGentle
  <1>6. l \in LiveSet /\ l.ops = 0 /\ l.disposing # "done"
    BY <1>4, <1>5 DEF Gentle
  <1>7. {cs[i] : i \in 1..Len(cs)} = {req[opening.by[k]].conn : k \in 1..Len(opening.by)}
    BY <1>3
  <1> HIDE DEF cs, l
  <1>8. /\ live' \in Seq(LiveSet) /\ Len(live') = n /\ live'[n] = l
        /\ \A i \in 1..Len(live) : live'[i] = live[i]
    BY <1>1, <1>2, <1>6, AppendProperties
  <1>9. /\ \A r \in Req : /\ ~awaits(r) => req'[r] = req[r]
                          /\ awaits(r) => \/ req'[r] = Free
                                          \/ req'[r] = [at |-> "casting", conn |-> req[r].conn, obj |-> n]
        /\ req' = [r \in Req |-> req'[r]]
    BY DEF Opened
  <1>10. \A r \in Req : [at |-> "casting", conn |-> req[r].conn, obj |-> n] \in ReqSet
    <2>1. n \in 0..MaxLive
      BY <1>1, <1>2, MaxLiveType
    <2>2. \A r \in Req : req[r].conn \in Conn
      BY <1>1 DEF ReqSet
    <2> HIDE DEF n
    <2> QED BY <2>1, <2>2 DEF ReqSet
  <1>11. \A r \in Req : awaits(r) => req[r].at = "joined"
    BY <1>0 DEF ReqInv
  <1> HIDE DEF awaits, n
  <1>12. req' \in [Req -> ReqSet]
    <2>1. \A r \in Req : req'[r] \in ReqSet
      BY <1>1, <1>9, <1>10, FreeType
    <2> QED BY <1>9, <2>1
  <1>13. \A r \in Req : \/ req'[r] = req[r]
                        \/ req[r].at = "joined" /\ req'[r].at = "free"
                        \/ req[r].at = "joined" /\ req'[r].at = "casting" /\ req'[r].obj = n
    BY <1>9, <1>11, FreeType
  <1>14. n = Len(live) + 1 /\ n \in 1..Len(live') /\ n \notin 1..Len(live)
         /\ \A i \in 1..Len(live') : i \in 1..Len(live) \/ i = n
    BY <1>1, <1>8 DEF n
  <1>15. /\ opening'.at = "none" /\ opening'.by = <<>> /\ Len(opening'.by) = 0
         /\ opening' \in [at : {"none", "acquiring", "snapshot", "rejecting"}, by : Seq(Req)]
    BY <1>2 DEF NotOpening
  <1>16. LTypeOK'
    <2>1. attached' \subseteq Conn
      BY <1>1, <1>2
    <2>2. current' \in 0..Len(live') /\ Len(live') <= MaxLive
      BY <1>1, <1>2, <1>8, <1>14, MaxLiveType
    <2> QED BY <1>0, <1>2, <1>8, <1>12, <1>15, <2>1, <2>2 DEF LTypeOK, LiveSet, ReqSet
  <1>17. ReqInv'
    <2>1. \A k \in 1..Len(opening'.by) : FALSE
      BY <1>15
    <2>2. \A r \in Req : req'[r].at \notin {"free", "joined"} => req'[r].obj \in 1..Len(live')
      <3>1. \A i \in 1..Len(live) : i \in 1..Len(live')
        BY <1>1, <1>8, <1>14
      <3> QED BY <1>0, <1>13, <1>14, <3>1 DEF ReqInv
    <2> QED BY <1>15, <2>1, <2>2 DEF ReqInv
  <1>18. RuntimeInv'
    <2>1. Held = {}
      BY <1>0, <1>2 DEF RuntimeInv
    <2>2. Held' = {n}
      BY <1>6, <1>8, <1>14, <2>1 DEF Held
    <2>3. \A r \in Req : ~Lags(r)'
      <3>1. \A r \in Req : ~Lags(r)
        BY <1>0, <1>2 DEF RuntimeInv
      <3> QED BY <1>0, <1>8, <1>13, <3>1 DEF Lags, ReqInv
    <2> QED BY <1>2, <1>14, <1>15, <2>2, <2>3 DEF RuntimeInv
  <1>19. OpsInv' /\ NotDisposedInUse'
    <2>1. \A i : Ops(i)' = Ops(i)
      BY <1>13 DEF Ops
    <2>2. Ops(n) = {}
      BY <1>0, <1>14 DEF Ops, ReqInv
    <2>3. OpsInv'
      BY <1>0, <1>6, <1>8, <1>14, <2>1, <2>2, FS_EmptySet DEF OpsInv
    <2>4. NotDisposedInUse'
      BY <1>0, <1>2, <1>6, <1>8, <1>14 DEF NotDisposedInUse
    <2> QED BY <2>3, <2>4
  <1> QED BY <1>2, <1>5, <1>7, <1>8, <1>16, <1>17, <1>18, <1>19 DEF LInv, n

\* An operation begins on an object that nobody disposes.
LEMMA OperateKeeps ==
  ASSUME LInv, NEW r \in Req, NEW c \in Conn, Operate(r, c)
  PROVE  LInv' /\ current' = current /\ live'[current].conns = live[current].conns
  <1>0. LTypeOK /\ ReqInv /\ RuntimeInv /\ OpsInv /\ NotDisposedInUse
    BY DEF LInv
  <1> DEFINE l == [live[current] EXCEPT !.ops = @ + 1]
             q == [at |-> "op", conn |-> c, obj |-> current]
  <1>1. /\ req \in [Req -> ReqSet] /\ live \in Seq(LiveSet) /\ Len(live) \in Nat
        /\ current \in 0..Len(live) /\ Len(live) <= MaxLive /\ opening.by \in Seq(Req)
    BY <1>0, Types
  <1>2. /\ req[r].at = "free" /\ current # 0 /\ live[current].disposing = "no"
        /\ live' = [live EXCEPT ![current] = l] /\ req' = [req EXCEPT ![r] = q]
        /\ UNCHANGED <<up, attached, current, opening, closing>>
    BY DEF Operate, RequireAttached
  <1>3. current \in 1..Len(live) /\ live[current] \in LiveSet
    BY <1>1, <1>2
  <1>4. /\ l \in LiveSet /\ l.ops = live[current].ops + 1 /\ l.disposing = "no"
        /\ l.conns = live[current].conns
    <2>1. live[current].ops + 1 \in Nat
      BY <1>3 DEF LiveSet
    <2> QED BY <1>2, <1>3, <2>1 DEF LiveSet
  <1>5. q \in ReqSet /\ q.at = "op" /\ q.obj = current
    BY <1>1, <1>3, MaxLiveType DEF ReqSet
  <1> HIDE DEF l, q
  <1>6. /\ live' \in Seq(LiveSet) /\ Len(live') = Len(live)
        /\ \A i \in 1..Len(live) : live'[i] = IF i = current THEN l ELSE live[i]
    BY <1>1, <1>2, <1>3, <1>4, ExceptSeq
  <1>7. ReqInv' /\ req' \in [Req -> ReqSet]
    BY <1>0, <1>2, <1>3, <1>5, <1>6, ReqKeeps
  <1>8. req'[r] = q /\ \A s \in Req \ {r} : req'[s] = req[s]
    BY <1>1, <1>2
  <1>9. LTypeOK'
    BY <1>0, <1>2, <1>6, <1>7 DEF LTypeOK, LiveSet, ReqSet
  <1>10. RuntimeInv'
    <2>1. \A i \in 1..Len(live) : live'[i].disposing = "done" <=> live[i].disposing = "done"
      BY <1>2, <1>4, <1>6
    <2>2. \A s \in Req : req'[s].at = "disposing" =>
                           req[s].at = "disposing" /\ req'[s].obj = req[s].obj
      BY <1>5, <1>8
    <2> QED BY <1>0, <1>2, <1>6, <2>1, <2>2, HoldKeepsRuntime
  <1>11. OpsInv'
    <2>0. PICK k \in 1..Len(live) : k = current
      BY <1>3
    <2>1. \A i \in 1..Len(live) : i # k => Ops(i)' = Ops(i)
      BY <1>2, <1>5, <1>8, <2>0 DEF Ops
    <2>2. Ops(k)' = Ops(k) \cup {r} /\ r \notin Ops(k)
      BY <1>2, <1>5, <1>8, <2>0 DEF Ops
    <2>3. IsFiniteSet(Ops(k))
      BY ReqType, FS_Subset DEF Ops
    <2>4. Cardinality(Ops(k)') = Cardinality(Ops(k)) + 1
      BY <2>2, <2>3, FS_AddElement
    <2>5. live'[k].ops = Cardinality(Ops(k)')
      BY <1>0, <1>4, <1>6, <2>0, <2>4 DEF OpsInv
    <2>6. \A i \in 1..Len(live) : i # k => live'[i].ops = Cardinality(Ops(i)')
      BY <1>0, <1>6, <2>0, <2>1 DEF OpsInv
    <2> QED BY <1>6, <2>5, <2>6 DEF OpsInv
  <1>12. NotDisposedInUse'
    BY <1>0, <1>2, <1>4, <1>6 DEF NotDisposedInUse
  <1> QED BY <1>2, <1>3, <1>4, <1>6, <1>7, <1>9, <1>10, <1>11, <1>12 DEF LInv

\* The finally block of an operation gives the runtime back only if it was the last.
LEMMA OperationEndsKeeps ==
  ASSUME LInv, NEW r \in Req, OperationEnds(r)
  PROVE  /\ LInv' /\ current' = current
         /\ current # 0 => live'[current].conns = live[current].conns
  <1>0. LTypeOK /\ ReqInv /\ RuntimeInv /\ OpsInv /\ NotDisposedInUse
    BY DEF LInv
  <1>1. /\ req \in [Req -> ReqSet] /\ live \in Seq(LiveSet) /\ Len(live) \in Nat
        /\ current \in 0..Len(live) /\ closing \in BOOLEAN
    BY <1>0, Types
  <1>2. req[r].at = "op"
    BY DEF OperationEnds
  <1>3. PICK i \in 1..Len(live) : i = req[r].obj
    BY <1>0, <1>2 DEF ReqInv
  <1> DEFINE l == [live[i] EXCEPT !.ops = @ - 1]
             m == MaybeDispose(l)
  <1>4. /\ req[r].at = "op" /\ live' = [live EXCEPT ![i] = m] /\ req' = [req EXCEPT ![r] = Free]
        /\ UNCHANGED <<up, attached, current, opening, closing>>
    BY <1>3 DEF OperationEnds, OperationOver, Answer
  <1>5. live[i] \in LiveSet
    BY <1>1, <1>3
  <1>6. r \in Ops(i)
    BY <1>4, <1>3 DEF Ops
  <1>7. IsFiniteSet(Ops(i)) /\ Cardinality(Ops(i)) \in Nat /\ Cardinality(Ops(i)) # 0
    <2>1. IsFiniteSet(Ops(i))
      BY ReqType, FS_Subset DEF Ops
    <2> QED BY <1>6, <2>1, FS_CardinalityType, FS_EmptySet
  <1>8. live[i].ops = Cardinality(Ops(i))
    BY <1>0, <1>3 DEF OpsInv
  <1>9. /\ l \in LiveSet /\ l.ops = live[i].ops - 1 /\ l.disposing = live[i].disposing
        /\ l.conns = live[i].conns
    <2>1. live[i].ops - 1 \in Nat
      BY <1>7, <1>8
    <2> QED BY <1>5, <2>1 DEF LiveSet
  <1> HIDE DEF l
  <1>10. Gentle(l, m) /\ m.conns = l.conns
    BY <1>9, MaybeDisposeGentle
  <1> HIDE DEF m
  <1>11. m \in LiveSet /\ m.ops = live[i].ops - 1
         /\ m.conns = live[i].conns
         /\ \/ m.disposing = live[i].disposing
            \/ m.disposing = "pending" /\ live[i].disposing = "no" /\ (closing \/ m.ops = 0)
    BY <1>9, <1>10 DEF Gentle
  <1>12. /\ live' \in Seq(LiveSet) /\ Len(live') = Len(live)
         /\ \A j \in 1..Len(live) : live'[j] = IF j = i THEN m ELSE live[j]
    BY <1>1, <1>4, <1>3, <1>11, ExceptSeq
  <1>13. ReqInv' /\ req' \in [Req -> ReqSet]
    BY <1>0, <1>4, <1>12, FreeType, ReqKeeps
  <1>14. req'[r].at = "free" /\ \A s \in Req \ {r} : req'[s] = req[s]
    BY <1>1, <1>4, FreeType
  <1>15. LTypeOK'
    BY <1>0, <1>4, <1>12, <1>13 DEF LTypeOK, LiveSet, ReqSet
  <1>16. RuntimeInv'
    <2>1. \A j \in 1..Len(live) : live'[j].disposing = "done" <=> live[j].disposing = "done"
      BY <1>11, <1>12
    <2>2. \A s \in Req : req'[s].at = "disposing" =>
                           req[s].at = "disposing" /\ req'[s].obj = req[s].obj
      BY <1>14
    <2> QED BY <1>0, <1>4, <1>12, <2>1, <2>2, HoldKeepsRuntime
  <1>17. OpsInv'
    <2>1. \A j \in 1..Len(live) : j # i => Ops(j)' = Ops(j)
      BY <1>6, <1>14 DEF Ops
    <2>2. Ops(i)' = Ops(i) \ {r}
      BY <1>4, <1>14 DEF Ops
    <2>3. Cardinality(Ops(i)') = Cardinality(Ops(i)) - 1
      BY <1>6, <1>7, <2>2, FS_RemoveElement
    <2>4. live'[i].ops = Cardinality(Ops(i)')
      BY <1>3, <1>8, <1>11, <1>12, <2>3
    <2>5. \A j \in 1..Len(live) : j # i => live'[j].ops = Cardinality(Ops(j)')
      BY <1>0, <1>12, <2>1 DEF OpsInv
    <2> QED BY <1>12, <2>4, <2>5 DEF OpsInv
  <1>18. NotDisposedInUse'
    <2>1. live[i].disposing # "no" => closing
      BY <1>0, <1>3, <1>7, <1>8 DEF NotDisposedInUse
    <2> QED BY <1>0, <1>4, <1>11, <1>12, <2>1 DEF NotDisposedInUse
  <1>19. current # 0 => live'[current].conns = live[current].conns
    BY <1>1, <1>11, <1>12
  <1> QED BY <1>4, <1>13, <1>15, <1>16, <1>17, <1>18, <1>19 DEF LInv

\* dispose() has settled, or the server's close takes over the disposal.
LEMMA DisposalKeeps ==
  ASSUME LInv, (\E i \in 1..Len(live) : Disposed(i)) \/ CloseSessions
  PROVE  LInv' /\ current' \in {0, current} /\ (current' # 0 => live'[current] = live[current])
  <1>0. LTypeOK /\ ReqInv /\ RuntimeInv /\ OpsInv /\ NotDisposedInUse
    BY DEF LInv
  <1>1. /\ req \in [Req -> ReqSet] /\ live \in Seq(LiveSet) /\ Len(live) \in Nat
        /\ current \in 0..Len(live) /\ closing \in BOOLEAN
    BY <1>0, Types
  <1>2. ASSUME NEW i \in 1..Len(live), Disposed(i)
        PROVE  LInv' /\ current' \in {0, current} /\ (current' # 0 => live'[current] = live[current])
    <2> DEFINE l == [live[i] EXCEPT !.disposing = "done"]
    <2>1. /\ live[i].disposing = "pending" /\ live' = [live EXCEPT ![i] = l]
          /\ current' = IF current = i THEN 0 ELSE current
          /\ UNCHANGED <<up, attached, opening, req, closing>>
      BY <1>2 DEF Disposed
    <2>2. live[i] \in LiveSet
      BY <1>1
    <2>3. l \in LiveSet /\ l.ops = live[i].ops /\ l.disposing = "done"
      BY <2>2 DEF LiveSet
    <2> HIDE DEF l
    <2>4. /\ live' \in Seq(LiveSet) /\ Len(live') = Len(live)
          /\ \A j \in 1..Len(live) : live'[j] = IF j = i THEN l ELSE live[j]
      BY <1>1, <2>1, <2>3, ExceptSeq
    <2>5. Held = {i}
      BY <1>0, <2>1 DEF RuntimeInv, Held
    <2>6. Held' = {}
      BY <2>3, <2>4, <2>5 DEF Held
    <2>7. current' = 0
      BY <1>0, <2>1, <2>5 DEF RuntimeInv
    <2>8. LTypeOK'
      BY <1>0, <1>1, <2>1, <2>4, <2>7 DEF LTypeOK, LiveSet
    <2>9. ReqInv'
      BY <1>0, <2>1, <2>4 DEF ReqInv
    <2>10. RuntimeInv'
      BY <1>0, <2>1, <2>5, <2>6, <2>7 DEF RuntimeInv
    <2>11. OpsInv'
      <3>1. \A j : Ops(j)' = Ops(j)
        BY <2>1 DEF Ops
      <3> QED BY <1>0, <2>3, <2>4, <3>1 DEF OpsInv
    <2>12. NotDisposedInUse'
      BY <1>0, <2>1, <2>3, <2>4 DEF NotDisposedInUse
    <2> QED BY <2>7, <2>8, <2>9, <2>10, <2>11, <2>12 DEF LInv
  <1>3. ASSUME CloseSessions PROVE LInv' /\ current' = 0
    <2> DEFINE l == [live[current] EXCEPT !.disposing = IF @ = "no" THEN "pending" ELSE @]
    <2>1. /\ closing /\ up = {} /\ opening.at = "none" /\ current # 0 /\ current' = 0
          /\ live' = [live EXCEPT ![current] = l]
          /\ UNCHANGED <<up, attached, opening, req, closing>>
      BY <1>3 DEF CloseSessions
    <2>2. current \in 1..Len(live) /\ live[current] \in LiveSet
      BY <1>1, <2>1
    <2>3. Gentle(live[current], l)
      BY <2>1, <2>2 DEF LiveSet, Gentle
    <2> HIDE DEF l
    <2>4. GentleStep
      BY <1>1, <2>1, <2>2, <2>3, GentleUpdate
    <2>5. live' \in Seq(LiveSet) /\ Len(live') = Len(live)
      BY <2>4 DEF GentleStep
    <2>6. LTypeOK'
      BY <1>0, <1>1, <2>1, <2>5 DEF LTypeOK, LiveSet
    <2>7. ReqInv'
      BY <1>0, <2>1, <2>5 DEF ReqInv
    <2>8. RuntimeInv'
      <3>1. /\ \A i \in 1..Len(live) : live'[i].disposing = "done" <=> live[i].disposing = "done"
            /\ Len(live') = Len(live)
        BY <2>4, GentleHolds
      <3>2. Held' = Held
        BY <3>1 DEF Held
      <3>3. \A r \in Req : Lags(r)' => Lags(r)
        BY <1>0, <2>1, <3>1 DEF Lags, ReqInv
      <3> QED BY <1>0, <2>1, <3>2, <3>3 DEF RuntimeInv
    <2>9. OpsInv' /\ NotDisposedInUse'
      BY <1>0, <2>1, <2>4, GentleKeepsOps
    <2> QED BY <2>1, <2>6, <2>7, <2>8, <2>9 DEF LInv
  <1> QED BY <1>2, <1>3

\* The runtime's own events, and connections that come to their end.
LEMMA EventKeeps ==
  ASSUME LInv,
         \/ \E i \in 1..Len(live) : TurnStarts(i) \/ TurnEnds(i) \/ RuntimeError(i) \/ Terminated(i)
         \/ \E c \in Conn : Leave(c) \/ Disconnect(c)
         \/ Close \/ CloseServerState \/ UNCHANGED vars
  PROVE  LInv'
  <1>0. LTypeOK /\ live \in Seq(LiveSet) /\ attached \subseteq Conn /\ closing \in BOOLEAN
    <2>1. LTypeOK
      BY DEF LInv
    <2> QED BY <2>1, Types
  <1>1. ASSUME NEW i \in 1..Len(live), NEW l, Gentle(live[i], l), live' = [live EXCEPT ![i] = l],
               UNCHANGED <<up, attached, current, opening, req, closing>>
        PROVE  LInv'
    BY <1>0, <1>1, GentleUpdate, QuietKeeps
  <1>2. ASSUME NEW i \in 1..Len(live), TurnStarts(i) PROVE LInv'
    <2> DEFINE l == [live[i] EXCEPT !.phase = "busy"]
    <2>1. live[i] \in LiveSet
      BY <1>0
    <2>2. Gentle(live[i], l)
      BY <2>1 DEF LiveSet, Gentle
    <2> QED BY <1>1, <1>2, <2>2 DEF TurnStarts
  <1>3. ASSUME NEW i \in 1..Len(live), TurnEnds(i) PROVE LInv'
    <2> DEFINE l == [live[i] EXCEPT !.phase = "idle"]
    <2>1. live[i] \in LiveSet
      BY <1>0
    <2>2. l \in LiveSet /\ Gentle(live[i], l)
      BY <2>1 DEF LiveSet, Gentle
    <2>3. \/ live' = [live EXCEPT ![i] = MaybeDispose(l)]
          \/ live' = [live EXCEPT ![i] = l]
      BY <1>3 DEF TurnEnds
    <2>4. UNCHANGED <<up, attached, current, opening, req, closing>>
      BY <1>3 DEF TurnEnds
    <2> HIDE DEF l
    <2>5. Gentle(live[i], MaybeDispose(l))
      BY <2>2, MaybeDisposeGentle, GentleTransitive
    <2> QED BY <1>1, <2>2, <2>3, <2>4, <2>5
  <1>4. ASSUME NEW i \in 1..Len(live), RuntimeError(i) PROVE LInv'
    <2> DEFINE l == [live[i] EXCEPT !.terminal = TRUE, !.doomed = live[i].conns]
    <2>1. live[i] \in LiveSet
      BY <1>0
    <2>2. Gentle(live[i], l)
      BY <2>1 DEF LiveSet, Gentle
    <2>3. live' = [live EXCEPT ![i] = l] /\ UNCHANGED <<up, attached, current, opening, req, closing>>
      BY <1>4 DEF RuntimeError
    <2> HIDE DEF l
    <2> QED BY <1>1, <2>2, <2>3
  <1>5. ASSUME NEW i \in 1..Len(live), Terminated(i) PROVE LInv'
    <2>1. GentleStep
      BY <1>0, <1>5, TerminatedGentle
    <2>2. up' \subseteq up /\ attached' \subseteq Conn /\ UNCHANGED <<current, opening, req, closing>>
      BY <1>0, <1>5 DEF Terminated
    <2> QED BY <1>0, <2>1, <2>2, QuietKeeps
  <1>6. ASSUME NEW c \in Conn, Disconnect(c) PROVE LInv'
    <2>1. live' = Dropped(live, {c}) /\ attached' \subseteq Conn
          /\ UNCHANGED <<up, current, opening, req, closing>>
      BY <1>0, <1>6 DEF Disconnect
    <2>2. GentleStep
      BY <1>0, <2>1, DroppedGentle DEF GentleStep
    <2> QED BY <1>0, <2>1, <2>2, QuietKeeps
  <1>7. ASSUME live' = live, UNCHANGED <<attached, current, opening, req>>, up' \subseteq up,
               closing' \in BOOLEAN, closing => closing'
        PROVE  LInv'
    BY <1>0, <1>7, GentleStutter, QuietKeeps
  <1>8. ASSUME (\E c \in Conn : Leave(c)) \/ Close \/ CloseServerState \/ UNCHANGED vars PROVE LInv'
    BY <1>0, <1>7, <1>8 DEF Leave, Close, CloseServerState, vars
  <1> QED BY <1>2, <1>3, <1>4, <1>5, <1>6, <1>8

-----------------------------------------------------------------------------
\* A server starts without sessions.
LEMMA InitLInv == Init => LInv
  <1> SUFFICES ASSUME Init PROVE LInv
    OBVIOUS
  <1>1. live = <<>> /\ Len(live) = 0 /\ live \in Seq(LiveSet) /\ current = 0
        /\ \A i \in 1..Len(live) : FALSE
    BY DEF Init
  <1>2. /\ opening.at = "none" /\ Len(opening.by) = 0
        /\ \A k \in 1..Len(opening.by) : FALSE
        /\ opening \in [at : {"none", "acquiring", "snapshot", "rejecting"}, by : Seq(Req)]
    BY DEF Init, NotOpening
  <1>3. req \in [Req -> ReqSet] /\ \A r \in Req : req[r].at = "free"
    BY FreeType DEF Init
  <1>4. LTypeOK
    <2>1. up \subseteq Conn /\ attached \subseteq Conn /\ closing \in BOOLEAN
      BY DEF Init
    <2>2. current \in 0..Len(live) /\ Len(live) <= MaxLive
      BY <1>1, MaxLiveType
    <2>3. live \in Seq(LiveSet) /\ req \in [Req -> ReqSet]
      BY <1>1, <1>3
    <2>4. opening \in [at : {"none", "acquiring", "snapshot", "rejecting"}, by : Seq(Req)]
      BY <1>2
    <2> QED BY ONLY <2>1, <2>2, <2>3, <2>4, Types, Zenon
  <1>5. ReqInv
    BY <1>2, <1>3 DEF ReqInv
  <1>6. RuntimeInv
    BY <1>1, <1>2 DEF RuntimeInv, Held
  <1>7. OpsInv /\ NotDisposedInUse
    BY <1>1 DEF OpsInv, NotDisposedInUse
  <1> QED BY <1>4, <1>5, <1>6, <1>7 DEF LInv

\* Every step keeps the invariant.
LEMMA NextLInv == LInv /\ [Next]_vars => LInv'
  <1> SUFFICES ASSUME LInv, [Next]_vars PROVE LInv'
    OBVIOUS
  <1>0. LTypeOK /\ live \in Seq(LiveSet) /\ req \in [Req -> ReqSet]
    <2>1. LTypeOK
      BY DEF LInv
    <2> QED BY <2>1, Types
  <1>1. ASSUME NEW r \in Req, NEW c \in Conn, Attach(r, c) PROVE LInv'
    BY <1>1, ExistingKeeps, OpeningKeeps DEF Attach, Acquire
  <1>2. ASSUME NEW r \in Req, Retry(r) PROVE LInv'
    <2>1. /\ req[r].at = "disposing" /\ Lags(r) /\ UNCHANGED <<up, current, closing>>
          /\ req[r].conn \in Conn
      <3>1. req[r] \in ReqSet
        BY <1>0
      <3> QED BY <1>2, <3>1 DEF Retry, Lags, ReqSet
    <2>2. CASE Acquire(r, req[r].conn)
      BY <2>1, <2>2, ExistingKeeps, OpeningKeeps DEF Acquire
    <2>3. CASE Answer(r) /\ UNCHANGED <<attached, live, opening>>
      BY <1>0, <2>1, <2>3, GentleStutter, AnswerKeeps
    <2> QED BY <1>2, <2>2, <2>3 DEF Retry
  <1>3. CASE OpenFails \/ OpeningRejected
    BY <1>3, FailureKeeps DEF OpenFails, OpeningRejected
  <1>4. CASE RuntimeAcquired \/ SnapshotRefused \/ Opened
    BY <1>4, CreateKeeps, OpenedKeeps
  <1>5. ASSUME NEW r \in Req, AttachAnswered(r) PROVE LInv'
    BY <1>0, <1>5, GentleStutter, AnswerKeeps DEF AttachAnswered
  <1>6. CASE CloseSessions \/ \E i \in 1..Len(live) : Disposed(i)
    BY <1>6, DisposalKeeps
  <1>7. CASE Stopped
    BY <1>7, EventKeeps DEF Stopped
  <1> QED BY <1>1, <1>2, <1>3, <1>4, <1>5, <1>6, <1>7, DetachKeeps, OperateKeeps, OperationEndsKeeps,
             EventKeeps
          DEF Next, Open, Answered, Ends

\* The invariant of the live sessions holds in every reachable state.
THEOREM LInvHolds == Spec => []LInv
  BY InitLInv, NextLInv, PTL DEF Spec

\* Type correctness of the manager's maps and of the requests.
THEOREM LTypeCorrect == Spec => []LTypeOK
  <1>1. LInv => LTypeOK
    BY DEF LInv
  <1> QED BY <1>1, LInvHolds, PTL

\* Acquiring, concurrent openings, disposal and close never leave a durable session
\* with two runtimes.
THEOREM OneRuntime == Spec => []SingleRuntime
  <1>1. LInv => SingleRuntime
    <2> SUFFICES ASSUME LInv PROVE Runtimes <= 1
      BY DEF SingleRuntime
    <2>1. RuntimeInv
      BY DEF LInv
    <2>2. Held = {i \in 1..Len(live) : live[i].disposing # "done"}
      BY DEF Held
    <2>3. CASE Held = {}
      <3>1. Cardinality(Held) = 0
        BY <2>3, FS_EmptySet
      <3> QED BY <2>2, <3>1 DEF Runtimes
    <2>4. CASE Held # {}
      <3>1. PICK i \in Held : Held = {i}
        BY <2>1, <2>4 DEF RuntimeInv
      <3>2. Cardinality(Held) = 1
        BY <3>1, FS_Singleton
      <3>3. opening.at = "none"
        BY <2>1, <2>4 DEF RuntimeInv
      <3> QED BY <2>2, <3>2, <3>3 DEF Runtimes
    <2> QED BY <2>3, <2>4
  <1> QED BY <1>1, LInvHolds, PTL

\* Until the server closes, no runtime is disposed while a command uses it.
THEOREM DisposalWaits == Spec => []NotDisposedInUse
  <1>1. LInv => NotDisposedInUse
    BY DEF LInv
  <1> QED BY <1>1, LInvHolds, PTL
-----------------------------------------------------------------------------
\* One object changes: what has to hold of it for the served to stay attached.
LEMMA ServedUpdate ==
  ASSUME LTypeOK, OnlyAttachedServed, NEW i \in 1..Len(live), NEW l \in LiveSet,
         live' = [live EXCEPT ![i] = l], current' = current,
         i = current => l.conns \subseteq attached',
         i # current => attached \subseteq attached'
  PROVE  OnlyAttachedServed'
  <1>0. live \in Seq(LiveSet) /\ current \in 0..Len(live)
    BY Types
  <1>1. \A j \in 1..Len(live) : live'[j] = IF j = i THEN l ELSE live[j]
    BY <1>0, ExceptSeq
  <1> QED BY <1>0, <1>1 DEF OnlyAttachedServed

\* One object changes and keeps its connections.
LEMMA SameConnections ==
  ASSUME LTypeOK, OnlyAttachedServed, NEW i \in 1..Len(live), NEW l \in LiveSet,
         l.conns = live[i].conns, live' = [live EXCEPT ![i] = l],
         UNCHANGED <<current, attached>>
  PROVE  OnlyAttachedServed'
  BY ServedUpdate DEF OnlyAttachedServed

\* acquire() that finds the object: the connection is attached as it is added.
LEMMA AcquireServes ==
  ASSUME LTypeOK, OnlyAttachedServed, NEW r \in Req, NEW c \in Conn, Acquire(r, c), current' = current
  PROVE  OnlyAttachedServed'
  <1>0. live \in Seq(LiveSet) /\ current \in 0..Len(live)
    BY Types
  <1>1. CASE live' = live /\ attached' = attached
    BY <1>1 DEF OnlyAttachedServed
  <1>2. CASE /\ current # 0
             /\ live' = [live EXCEPT ![current] = AttachAll(live[current], <<c>>)]
             /\ attached' = attached \cup ({c} \cap up)
    <2> DEFINE l == AttachAll(live[current], <<c>>)
               cs == <<c>>
    <2>1. current \in 1..Len(live) /\ live[current] \in LiveSet /\ cs \in Seq(Conn)
      BY <1>0, <1>2
    <2>2. {cs[i] : i \in 1..Len(cs)} = {c}
      OBVIOUS
    <2>3. Gentle(live[current], AttachAll(live[current], cs))
          /\ AttachAll(live[current], cs).conns
               = live[current].conns \cup ({cs[i] : i \in 1..Len(cs)} \cap up)
      BY <2>1, AttachAllGentle
    <2>4. l \in LiveSet /\ l.conns = live[current].conns \cup ({c} \cap up)
      BY <2>2, <2>3 DEF Gentle
    <2> HIDE DEF l, cs
    <2>5. l.conns \subseteq attached'
      BY <1>2, <2>4 DEF OnlyAttachedServed
    <2> QED BY <1>2, <2>1, <2>4, <2>5, ServedUpdate DEF l
  <1> QED BY <1>1, <1>2 DEF Acquire, AcquireExisting, AcquireOpening

\* detach: the connection leaves the object in the map with its attachment.
LEMMA DetachServes ==
  ASSUME LTypeOK, OnlyAttachedServed, NEW r \in Req, NEW c \in Conn, Detach(r, c)
  PROVE  OnlyAttachedServed'
  <1>0. live \in Seq(LiveSet) /\ current \in 0..Len(live)
    BY Types
  <1>1. attached' = attached \ {c} /\ current' = current
    BY DEF Detach
  <1>2. CASE current = 0
    BY <1>1, <1>2 DEF OnlyAttachedServed
  <1>3. CASE current # 0
    <2> DEFINE l == Without(live[current], {c})
    <2>1. current \in 1..Len(live) /\ live[current] \in LiveSet
      BY <1>0, <1>3
    <2>2. l \in LiveSet /\ l.conns = live[current].conns \ {c}
      BY <2>1 DEF LiveSet, Without
    <2>3. MaybeDispose(l) \in LiveSet /\ MaybeDispose(l).conns = l.conns
      BY <2>2, MaybeDisposeGentle DEF Gentle
    <2>4. live' = [live EXCEPT ![current] = l] \/ live' = [live EXCEPT ![current] = MaybeDispose(l)]
      BY <1>3 DEF Detach
    <2>5. l.conns \subseteq attached'
      BY <1>1, <1>3, <2>2 DEF OnlyAttachedServed
    <2> HIDE DEF l
    <2> QED BY <1>1, <2>1, <2>2, <2>3, <2>4, <2>5, ServedUpdate
  <1> QED BY <1>2, <1>3

\* Connections that go are taken out of the object the map holds.
LEMMA DropServes ==
  ASSUME LTypeOK, OnlyAttachedServed,
         \/ \E i \in 1..Len(live) : Terminated(i)
         \/ \E c \in Conn : Disconnect(c)
  PROVE  OnlyAttachedServed'
  <1>1. ASSUME NEW cs, attached' = attached \ cs, current' = current,
               current # 0 => live'[current].conns
                                = IF cs \cap attached = {} THEN live[current].conns
                                  ELSE live[current].conns \ cs
        PROVE  OnlyAttachedServed'
    BY <1>1 DEF OnlyAttachedServed
  <1>2. ASSUME NEW i \in 1..Len(live), Terminated(i) PROVE OnlyAttachedServed'
    <2>1. attached' = attached \ live[i].doomed /\ current' = current
      BY <1>2 DEF Terminated
    <2> QED BY <1>1, <1>2, <2>1, TerminatedGentle
  <1>3. ASSUME NEW c \in Conn, Disconnect(c) PROVE OnlyAttachedServed'
    <2>1. attached' = attached \ {c} /\ current' = current /\ live' = Dropped(live, {c})
      BY <1>3 DEF Disconnect
    <2>2. current # 0 => Dropped(live, {c})[current].conns
                           = IF {c} \cap attached = {} THEN live[current].conns
                             ELSE live[current].conns \ {c}
      BY DroppedGentle
    <2> QED BY <1>1, <2>1, <2>2
  <1> QED BY <1>2, <1>3

\* Events of the runtime and answers leave the connections of every object alone.
LEMMA EventServes ==
  ASSUME LTypeOK, ReqInv, OnlyAttachedServed,
         \/ \E i \in 1..Len(live) : TurnStarts(i) \/ TurnEnds(i) \/ RuntimeError(i)
         \/ \E r \in Req : DetachAnswered(r)
  PROVE  OnlyAttachedServed'
  <1>0. live \in Seq(LiveSet) /\ \A i \in 1..Len(live) : live[i] \in LiveSet
    <2>1. live \in Seq(LiveSet)
      BY Types
    <2> QED BY <2>1
  <1>1. ASSUME NEW i \in 1..Len(live), TurnStarts(i) PROVE OnlyAttachedServed'
    <2> DEFINE l == [live[i] EXCEPT !.phase = "busy"]
    <2>1. l \in LiveSet /\ l.conns = live[i].conns
      BY <1>0 DEF LiveSet
    <2>2. live' = [live EXCEPT ![i] = l] /\ UNCHANGED <<current, attached>>
      BY <1>1 DEF TurnStarts
    <2> HIDE DEF l
    <2> QED BY <2>1, <2>2, SameConnections
  <1>2. ASSUME NEW i \in 1..Len(live), RuntimeError(i) PROVE OnlyAttachedServed'
    <2> DEFINE l == [live[i] EXCEPT !.terminal = TRUE, !.doomed = live[i].conns]
    <2>1. l \in LiveSet /\ l.conns = live[i].conns
      BY <1>0 DEF LiveSet
    <2>2. live' = [live EXCEPT ![i] = l] /\ UNCHANGED <<current, attached>>
      BY <1>2 DEF RuntimeError
    <2> HIDE DEF l
    <2> QED BY <2>1, <2>2, SameConnections
  <1>3. ASSUME NEW i \in 1..Len(live), TurnEnds(i) PROVE OnlyAttachedServed'
    <2> DEFINE l == [live[i] EXCEPT !.phase = "idle"]
    <2>1. l \in LiveSet /\ l.conns = live[i].conns
      BY <1>0 DEF LiveSet
    <2>2. UNCHANGED <<current, attached>>
          /\ \/ live' = [live EXCEPT ![i] = l]
             \/ live' = [live EXCEPT ![i] = MaybeDispose(l)]
      BY <1>3 DEF TurnEnds
    <2> HIDE DEF l
    <2>3. MaybeDispose(l) \in LiveSet /\ MaybeDispose(l).conns = l.conns
      BY <2>1, MaybeDisposeGentle DEF Gentle
    <2> QED BY <2>1, <2>2, <2>3, SameConnections
  <1>4. ASSUME NEW r \in Req, DetachAnswered(r) PROVE OnlyAttachedServed'
    <2>1. PICK i \in 1..Len(live) : i = req[r].obj
      BY <1>4 DEF ReqInv, DetachAnswered
    <2>2. UNCHANGED <<current, attached>>
          /\ (live' = live \/ live' = [live EXCEPT ![i] = MaybeDispose(live[i])])
      BY <1>4, <2>1 DEF DetachAnswered
    <2>3. MaybeDispose(live[i]) \in LiveSet /\ MaybeDispose(live[i]).conns = live[i].conns
      BY <1>0, MaybeDisposeGentle DEF Gentle
    <2>4. CASE live' = live
      BY <2>2, <2>4 DEF OnlyAttachedServed
    <2> QED BY <2>2, <2>3, <2>4, SameConnections
  <1> QED BY <1>1, <1>2, <1>3, <1>4

\* Every step of the server keeps the served among the attached.
LEMMA NextServes == LInv /\ OnlyAttachedServed /\ [Next]_vars => OnlyAttachedServed'
  <1> SUFFICES ASSUME LInv, OnlyAttachedServed, [Next]_vars PROVE OnlyAttachedServed'
    OBVIOUS
  <1>0. LTypeOK /\ ReqInv /\ req \in [Req -> ReqSet] /\ opening.by \in Seq(Req)
    <2>1. LTypeOK /\ ReqInv
      BY DEF LInv
    <2> QED BY <2>1, Types
  <1>1. CASE UNCHANGED <<live, current, attached>>
    BY <1>1 DEF OnlyAttachedServed
  <1>2. ASSUME NEW r \in Req, NEW c \in Conn, Attach(r, c) PROVE OnlyAttachedServed'
    BY <1>0, <1>2, AcquireServes DEF Attach
  <1>3. ASSUME NEW r \in Req, Retry(r) PROVE OnlyAttachedServed'
    <2>1. req[r].conn \in Conn
      BY <1>0 DEF ReqSet
    <2> QED BY <1>0, <1>1, <1>3, <2>1, AcquireServes DEF Retry
  <1>4. CASE Opened
    <2>1. /\ current' = Len(live) + 1
          /\ live'[current'].conns = {req[opening.by[k]].conn : k \in 1..Len(opening.by)} \cap up
      BY <1>4, OpenedKeeps
    <2>2. \A k \in 1..Len(opening.by) : req[opening.by[k]].conn \in up => req[opening.by[k]].conn \in attached'
      BY <1>0, <1>4 DEF Opened, Waiting
    <2> QED BY <2>1, <2>2 DEF OnlyAttachedServed
  <1>5. ASSUME NEW r \in Req, OperationEnds(r) \/ \E c \in Conn : Operate(r, c)
        PROVE  OnlyAttachedServed'
    <2>1. attached' = attached
      BY <1>5 DEF OperationEnds, Operate
    <2>2. /\ current' = current
          /\ current # 0 => live'[current].conns = live[current].conns
      BY <1>5, OperationEndsKeeps, OperateKeeps
    <2> QED BY <2>1, <2>2 DEF OnlyAttachedServed
  <1>6. CASE CloseSessions \/ \E i \in 1..Len(live) : Disposed(i)
    <2>1. attached' = attached
      BY <1>6 DEF CloseSessions, Disposed
    <2> QED BY <1>6, <2>1, DisposalKeeps DEF OnlyAttachedServed
  <1>7. ASSUME NEW r \in Req, NEW c \in Conn, Detach(r, c) PROVE OnlyAttachedServed'
    BY <1>0, <1>7, DetachServes
  <1>8. \/ OpenFails \/ RuntimeAcquired \/ SnapshotRefused \/ OpeningRejected
        \/ Close \/ CloseServerState \/ Stopped \/ UNCHANGED vars
        \/ (\E c \in Conn : Leave(c)) \/ (\E r \in Req : AttachAnswered(r))
        => UNCHANGED <<live, current, attached>>
    BY DEF OpenFails, RuntimeAcquired, SnapshotRefused, OpeningRejected, Close, CloseServerState,
           Stopped, vars, Leave, AttachAnswered
  <1> QED BY <1>0, <1>1, <1>2, <1>3, <1>4, <1>5, <1>6, <1>7, <1>8, DropServes, EventServes
          DEF Next, Open, Answered, Ends

\* Whatever crosses the opening and the disposal of a session, its object serves
\* only connections that are attached.
THEOREM ServedAreAttached == Spec => []OnlyAttachedServed
  <1>1. Init => OnlyAttachedServed
    BY DEF Init, OnlyAttachedServed
  <1> QED BY <1>1, NextServes, LInvHolds, PTL DEF Spec
=============================================================================
