--------------------------- MODULE PiLeasesProofs ---------------------------
(***************************************************************************)
(* The leases of a session: exclusive leases are alone, the count that     *)
(* decides who detaches is exact, no attachment is taken away under a      *)
(* lease or leaked; for every set of leases, any number of disconnections, *)
(* and any division of the frames into chunks.                             *)
(***************************************************************************)
EXTENDS PiLeases, FiniteSetTheorems, SequenceTheorems, TLAPS

Stages == {"free", "waiting", "reconciling", "attaching", "creating", "active", "releasing",
           "invalidated"}
LeaseSet == [at : Stages, mode : Modes, relinquish : BOOLEAN, on : SUBSET Lease]
Promise == {Shared("attach"), Shared("reconcile"), Shared("create")}
             \cup {Detach(l) : l \in Lease}
Answer == {Settled(p, ok) : p \in Promise, ok \in BOOLEAN}
Frame == Answer \cup {Settled(Shared("event"), TRUE)}

LTypeOK ==
  /\ known \in BOOLEAN /\ up \in BOOLEAN /\ cleanup \in BOOLEAN
  /\ attached \in BOOLEAN /\ served \in BOOLEAN /\ strayed \in BOOLEAN /\ late \in BOOLEAN
  /\ lease \in [Lease -> LeaseSet]
  /\ count \in Nat /\ exclusive \subseteq Lease /\ detachment \subseteq Lease
  /\ pending \in Seq(Promise) /\ sent \in Seq(Promise)
  /\ inbox \in Seq(Frame) /\ due \in Seq(Answer)

\* The promise p has been made and not resumed; left are the settled ones.
OpenWith(p, left) == Pending(p) \/ Due(p, left)
Open(p) == OpenWith(p, due)

\* No promise is made twice.
Distinct(left) ==
  \A i, j \in 1..Len(left) : left[i].of = left[j].of /\ left[i].by = left[j].by => i = j
UniqueWith(left) ==
  /\ \A i, j \in 1..Len(pending) : pending[i] = pending[j] => i = j
  /\ Distinct(left)
  /\ \A p \in Promise : ~(Pending(p) /\ Due(p, left))
Unique == UniqueWith(due)

\* Who awaits a promise awaits one that will be resumed.
Awaited ==
  /\ \A l \in Lease : lease[l].at = "waiting"
       => \E d \in Lease : lease[l].on = {d} /\ Open(Detach(d))
  /\ \A l \in Lease : lease[l].at = "attaching" => Open(Shared("attach"))
  /\ \A l \in Lease : lease[l].at = "reconciling" => Open(Shared("reconcile"))
  /\ \A l \in Lease : lease[l].at = "creating" => Open(Shared("create"))
  /\ \A l \in Lease : lease[l].at \in {"releasing", "invalidated"} <=> Open(Detach(l))
  /\ detachment = {} \/ \E d \in Lease : detachment = {d} /\ Open(Detach(d))

\* Without a connection there is nothing on its way.
Cut == ~up => /\ ~attached /\ ~served
              /\ pending = <<>> /\ sent = <<>> /\ inbox = <<>>

\* Without the session id there is at most the call that creates the session.
KnownInv ==
  /\ ~known => /\ count = 0 /\ exclusive = {} /\ ~cleanup /\ detachment = {}
               /\ \A l \in Lease : lease[l].at \in {"free", "creating"}
               /\ \A p \in Promise : Open(p) => p = Shared("create")
  /\ known => ~Open(Shared("create"))
  /\ Open(Shared("create")) => \E l \in Lease : lease[l].at = "creating"
  /\ \A l \in Lease : lease[l].at = "creating" => lease[l].mode = "exclusive"
  /\ \A l, k \in Lease : lease[l].at = "creating" /\ lease[k].at = "creating" => l = k

\* The leases that hold a reservation.
Hold == {l \in Lease : Holds(l)}

\* The reservations are accounted for, and an exclusive one is alone.
Accounted ==
  /\ count = Cardinality(Hold)
  /\ exclusive = {l \in Hold : lease[l].mode = "exclusive"}
  /\ \A l, k \in Hold : lease[l].mode = "exclusive" => l = k

\* One promise is under way at a time, for those who await it: a detachment only under
\* leases that wait for it, and a cleanup that is due holds up every lease.
Ordered ==
  /\ \A p, q \in Promise : Open(p) /\ Open(q) => p = q
  /\ Open(Shared("attach")) => \E l \in Lease : lease[l].at = "attaching"
  /\ Open(Shared("reconcile")) => \E l \in Lease : lease[l].at = "reconciling"
  /\ \A l \in Lease : lease[l].at # "invalidated"
  /\ \A l \in Lease : lease[l].at = "releasing"
       => detachment = {l} /\ \A k \in Hold : k # l => lease[k].at = "waiting"
  /\ cleanup => \A l \in Hold : lease[l].at = "reconciling"
  /\ \A l \in Lease : lease[l].at = "reconciling" => cleanup

\* While the client is connected the books are in order.
UpInv == up /\ ~strayed => Accounted /\ Ordered

\* The acquisitions that a disconnection left behind, all of which fail.
Failing ==
  /\ \A l \in Hold : lease[l].at \in {"waiting", "reconciling", "attaching"}
  /\ count <= Cardinality(Hold) /\ exclusive \subseteq Hold

\* The session whose creation was answered just before the disconnection.
Created ==
  /\ known /\ count = 1 /\ due = <<>>
  /\ \E l \in Lease : /\ Hold = {l} /\ exclusive = {l}
                      /\ lease[l].at = "active" /\ lease[l].mode = "exclusive"

DownInv == ~up /\ ~strayed => ~cleanup /\ (Failing \/ Created)

LInv == LTypeOK /\ Unique /\ Awaited /\ Cut /\ KnownInv /\ UpInv /\ DownInv

-----------------------------------------------------------------------------
(***************************************************************************)
(* Promises                                                                *)
(***************************************************************************)

\* Promises are told apart by what they are of and whose they are.
LEMMA PromiseFacts ==
  /\ \A p, q \in Promise : (p.of = q.of /\ p.by = q.by) <=> p = q
  /\ Shared("attach") \in Promise /\ Shared("reconcile") \in Promise
  /\ Shared("create") \in Promise
  /\ \A l \in Lease : Detach(l) \in Promise
  /\ \A p \in Promise : \/ p = Shared("attach") \/ p = Shared("reconcile") \/ p = Shared("create")
                        \/ \E l \in Lease : p = Detach(l)
  /\ Shared("attach") # Shared("reconcile") /\ Shared("attach") # Shared("create")
  /\ Shared("create") # Shared("reconcile")
  /\ \A l \in Lease : /\ Detach(l) # Shared("attach") /\ Detach(l) # Shared("reconcile")
                      /\ Detach(l) # Shared("create")
                      /\ Detach(l).of = "detach" /\ Detach(l).by = {l}
  /\ \A l, k \in Lease : Detach(l) = Detach(k) <=> l = k
  /\ Shared("attach").of = "attach" /\ Shared("reconcile").of = "reconcile"
  /\ Shared("create").of = "create"
  <1>1. \A p, q \in Promise : (p.of = q.of /\ p.by = q.by) <=> p = q
    BY DEF Promise, Shared, Detach
  <1>2. \A l, k \in Lease : Detach(l) = Detach(k) <=> l = k
    BY DEF Detach
  <1>3. QED
    BY <1>1, <1>2 DEF Promise, Shared, Detach

\* An answer is a promise with its outcome.
LEMMA AnswerFacts ==
  /\ \A p \in Promise, ok \in BOOLEAN : /\ Settled(p, ok) \in Answer /\ Settled(p, ok).ok = ok
                                        /\ Settled(p, ok).of = p.of /\ Settled(p, ok).by = p.by
  /\ \A m \in Answer : /\ m.ok \in BOOLEAN
                       /\ \E p \in Promise : m = Settled(p, m.ok) /\ m.of = p.of /\ m.by = p.by
  /\ \A m \in Frame : m.of # "event" => m \in Answer
  <1>1. \A p \in Promise, ok \in BOOLEAN : /\ Settled(p, ok) \in Answer /\ Settled(p, ok).ok = ok
                                           /\ Settled(p, ok).of = p.of /\ Settled(p, ok).by = p.by
    BY DEF Answer, Settled
  <1>2. ASSUME NEW m \in Answer
        PROVE  /\ m.ok \in BOOLEAN
               /\ \E p \in Promise : m = Settled(p, m.ok) /\ m.of = p.of /\ m.by = p.by
    <2>1. PICK p \in Promise, ok \in BOOLEAN : m = Settled(p, ok)
      BY <1>2 DEF Answer
    <2>2. QED
      BY <1>1, <2>1
  <1>3. \A m \in Frame : m.of # "event" => m \in Answer
    BY DEF Frame, Settled, Shared
  <1>4. QED
    BY <1>1, <1>2, <1>3

\* What Append does, element by element.
LEMMA AppendFacts ==
  ASSUME NEW S, NEW q \in Seq(S), NEW e \in S
  PROVE  /\ Append(q, e) \in Seq(S) /\ Len(Append(q, e)) = Len(q) + 1 /\ Len(q) \in Nat
         /\ \A i \in 1..Len(Append(q, e)) :
              Append(q, e)[i] = IF i = Len(q) + 1 THEN e ELSE q[i]
         /\ \A i \in 1..Len(q) : i \in 1..Len(Append(q, e)) /\ Append(q, e)[i] = q[i]
         /\ Len(q) + 1 \in 1..Len(Append(q, e)) /\ Append(q, e)[Len(q) + 1] = e
  BY AppendProperties, LenProperties

\* What Tail does, element by element.
LEMMA TailFacts ==
  ASSUME NEW S, NEW q \in Seq(S), q # <<>>
  PROVE  /\ Tail(q) \in Seq(S) /\ Head(q) \in S /\ Head(q) = q[1]
         /\ Len(Tail(q)) = Len(q) - 1 /\ Len(q) \in Nat \ {0} /\ 1 \in 1..Len(q)
         /\ \A i \in 1..Len(Tail(q)) : i + 1 \in 1..Len(q) /\ Tail(q)[i] = q[i + 1]
         /\ \A i \in 2..Len(q) : i - 1 \in 1..Len(Tail(q)) /\ Tail(q)[i - 1] = q[i]
         /\ \A i \in 1..Len(q) : i = 1 \/ i \in 2..Len(q)
  BY HeadTailProperties, LenProperties, EmptySeq

\* A promise that joins the settled ones: nothing else changes.
LEMMA DueAppend ==
  ASSUME NEW left \in Seq(Answer), NEW m \in Answer
  PROVE  /\ \A q \in Promise :
              Due(q, Append(left, m)) <=> Due(q, left) \/ (q.of = m.of /\ q.by = m.by)
         /\ Append(left, m) \in Seq(Answer)
         /\ Distinct(left) /\ ~(\E i \in 1..Len(left) : left[i].of = m.of /\ left[i].by = m.by)
              => Distinct(Append(left, m))
  <1>1. /\ \A i \in 1..Len(Append(left, m)) :
             Append(left, m)[i] = IF i = Len(left) + 1 THEN m ELSE left[i]
        /\ \A i \in 1..Len(left) : i \in 1..Len(Append(left, m)) /\ Append(left, m)[i] = left[i]
        /\ Len(left) + 1 \in 1..Len(Append(left, m)) /\ Append(left, m)[Len(left) + 1] = m
        /\ Append(left, m) \in Seq(Answer)
        /\ Len(left) \in Nat /\ Len(Append(left, m)) = Len(left) + 1
    BY AppendFacts
  <1>2. ASSUME NEW q \in Promise, Due(q, Append(left, m))
        PROVE  Due(q, left) \/ (q.of = m.of /\ q.by = m.by)
    <2>1. PICK i \in 1..Len(Append(left, m)) :
                 Append(left, m)[i].of = q.of /\ Append(left, m)[i].by = q.by
      BY <1>2 DEF Due
    <2>2. CASE i = Len(left) + 1
      BY <1>1, <2>1, <2>2
    <2>3. CASE i # Len(left) + 1
      <3>1. i \in 1..Len(left) /\ left[i] = Append(left, m)[i]
        BY <1>1, <2>3
      <3>2. QED
        BY <2>1, <3>1 DEF Due
    <2>4. QED
      BY <2>2, <2>3
  <1>3. ASSUME NEW q \in Promise, Due(q, left) \/ (q.of = m.of /\ q.by = m.by)
        PROVE  Due(q, Append(left, m))
    BY <1>1, <1>3 DEF Due
  <1>4. ASSUME Distinct(left), ~\E i \in 1..Len(left) : left[i].of = m.of /\ left[i].by = m.by,
               NEW i \in 1..Len(Append(left, m)), NEW j \in 1..Len(Append(left, m)),
               Append(left, m)[i].of = Append(left, m)[j].of,
               Append(left, m)[i].by = Append(left, m)[j].by
        PROVE  i = j
    <2>1. CASE i \in 1..Len(left) /\ j \in 1..Len(left)
      BY <1>1, <1>4, <2>1 DEF Distinct
    <2>2. CASE i \in 1..Len(left) /\ j = Len(left) + 1
      BY <1>1, <1>4, <2>2
    <2>3. CASE j \in 1..Len(left) /\ i = Len(left) + 1
      BY <1>1, <1>4, <2>3
    <2>4. QED
      BY <1>1, <2>1, <2>2, <2>3
  <1>5. QED
    BY <1>1, <1>2, <1>3, <1>4 DEF Distinct

\* A promise is made, or shared: it is under way afterwards and no other is new.
LEMMA RequestFacts ==
  ASSUME LTypeOK, NEW p \in Promise, NEW left \in Seq(Answer), UniqueWith(left),
         Request(p, left)
  PROVE  /\ pending' \in Seq(Promise) /\ sent' \in Seq(Promise) /\ due' \in Seq(Answer)
         /\ Unique'
         /\ \A q \in Promise : Open(q)' <=> OpenWith(q, left) \/ q = p
         /\ ~up => UNCHANGED <<pending, sent>>
  <1>0. pending \in Seq(Promise) /\ sent \in Seq(Promise)
    BY DEF LTypeOK
  <1>1. CASE OpenWith(p, left)
    <2>1. due' = left /\ UNCHANGED <<pending, sent>>
      BY <1>1 DEF Request, OpenWith
    <2>2. \A q \in Promise : (Pending(q)' <=> Pending(q)) /\ (Due(q, due)' <=> Due(q, left))
      BY <2>1 DEF Pending, Due
    <2>3. Unique'
      BY <2>1, <2>2 DEF Unique, UniqueWith, Distinct
    <2>4. QED
      BY <1>0, <1>1, <2>1, <2>2, <2>3 DEF Open, OpenWith
  <1>2. CASE ~OpenWith(p, left) /\ up
    <2>1. pending' = Append(pending, p) /\ sent' = Append(sent, p) /\ due' = left
      BY <1>2 DEF Request, OpenWith
    <2>2. /\ pending' \in Seq(Promise)
          /\ \A i \in 1..Len(pending') : pending'[i] = IF i = Len(pending) + 1 THEN p ELSE pending[i]
          /\ \A i \in 1..Len(pending) : i \in 1..Len(pending') /\ pending'[i] = pending[i]
          /\ Len(pending) + 1 \in 1..Len(pending') /\ Len(pending') = Len(pending) + 1
          /\ Len(pending) \in Nat
      BY <1>0, <2>1, AppendFacts
    <2>3. sent' \in Seq(Promise)
      BY <1>0, <2>1, AppendFacts
    <2>4. \A q \in Promise : Pending(q)' <=> Pending(q) \/ q = p
      BY <2>2 DEF Pending
    <2>5. \A q \in Promise : Due(q, due)' <=> Due(q, left)
      BY <2>1 DEF Due
    <2>6. \A i, j \in 1..Len(pending') : pending'[i] = pending'[j] => i = j
      BY <1>2, <2>2 DEF UniqueWith, OpenWith, Pending
    <2>7. Unique'
      BY <1>2, <2>1, <2>4, <2>5, <2>6 DEF Unique, UniqueWith, OpenWith, Distinct
    <2>8. QED
      BY <1>2, <2>1, <2>2, <2>3, <2>4, <2>5, <2>7 DEF Open, OpenWith
  <1>3. CASE ~OpenWith(p, left) /\ ~up
    <2>1. PICK m \in Answer : m = Settled(p, FALSE) /\ m.of = p.of /\ m.by = p.by
      BY AnswerFacts
    <2>2. due' = Append(left, m) /\ UNCHANGED <<pending, sent>>
      BY <1>3, <2>1 DEF Request, OpenWith
    <2>3. \A i \in 1..Len(left) : ~(left[i].of = m.of /\ left[i].by = m.by)
      BY <1>3, <2>1 DEF OpenWith, Due
    <2>4. \A q \in Promise : q.of = m.of /\ q.by = m.by <=> q = p
      <3>1. \A q \in Promise : q.of = p.of /\ q.by = p.by <=> q = p
        BY PromiseFacts
      <3>2. m.of = p.of /\ m.by = p.by
        BY <2>1
      <3>3. QED
        BY <3>1, <3>2
    <2>5. Distinct(left)
      BY DEF UniqueWith
    <2>6. /\ \A q \in Promise : Due(q, Append(left, m)) <=> Due(q, left) \/ q = p
          /\ Append(left, m) \in Seq(Answer) /\ Distinct(Append(left, m))
      BY <2>3, <2>4, <2>5, DueAppend
    <2>7. \A q \in Promise : Due(q, due)' <=> Due(q, left) \/ q = p
      BY <2>2, <2>6 DEF Due
    <2>8. \A q \in Promise : Pending(q)' <=> Pending(q)
      BY <2>2 DEF Pending
    <2>9. Distinct(due)'
      BY <2>2, <2>6 DEF Distinct
    <2>10. Unique'
      BY <1>3, <2>2, <2>7, <2>8, <2>9 DEF Unique, UniqueWith, OpenWith
    <2>11. QED
      BY <1>0, <1>3, <2>2, <2>6, <2>7, <2>8, <2>10 DEF Open, OpenWith
  <1>4. QED
    BY <1>1, <1>2, <1>3 DEF LTypeOK

\* The first settled promise is resumed, and is under way no more.
LEMMA ResumeFacts ==
  ASSUME LTypeOK, Unique, due # <<>>
  PROVE  /\ Tail(due) \in Seq(Answer) /\ Head(due) \in Answer
         /\ UniqueWith(Tail(due))
         /\ \E p \in Promise : /\ Head(due).of = p.of /\ Head(due).by = p.by /\ Open(p)
                               /\ \A q \in Promise : OpenWith(q, Tail(due)) <=> Open(q) /\ q # p
  <1>0. due \in Seq(Answer)
    BY DEF LTypeOK
  <1>1. /\ Tail(due) \in Seq(Answer) /\ Head(due) \in Answer /\ Head(due) = due[1]
        /\ Len(Tail(due)) = Len(due) - 1 /\ Len(due) \in Nat \ {0} /\ 1 \in 1..Len(due)
        /\ \A i \in 1..Len(Tail(due)) : i + 1 \in 1..Len(due) /\ Tail(due)[i] = due[i + 1]
        /\ \A i \in 2..Len(due) : i - 1 \in 1..Len(Tail(due)) /\ Tail(due)[i - 1] = due[i]
        /\ \A i \in 1..Len(due) : i = 1 \/ i \in 2..Len(due)
    BY <1>0, TailFacts
  <1>2. PICK p \in Promise : Head(due).of = p.of /\ Head(due).by = p.by
    BY <1>1, AnswerFacts
  <1>3. Due(p, due)
    BY <1>1, <1>2 DEF Due
  <1>4. ASSUME NEW q \in Promise, Due(q, Tail(due)) PROVE Due(q, due) /\ q # p
    <2>1. PICK i \in 1..Len(Tail(due)) : Tail(due)[i].of = q.of /\ Tail(due)[i].by = q.by
      BY <1>4 DEF Due
    <2>2. i + 1 \in 1..Len(due) /\ due[i + 1].of = q.of /\ due[i + 1].by = q.by /\ i + 1 # 1
      BY <1>1, <2>1
    <2>3. ~(due[1].of = q.of /\ due[1].by = q.by)
      BY <1>1, <2>2 DEF Unique, UniqueWith, Distinct
    <2>4. QED
      BY <1>1, <1>2, <2>2, <2>3 DEF Due
  <1>5. ASSUME NEW q \in Promise, Due(q, due), q # p PROVE Due(q, Tail(due))
    <2>1. PICK i \in 1..Len(due) : due[i].of = q.of /\ due[i].by = q.by
      BY <1>5 DEF Due
    <2>2. i # 1
      BY <1>1, <1>2, <1>5, <2>1, PromiseFacts
    <2>3. i - 1 \in 1..Len(Tail(due)) /\ Tail(due)[i - 1] = due[i]
      BY <1>1, <2>2
    <2>4. QED
      BY <2>1, <2>3 DEF Due
  <1>6. Distinct(Tail(due))
    <2>1. SUFFICES ASSUME NEW i \in 1..Len(Tail(due)), NEW j \in 1..Len(Tail(due)),
                          Tail(due)[i].of = Tail(due)[j].of, Tail(due)[i].by = Tail(due)[j].by
                   PROVE  i = j
      BY DEF Distinct
    <2>2. i + 1 = j + 1
      BY <1>1, <2>1 DEF Unique, UniqueWith, Distinct
    <2>3. QED
      BY <1>1, <2>2
  <1>7. UniqueWith(Tail(due))
    BY <1>4, <1>6 DEF Unique, UniqueWith
  <1>8. ~Pending(p)
    BY <1>3 DEF Unique, UniqueWith
  <1>9. \A q \in Promise : OpenWith(q, Tail(due)) <=> Open(q) /\ q # p
    BY <1>4, <1>5, <1>8 DEF Open, OpenWith
  <1>10. QED
    BY <1>1, <1>2, <1>3, <1>7, <1>9 DEF Open, OpenWith

\* A response takes its request: the promise is settled, and under way all the same.
LEMMA ResponseFacts ==
  ASSUME LTypeOK, Unique, NEW k \in 1..Len(pending), NEW m \in Answer,
         pending[k].of = m.of, pending[k].by = m.by,
         pending' = Taken(k), due' = Append(due, m)
  PROVE  /\ pending' \in Seq(Promise) /\ due' \in Seq(Answer)
         /\ Unique'
         /\ \A q \in Promise : Open(q)' <=> Open(q)
  <1>0. /\ pending \in Seq(Promise) /\ due \in Seq(Answer)
        /\ Len(pending) \in Nat /\ k \in Nat /\ pending \in [1..Len(pending) -> Promise]
    BY LenProperties DEF LTypeOK
  <1>1. PICK p \in Promise : p = pending[k]
    BY <1>0
  <1>2. \A q \in Promise : q.of = m.of /\ q.by = m.by <=> q = p
    <2>1. \A q \in Promise : q.of = p.of /\ q.by = p.by <=> q = p
      BY PromiseFacts
    <2>2. m.of = p.of /\ m.by = p.by
      BY <1>1
    <2>3. QED
      BY <2>1, <2>2
  <1>3. /\ Len(pending') = Len(pending) - 1
        /\ \A i \in 1..Len(pending') : pending'[i] = pending[IF i < k THEN i ELSE i + 1]
        /\ pending' \in Seq(Promise)
    <2>1. Len(pending) - 1 \in Nat
      BY <1>0
    <2>2. \A i \in 1..Len(pending) - 1 : (IF i < k THEN i ELSE i + 1) \in 1..Len(pending)
      BY <1>0
    <2>3. pending' \in [1..Len(pending) - 1 -> Promise]
      BY <1>0, <2>2 DEF Taken
    <2> DEFINE n == Len(pending) - 1
    <2>4. pending' \in Seq(Promise) /\ Len(pending') = n
      <3>1. n \in Nat /\ pending' \in [1..n -> Promise]
        BY <2>1, <2>3
      <3> HIDE DEF n
      <3>2. QED
        BY <3>1
    <2>5. QED
      BY <2>4 DEF Taken
  <1>4. \A i, j \in 1..Len(pending) : pending[i] = pending[j] => i = j
    BY DEF Unique, UniqueWith
  <1>5. \A i, j \in 1..Len(pending') : pending'[i] = pending'[j] => i = j
    <2>1. SUFFICES ASSUME NEW i \in 1..Len(pending'), NEW j \in 1..Len(pending'),
                          pending'[i] = pending'[j]
                   PROVE  i = j
      OBVIOUS
    <2>2. (IF i < k THEN i ELSE i + 1) = (IF j < k THEN j ELSE j + 1)
      BY <1>0, <1>3, <1>4, <2>1
    <2>3. QED
      BY <1>0, <1>3, <2>1, <2>2
  <1>6. ASSUME NEW q \in Promise PROVE Pending(q)' <=> Pending(q) /\ q # p
    <2>1. ASSUME Pending(q)' PROVE Pending(q) /\ q # p
      <3>1. PICK i \in 1..Len(pending') : pending'[i] = q
        BY <2>1 DEF Pending
      <3>2. PICK j \in 1..Len(pending) : j = (IF i < k THEN i ELSE i + 1) /\ j # k
        BY <1>0, <1>3, <3>1
      <3>3. pending[j] = q
        BY <1>3, <3>1, <3>2
      <3>4. QED
        BY <1>1, <1>4, <3>2, <3>3 DEF Pending
    <2>2. ASSUME Pending(q), q # p PROVE Pending(q)'
      <3>1. PICK i \in 1..Len(pending) : pending[i] = q
        BY <2>2 DEF Pending
      <3>2. i # k
        BY <1>1, <2>2, <3>1
      <3>3. PICK j \in 1..Len(pending') : i = (IF j < k THEN j ELSE j + 1)
        <4>1. CASE i < k
          <5>1. i \in 1..Len(pending')
            BY <1>0, <1>3, <4>1
          <5>2. QED
            BY <4>1, <5>1
        <4>2. CASE i > k
          <5>1. i - 1 \in 1..Len(pending') /\ i = (i - 1) + 1 /\ ~(i - 1 < k)
            BY <1>0, <1>3, <4>2
          <5>2. QED
            BY <5>1
        <4>3. QED
          BY <1>0, <3>2, <4>1, <4>2
      <3>4. pending'[j] = q
        BY <1>3, <3>1, <3>3
      <3>5. QED
        BY <3>4 DEF Pending
    <2>3. QED
      BY <2>1, <2>2
  <1>7. Pending(p)
    BY <1>1 DEF Pending
  <1>8. \A i \in 1..Len(due) : ~(due[i].of = m.of /\ due[i].by = m.by)
    BY <1>1, <1>7 DEF Unique, UniqueWith, Due
  <1>9. /\ \A q \in Promise : Due(q, Append(due, m)) <=> Due(q, due) \/ q = p
        /\ Append(due, m) \in Seq(Answer) /\ Distinct(Append(due, m))
    <2>1. Distinct(due)
      BY DEF Unique, UniqueWith
    <2>2. QED
      BY <1>0, <1>2, <1>8, <2>1, DueAppend
  <1>10. \A q \in Promise : Due(q, due)' <=> Due(q, due) \/ q = p
    BY <1>9 DEF Due
  <1>11. Distinct(due)'
    BY <1>9 DEF Distinct
  <1>12. Unique'
    BY <1>5, <1>6, <1>10, <1>11 DEF Unique, UniqueWith
  <1>13. QED
    BY <1>3, <1>6, <1>7, <1>9, <1>10, <1>12 DEF Open, OpenWith

\* The requests that were not answered fail: all that was under way is settled.
LEMMA RejectFacts ==
  ASSUME LTypeOK, Unique, pending' = <<>>, due' = due \o Rejected
  PROVE  /\ due' \in Seq(Answer)
         /\ Unique'
         /\ \A q \in Promise : Open(q)' <=> Open(q)
  <1>0. /\ pending \in Seq(Promise) /\ due \in Seq(Answer)
        /\ Len(pending) \in Nat /\ Len(due) \in Nat
        /\ \A i \in 1..Len(pending) : pending[i] \in Promise
    BY LenProperties, ElementOfSeq DEF LTypeOK
  <1>1. /\ Rejected \in Seq(Answer) /\ Len(Rejected) = Len(pending)
        /\ \A i \in 1..Len(pending) : /\ Rejected[i].of = pending[i].of
                                      /\ Rejected[i].by = pending[i].by
    <2>1. \A i \in 1..Len(pending) : /\ Settled(pending[i], FALSE) \in Answer
                                     /\ Settled(pending[i], FALSE).of = pending[i].of
                                     /\ Settled(pending[i], FALSE).by = pending[i].by
      BY <1>0, AnswerFacts
    <2>2. PICK n \in Nat : n = Len(pending)
      BY <1>0
    <2>3. Rejected \in [1..n -> Answer] /\ \A i \in 1..n : Rejected[i] = Settled(pending[i], FALSE)
      BY <2>1, <2>2 DEF Rejected
    <2>4. Rejected \in Seq(Answer) /\ Len(Rejected) = n
      BY <2>3
    <2>5. QED
      BY <2>1, <2>2, <2>3, <2>4
  <1>2. /\ due' \in Seq(Answer) /\ Len(due') = Len(due) + Len(pending)
        /\ \A i \in 1..Len(due') : due'[i] = IF i <= Len(due) THEN due[i]
                                             ELSE Rejected[i - Len(due)]
    <2>1. PICK r \in Seq(Answer) : r = Rejected
      BY <1>1
    <2>2. /\ due \o r \in Seq(Answer) /\ Len(due \o r) = Len(due) + Len(r)
          /\ \A i \in 1..Len(due) + Len(r) : (due \o r)[i] = IF i <= Len(due) THEN due[i]
                                                            ELSE r[i - Len(due)]
      BY <1>0, ConcatProperties
    <2>3. due' = due \o r /\ Len(r) = Len(pending)
      BY <1>1, <2>1
    <2>4. QED
      BY <2>1, <2>2, <2>3
  <1>3. ASSUME NEW q \in Promise, Due(q, due)' PROVE Open(q)
    <2>1. PICK i \in 1..Len(due') : due'[i].of = q.of /\ due'[i].by = q.by
      BY <1>3 DEF Due
    <2>2. CASE i <= Len(due)
      <3>1. i \in 1..Len(due) /\ due[i].of = q.of /\ due[i].by = q.by
        BY <1>0, <1>2, <2>1, <2>2
      <3>2. QED
        BY <3>1 DEF Open, OpenWith, Due
    <2>3. CASE ~(i <= Len(due))
      <3>1. PICK j \in 1..Len(pending) : j = i - Len(due)
        BY <1>0, <1>2, <2>3
      <3>2. pending[j].of = q.of /\ pending[j].by = q.by
        BY <1>1, <1>2, <2>1, <2>3, <3>1
      <3>3. pending[j] = q
        BY <1>0, <3>2, PromiseFacts
      <3>4. QED
        BY <3>3 DEF Open, OpenWith, Pending
    <2>4. QED
      BY <2>2, <2>3
  <1>4. ASSUME NEW q \in Promise, Open(q) PROVE Due(q, due)'
    <2>1. CASE Due(q, due)
      <3>1. PICK i \in 1..Len(due) : due[i].of = q.of /\ due[i].by = q.by
        BY <2>1 DEF Due
      <3>2. i \in 1..Len(due') /\ due'[i] = due[i]
        BY <1>0, <1>2, <3>1
      <3>3. QED
        BY <3>1, <3>2 DEF Due
    <2>2. CASE Pending(q)
      <3>1. PICK i \in 1..Len(pending) : pending[i] = q
        BY <2>2 DEF Pending
      <3>2. i + Len(due) \in 1..Len(due') /\ due'[i + Len(due)] = Rejected[i]
        BY <1>0, <1>2, <3>1
      <3>3. QED
        BY <1>1, <3>1, <3>2 DEF Due
    <2>3. QED
      BY <1>4, <2>1, <2>2 DEF Open, OpenWith
  <1>5. ASSUME NEW i \in 1..Len(due'), NEW j \in 1..Len(due'),
               due'[i].of = due'[j].of, due'[i].by = due'[j].by
        PROVE  i = j
    <2>1. CASE i <= Len(due) /\ j <= Len(due)
      <3>1. i \in 1..Len(due) /\ j \in 1..Len(due) /\ due'[i] = due[i] /\ due'[j] = due[j]
        BY <1>0, <1>2, <2>1
      <3>2. QED
        BY <1>5, <3>1 DEF Unique, UniqueWith, Distinct
    <2>2. CASE ~(i <= Len(due)) /\ ~(j <= Len(due))
      <3>1. PICK a \in 1..Len(pending) : a = i - Len(due) /\ due'[i] = Rejected[a]
        BY <1>0, <1>2, <2>2
      <3>2. PICK b \in 1..Len(pending) : b = j - Len(due) /\ due'[j] = Rejected[b]
        BY <1>0, <1>2, <2>2
      <3>3. pending[a].of = pending[b].of /\ pending[a].by = pending[b].by
        BY <1>1, <1>5, <3>1, <3>2
      <3>4. pending[a] = pending[b]
        BY <1>0, <3>3, PromiseFacts
      <3>5. a = b
        BY <3>4 DEF Unique, UniqueWith
      <3>6. QED
        BY <1>0, <3>1, <3>2, <3>5
    <2>3. ASSUME NEW x \in 1..Len(due'), NEW y \in 1..Len(due'), x <= Len(due), ~(y <= Len(due)),
                 due'[x].of = due'[y].of, due'[x].by = due'[y].by
          PROVE  FALSE
      <3>1. x \in 1..Len(due) /\ due'[x] = due[x]
        BY <1>0, <1>2, <2>3
      <3>2. PICK b \in 1..Len(pending) : b = y - Len(due) /\ due'[y] = Rejected[b]
        <4>1. y - Len(due) \in 1..Len(pending) /\ due'[y] = Rejected[y - Len(due)]
          BY <1>0, <1>2, <2>3
        <4>2. QED
          BY <4>1
      <3>3. due[x].of = pending[b].of /\ due[x].by = pending[b].by
        BY <1>1, <2>3, <3>1, <3>2
      <3>4. Pending(pending[b]) /\ Due(pending[b], due) /\ pending[b] \in Promise
        BY <1>0, <3>1, <3>3 DEF Pending, Due
      <3>5. QED
        BY <3>4 DEF Unique, UniqueWith
    <2>4. QED
      BY <1>5, <2>1, <2>2, <2>3
  <1>6. \A q \in Promise : ~Pending(q)'
    BY DEF Pending
  <1>7. Unique'
    BY <1>5, <1>6 DEF Unique, UniqueWith, Distinct
  <1>8. QED
    BY <1>2, <1>3, <1>4, <1>6, <1>7 DEF Open, OpenWith

-----------------------------------------------------------------------------
(***************************************************************************)
(* Reservations and acquisitions                                           *)
(***************************************************************************)

\* Sets of leases are finite, and counting them is arithmetic.
LEMMA LeaseSets ==
  /\ \A S \in SUBSET Lease : IsFiniteSet(S) /\ Cardinality(S) \in Nat
  /\ \A S \in SUBSET Lease, l \in Lease : l \notin S => Cardinality(S \cup {l}) = Cardinality(S) + 1
  /\ \A S, T \in SUBSET Lease : T \subseteq S => Cardinality(S \ T) = Cardinality(S) - Cardinality(T)
  /\ \A S \in SUBSET Lease : \A l \in S : Cardinality(S \ {l}) = Cardinality(S) - 1
  /\ \A l \in Lease : Cardinality({l}) = 1
  /\ Cardinality({}) = 0
  /\ \A S \in SUBSET Lease : Cardinality(S) = 0 <=> S = {}
  /\ \A S, T \in SUBSET Lease : T \subseteq S => Cardinality(T) <= Cardinality(S)
  <1>1. ASSUME NEW S \in SUBSET Lease
        PROVE  IsFiniteSet(S) /\ Cardinality(S) \in Nat /\ (Cardinality(S) = 0 <=> S = {})
    BY LeaseConstants, FS_Subset, FS_CardinalityType, FS_EmptySet
  <1>2. ASSUME NEW S \in SUBSET Lease, NEW l \in Lease, l \notin S
        PROVE  Cardinality(S \cup {l}) = Cardinality(S) + 1
    BY <1>1, <1>2, FS_AddElement
  <1>3. ASSUME NEW S \in SUBSET Lease, NEW T \in SUBSET Lease, T \subseteq S
        PROVE  Cardinality(S \ T) = Cardinality(S) - Cardinality(T) /\ Cardinality(T) <= Cardinality(S)
    <2>1. IsFiniteSet(S) /\ IsFiniteSet(T) /\ S \cap T = T
      BY <1>1, <1>3
    <2>2. Cardinality(S \ T) = Cardinality(S) - Cardinality(S \cap T)
      BY <2>1, FS_Difference
    <2>3. Cardinality(T) <= Cardinality(S)
      BY <1>3, <2>1, FS_Subset
    <2>4. QED
      BY <2>1, <2>2, <2>3
  <1>4. \A l \in Lease : Cardinality({l}) = 1
    BY FS_Singleton
  <1>5. ASSUME NEW S \in SUBSET Lease, NEW l \in S PROVE Cardinality(S \ {l}) = Cardinality(S) - 1
    <2>1. {l} \in SUBSET Lease /\ {l} \subseteq S /\ Cardinality({l}) = 1
      BY <1>4
    <2>2. QED
      BY <1>3, <2>1
  <1>6. QED
    BY <1>1, <1>2, <1>3, <1>4, <1>5, FS_EmptySet

\* A lease that changes its stage.
LEMMA StageFacts ==
  ASSUME NEW r \in LeaseSet, NEW where \in Stages
  PROVE  /\ [r EXCEPT !.at = where] \in LeaseSet
         /\ [r EXCEPT !.at = where].at = where /\ [r EXCEPT !.at = where].mode = r.mode
         /\ [r EXCEPT !.at = where].on = r.on
         /\ [r EXCEPT !.at = where].relinquish = r.relinquish
         /\ [r EXCEPT !.at = where, !.on = {}] \in LeaseSet
         /\ [r EXCEPT !.at = where, !.on = {}].at = where
         /\ [r EXCEPT !.at = where, !.on = {}].mode = r.mode
  <1>1. /\ [r EXCEPT !.at = where] \in LeaseSet
        /\ [r EXCEPT !.at = where].at = where /\ [r EXCEPT !.at = where].mode = r.mode
        /\ [r EXCEPT !.at = where].on = r.on
        /\ [r EXCEPT !.at = where].relinquish = r.relinquish
    BY DEF LeaseSet
  <1>2. PICK none \in SUBSET Lease : none = {}
    OBVIOUS
  <1>3. /\ [r EXCEPT !.at = where, !.on = none] \in LeaseSet
        /\ [r EXCEPT !.at = where, !.on = none].at = where
        /\ [r EXCEPT !.at = where, !.on = none].mode = r.mode
    BY DEF LeaseSet
  <1>4. QED
    BY <1>1, <1>2, <1>3

\* acquireSession behind its first await.
LEMMA ProceedFacts ==
  ASSUME LTypeOK, NEW ls \in SUBSET Lease, NEW now \in [Lease -> LeaseSet],
         NEW left \in Seq(Answer), UniqueWith(left), cleanup' \in BOOLEAN,
         Proceed(ls, now, left)
  PROVE  /\ lease' \in [Lease -> LeaseSet]
         /\ \A l \in Lease : l \notin ls => lease'[l] = now[l]
         /\ \A l \in ls : /\ lease'[l].mode = now[l].mode
                          /\ lease'[l].at = IF cleanup' THEN "reconciling"
                                            ELSE IF attached THEN "active" ELSE "attaching"
         /\ pending' \in Seq(Promise) /\ sent' \in Seq(Promise) /\ due' \in Seq(Answer)
         /\ Unique'
         /\ \A q \in Promise : Open(q)' <=> \/ OpenWith(q, left)
                                            \/ cleanup' /\ q = Shared("reconcile")
                                            \/ ~cleanup' /\ ~attached /\ q = Shared("attach")
         /\ ~up => UNCHANGED <<pending, sent>>
  <1>0. attached \in BOOLEAN /\ pending \in Seq(Promise) /\ sent \in Seq(Promise)
    BY DEF LTypeOK
  <1>1. CASE cleanup'
    <2>1. /\ lease' = [l \in Lease |-> IF l \in ls THEN [now[l] EXCEPT !.at = "reconciling", !.on = {}] ELSE now[l]]
          /\ Request(Shared("reconcile"), left)
      BY <1>1 DEF Proceed
    <2>2. \A l \in Lease : /\ [now[l] EXCEPT !.at = "reconciling", !.on = {}] \in LeaseSet
                            /\ [now[l] EXCEPT !.at = "reconciling", !.on = {}].at = "reconciling"
                            /\ [now[l] EXCEPT !.at = "reconciling", !.on = {}].mode = now[l].mode
      <3>1. "reconciling" \in Stages /\ \A l \in Lease : now[l] \in LeaseSet
        BY DEF Stages
      <3>2. QED
        BY <3>1, StageFacts
    <2>3. /\ lease' \in [Lease -> LeaseSet]
          /\ \A l \in Lease : l \notin ls => lease'[l] = now[l]
          /\ \A l \in ls : lease'[l].mode = now[l].mode /\ lease'[l].at = "reconciling"
      BY <2>1, <2>2
    <2>4. QED
      BY <1>1, <2>1, <2>3, PromiseFacts, RequestFacts
  <1>2. CASE ~cleanup' /\ attached
    <2>1. /\ lease' = [l \in Lease |-> IF l \in ls THEN [now[l] EXCEPT !.at = "active", !.on = {}] ELSE now[l]]
          /\ due' = left /\ UNCHANGED <<pending, sent>>
      BY <1>2 DEF Proceed
    <2>2. \A l \in Lease : /\ [now[l] EXCEPT !.at = "active", !.on = {}] \in LeaseSet
                            /\ [now[l] EXCEPT !.at = "active", !.on = {}].at = "active"
                            /\ [now[l] EXCEPT !.at = "active", !.on = {}].mode = now[l].mode
      <3>1. "active" \in Stages /\ \A l \in Lease : now[l] \in LeaseSet
        BY DEF Stages
      <3>2. QED
        BY <3>1, StageFacts
    <2>3. /\ lease' \in [Lease -> LeaseSet]
          /\ \A l \in Lease : l \notin ls => lease'[l] = now[l]
          /\ \A l \in ls : lease'[l].mode = now[l].mode /\ lease'[l].at = "active"
      BY <2>1, <2>2
    <2>4. /\ \A q \in Promise : Open(q)' <=> OpenWith(q, left)
          /\ Unique'
      BY <2>1 DEF Open, OpenWith, Pending, Due, Unique, UniqueWith, Distinct
    <2>5. QED
      BY <1>0, <1>2, <2>1, <2>3, <2>4
  <1>3. CASE ~cleanup' /\ ~attached
    <2>1. /\ lease' = [l \in Lease |-> IF l \in ls THEN [now[l] EXCEPT !.at = "attaching", !.on = {}] ELSE now[l]]
          /\ Request(Shared("attach"), left)
      BY <1>3 DEF Proceed
    <2>2. \A l \in Lease : /\ [now[l] EXCEPT !.at = "attaching", !.on = {}] \in LeaseSet
                            /\ [now[l] EXCEPT !.at = "attaching", !.on = {}].at = "attaching"
                            /\ [now[l] EXCEPT !.at = "attaching", !.on = {}].mode = now[l].mode
      <3>1. "attaching" \in Stages /\ \A l \in Lease : now[l] \in LeaseSet
        BY DEF Stages
      <3>2. QED
        BY <3>1, StageFacts
    <2>3. /\ lease' \in [Lease -> LeaseSet]
          /\ \A l \in Lease : l \notin ls => lease'[l] = now[l]
          /\ \A l \in ls : lease'[l].mode = now[l].mode /\ lease'[l].at = "attaching"
      BY <2>1, <2>2
    <2>4. QED
      BY <1>3, <2>1, <2>3, PromiseFacts, RequestFacts
  <1>4. QED
    BY <1>0, <1>1, <1>2, <1>3

\* acquireSession up to its first await, or through it.
LEMMA AcquireFacts ==
  ASSUME LTypeOK, Unique, NEW l \in Lease, NEW mode \in Modes, Acquire(l, mode)
  PROVE  /\ LTypeOK' /\ Unique'
         /\ \A k \in Lease : k # l => lease'[k] = lease[k]
         /\ lease'[l].mode = mode
         /\ \/ /\ detachment # {} /\ lease'[l].at = "waiting" /\ lease'[l].on = detachment
               /\ \A q \in Promise : Open(q)' <=> Open(q)
               /\ UNCHANGED <<pending, sent>>
            \/ /\ detachment = {}
               /\ lease'[l].at = IF cleanup THEN "reconciling"
                                 ELSE IF attached THEN "active" ELSE "attaching"
               /\ \A q \in Promise : Open(q)' <=> \/ Open(q)
                                                  \/ cleanup /\ q = Shared("reconcile")
                                                  \/ ~cleanup /\ ~attached /\ q = Shared("attach")
               /\ ~up => UNCHANGED <<pending, sent>>
  <1>0. /\ lease \in [Lease -> LeaseSet] /\ due \in Seq(Answer) /\ cleanup \in BOOLEAN
        /\ detachment \subseteq Lease /\ UniqueWith(due)
    BY DEF LTypeOK, Unique
  <1>1. PICK new \in LeaseSet : /\ new = [Free EXCEPT !.at = "waiting", !.mode = mode, !.on = detachment]
                                /\ new.at = "waiting" /\ new.mode = mode /\ new.on = detachment
    <2>1. Free \in LeaseSet /\ "waiting" \in Stages
      BY DEF Free, LeaseSet, Stages, Modes
    <2>2. ASSUME NEW r \in LeaseSet, NEW where \in Stages
          PROVE  /\ [r EXCEPT !.at = where, !.mode = mode, !.on = detachment] \in LeaseSet
                 /\ [r EXCEPT !.at = where, !.mode = mode, !.on = detachment].at = where
                 /\ [r EXCEPT !.at = where, !.mode = mode, !.on = detachment].mode = mode
                 /\ [r EXCEPT !.at = where, !.mode = mode, !.on = detachment].on = detachment
      BY <1>0 DEF LeaseSet
    <2>3. /\ [Free EXCEPT !.at = "waiting", !.mode = mode, !.on = detachment] \in LeaseSet
          /\ [Free EXCEPT !.at = "waiting", !.mode = mode, !.on = detachment].at = "waiting"
          /\ [Free EXCEPT !.at = "waiting", !.mode = mode, !.on = detachment].mode = mode
          /\ [Free EXCEPT !.at = "waiting", !.mode = mode, !.on = detachment].on = detachment
      BY <2>1, <2>2
    <2>4. QED
      BY <2>3
  <1>2. PICK now \in [Lease -> LeaseSet] : now = [lease EXCEPT ![l] = new]
    BY <1>0
  <1>3. now[l] = new /\ \A k \in Lease : k # l => now[k] = lease[k]
    BY <1>0, <1>2
  <1>4. /\ IF detachment # {} THEN lease' = now /\ UNCHANGED requests
           ELSE Proceed({l}, now, due)
        /\ Reserved(l, mode)
        /\ UNCHANGED <<known, up, cleanup, attached, detachment, inbox, served, history>>
    BY <1>1, <1>2 DEF Acquire, Detachment
  <1>5. count' \in Nat /\ exclusive' \subseteq Lease
    BY <1>4 DEF LTypeOK, Reserved
  <1>6. CASE detachment # {}
    <2>1. lease' = now /\ UNCHANGED <<pending, sent, due>>
      BY <1>4, <1>6 DEF requests
    <2>2. Unique' /\ \A q \in Promise : Open(q)' <=> Open(q)
      BY <2>1 DEF Unique, UniqueWith, Distinct, Open, OpenWith, Pending, Due
    <2>3. LTypeOK'
      BY <1>4, <1>5, <2>1 DEF LTypeOK, history
    <2>4. QED
      BY <1>1, <1>3, <1>6, <2>1, <2>2, <2>3
  <1>7. CASE detachment = {}
    <2>1. Proceed({l}, now, due) /\ cleanup' = cleanup
      BY <1>4, <1>7
    <2>2. /\ lease' \in [Lease -> LeaseSet]
          /\ \A k \in Lease : k \notin {l} => lease'[k] = now[k]
          /\ \A k \in {l} : /\ lease'[k].mode = now[k].mode
                            /\ lease'[k].at = IF cleanup' THEN "reconciling"
                                              ELSE IF attached THEN "active" ELSE "attaching"
          /\ pending' \in Seq(Promise) /\ sent' \in Seq(Promise) /\ due' \in Seq(Answer)
          /\ Unique'
          /\ \A q \in Promise : Open(q)' <=> \/ OpenWith(q, due)
                                             \/ cleanup' /\ q = Shared("reconcile")
                                             \/ ~cleanup' /\ ~attached /\ q = Shared("attach")
          /\ ~up => UNCHANGED <<pending, sent>>
      BY <1>0, <2>1, ProceedFacts
    <2>3. LTypeOK'
      BY <1>4, <1>5, <2>2 DEF LTypeOK, history
    <2>4. /\ \A k \in Lease : k # l => lease'[k] = lease[k]
          /\ lease'[l].mode = mode
          /\ lease'[l].at = IF cleanup THEN "reconciling"
                            ELSE IF attached THEN "active" ELSE "attaching"
      BY <1>1, <1>3, <2>1, <2>2
    <2>5. \A q \in Promise : Open(q)' <=> \/ Open(q)
                                          \/ cleanup /\ q = Shared("reconcile")
                                          \/ ~cleanup /\ ~attached /\ q = Shared("attach")
      BY <2>1, <2>2 DEF Open
    <2>6. QED
      BY <1>7, <2>2, <2>3, <2>4, <2>5
  <1>8. QED
    BY <1>6, <1>7

LEMMA AcquireStep ==
  ASSUME LInv, NEW l \in Lease, NEW mode \in Modes, Acquire(l, mode)
  PROVE  LInv'
  <1>0. /\ LTypeOK /\ Unique /\ Awaited /\ Cut /\ KnownInv /\ UpInv /\ DownInv
        /\ known /\ lease[l].at = "free" /\ MayReserve(mode) /\ Reserved(l, mode)
        /\ known' = known /\ up' = up /\ cleanup' = cleanup /\ attached' = attached
        /\ detachment' = detachment /\ inbox' = inbox /\ served' = served
        /\ strayed' = strayed /\ late' = late
    BY DEF LInv, Acquire, history
  <1>1. /\ LTypeOK' /\ Unique'
        /\ \A k \in Lease : k # l => lease'[k] = lease[k]
        /\ lease'[l].mode = mode
    BY <1>0, AcquireFacts
  <1>2. \/ /\ detachment # {} /\ lease'[l].at = "waiting" /\ lease'[l].on = detachment
           /\ \A q \in Promise : Open(q)' <=> Open(q)
           /\ UNCHANGED <<pending, sent>>
        \/ /\ detachment = {}
           /\ lease'[l].at = IF cleanup THEN "reconciling"
                             ELSE IF attached THEN "active" ELSE "attaching"
           /\ \A q \in Promise : Open(q)' <=> \/ Open(q)
                                              \/ cleanup /\ q = Shared("reconcile")
                                              \/ ~cleanup /\ ~attached /\ q = Shared("attach")
           /\ ~up => UNCHANGED <<pending, sent>>
    BY <1>0, AcquireFacts
  <1>3. /\ \A q \in Promise : Open(q) => Open(q)'
        /\ \A d \in Lease : Open(Detach(d))' <=> Open(Detach(d))
        /\ Open(Shared("create"))' <=> Open(Shared("create"))
        /\ ~up => UNCHANGED <<pending, sent>>
        /\ lease'[l].at \in {"waiting", "reconciling", "attaching", "active"}
    BY <1>2, PromiseFacts
  <1>4. Awaited'
    <2>1. \A k \in Lease : (lease[k].at = "waiting")'
            => \E d \in Lease : lease'[k].on = {d} /\ Open(Detach(d))'
      <3>1. lease'[l].at = "waiting" => \E d \in Lease : lease'[l].on = {d} /\ Open(Detach(d))'
        BY <1>0, <1>2, <1>3 DEF Awaited
      <3>2. QED
        BY <1>0, <1>1, <1>3, <3>1 DEF Awaited
    <2>2. \A k \in Lease : lease'[k].at = "attaching" => Open(Shared("attach"))'
      BY <1>0, <1>1, <1>2, <1>3, PromiseFacts DEF Awaited
    <2>3. \A k \in Lease : lease'[k].at = "reconciling" => Open(Shared("reconcile"))'
      BY <1>0, <1>1, <1>2, <1>3, PromiseFacts DEF Awaited
    <2>4. \A k \in Lease : lease'[k].at = "creating" => Open(Shared("create"))'
      BY <1>0, <1>1, <1>3 DEF Awaited
    <2>5. \A k \in Lease : lease'[k].at \in {"releasing", "invalidated"} <=> Open(Detach(k))'
      BY <1>0, <1>1, <1>3 DEF Awaited
    <2>6. detachment' = {} \/ \E d \in Lease : detachment' = {d} /\ Open(Detach(d))'
      BY <1>0, <1>3 DEF Awaited
    <2>7. QED
      BY <2>1, <2>2, <2>3, <2>4, <2>5, <2>6 DEF Awaited
  <1>5. Cut'
    BY <1>0, <1>3 DEF Cut
  <1>6. KnownInv'
    <2>1. known' /\ ~Open(Shared("create"))'
      BY <1>0, <1>3 DEF KnownInv
    <2>2. \A k \in Lease : lease'[k].at # "creating"
      BY <1>0, <1>1, <1>3 DEF KnownInv, Awaited
    <2>3. QED
      BY <2>1, <2>2 DEF KnownInv
  <1>7. /\ Hold' = Hold \cup {l} /\ l \notin Hold /\ Hold \subseteq Lease
        /\ \A k \in Hold : lease'[k] = lease[k]
        /\ count' = count + 1
        /\ exclusive' = IF mode = "exclusive" THEN {l} ELSE exclusive
        /\ mode = "exclusive" => count = 0
        /\ mode = "shared" => exclusive = {}
    <2>1. \A k \in Lease : Holds(k)' <=> Holds(k) \/ k = l
      BY <1>0, <1>1, <1>3 DEF Holds
    <2>2. ~Holds(l)
      BY <1>0 DEF Holds
    <2>3. Hold' = Hold \cup {l} /\ l \notin Hold /\ Hold \subseteq Lease
      BY <2>1, <2>2 DEF Hold
    <2>4. QED
      BY <1>0, <1>1, <2>3 DEF Reserved, MayReserve
  <1>8. Cardinality(Hold') = Cardinality(Hold) + 1 /\ Cardinality(Hold) \in Nat
    BY <1>7, LeaseSets
  <1>9. UpInv'
    <2>1. SUFFICES ASSUME up, ~strayed PROVE Accounted' /\ Ordered'
      BY <1>0 DEF UpInv
    <2>2. Accounted /\ Ordered
      BY <1>0, <2>1 DEF UpInv
    <2>3. Accounted'
      <3>1. count' = Cardinality(Hold)'
        BY <1>7, <1>8, <2>2 DEF Accounted
      <3>2. mode = "exclusive" \/ mode = "shared"
        BY DEF Modes
      <3>3. CASE mode = "exclusive"
        <4>1. Hold = {}
          BY <1>7, <2>2, <3>3, LeaseSets DEF Accounted
        <4>2. Hold' = {l} /\ exclusive' = {l}
          BY <1>7, <3>3, <4>1
        <4>3. QED
          BY <1>1, <3>1, <3>3, <4>2 DEF Accounted
      <3>4. CASE mode = "shared"
        <4>1. \A k \in Hold : lease[k].mode # "exclusive"
          BY <1>7, <2>2, <3>4 DEF Accounted
        <4>2. exclusive' = {} /\ \A k \in Hold' : lease'[k].mode # "exclusive"
          BY <1>1, <1>7, <3>4, <4>1
        <4>3. QED
          BY <3>1, <4>2 DEF Accounted
      <3>5. QED
        BY <3>2, <3>3, <3>4
    <2>4. \A d \in Lease : lease[d].at = "releasing" <=> detachment = {d}
      <3>1. \A d \in Lease : lease[d].at = "releasing" => detachment = {d}
        BY <2>2 DEF Ordered
      <3>2. \A d \in Lease : detachment = {d} => Open(Detach(d))
        BY <1>0 DEF Awaited
      <3>3. QED
        BY <1>0, <2>2, <3>1, <3>2 DEF Awaited, Ordered
    <2>5. detachment = {} \/ \E d \in Lease : lease[d].at = "releasing" /\ d \in Hold
      BY <1>0, <2>4 DEF Awaited, Hold, Holds
    <2>6. CASE detachment # {}
      <3>1. /\ lease'[l].at = "waiting"
            /\ \A q \in Promise : Open(q)' <=> Open(q)
        BY <1>2, <2>6
      <3>2. \A p, q \in Promise : Open(p)' /\ Open(q)' => p = q
        BY <2>2, <3>1 DEF Ordered
      <3>3. ~cleanup
        BY <2>2, <2>5, <2>6 DEF Ordered
      <3>4. /\ Open(Shared("attach"))' => \E k \in Lease : lease'[k].at = "attaching"
            /\ Open(Shared("reconcile"))' => \E k \in Lease : lease'[k].at = "reconciling"
        BY <1>0, <1>1, <2>2, <3>1, PromiseFacts DEF Ordered
      <3>5. \A k \in Lease : lease'[k].at # "invalidated" /\ (lease'[k].at = "reconciling" => cleanup')
        BY <1>0, <1>1, <2>2, <3>1 DEF Ordered
      <3>6. \A d \in Lease : lease'[d].at = "releasing"
              => detachment' = {d} /\ \A k \in Hold' : k # d => lease'[k].at = "waiting"
        BY <1>0, <1>1, <1>7, <2>2, <3>1 DEF Ordered
      <3>7. QED
        BY <1>0, <2>3, <3>2, <3>3, <3>4, <3>5, <3>6 DEF Ordered
    <2>7. CASE detachment = {}
      <3>0. \A d \in Lease : lease[d].at # "releasing" /\ ~Open(Detach(d))
        BY <1>0, <2>2, <2>4, <2>7 DEF Awaited, Ordered
      <3>1. /\ lease'[l].at = IF cleanup THEN "reconciling"
                              ELSE IF attached THEN "active" ELSE "attaching"
            /\ \A q \in Promise : Open(q)' <=> \/ Open(q)
                                               \/ cleanup /\ q = Shared("reconcile")
                                               \/ ~cleanup /\ ~attached /\ q = Shared("attach")
        BY <1>2, <2>7
      <3>2. \A q \in Promise : Open(q) => IF cleanup THEN q = Shared("reconcile") ELSE q = Shared("attach")
        <4>1. ~Open(Shared("create"))
          BY <1>0 DEF KnownInv
        <4>2. cleanup => ~Open(Shared("attach"))
          BY <2>2 DEF Ordered, Hold, Holds
        <4>3. ~cleanup => ~Open(Shared("reconcile"))
          BY <2>2 DEF Ordered
        <4>4. QED
          BY <3>0, <4>1, <4>2, <4>3, PromiseFacts
      <3>3. \A p, q \in Promise : Open(p)' /\ Open(q)' => p = q
        BY <3>1, <3>2
      <3>4. /\ Open(Shared("attach"))' => \E k \in Lease : lease'[k].at = "attaching"
            /\ Open(Shared("reconcile"))' => \E k \in Lease : lease'[k].at = "reconciling"
        BY <1>0, <1>1, <2>2, <3>1, PromiseFacts DEF Ordered
      <3>5. \A k \in Lease : lease'[k].at # "invalidated" /\ (lease'[k].at = "reconciling" => cleanup')
        BY <1>0, <1>1, <2>2, <3>1 DEF Ordered
      <3>6. \A d \in Lease : lease'[d].at # "releasing"
        BY <1>1, <1>3, <3>0
      <3>7. cleanup' => \A k \in Hold' : lease'[k].at = "reconciling"
        BY <1>0, <1>1, <1>7, <2>2, <3>1 DEF Ordered
      <3>8. QED
        BY <1>0, <2>3, <3>3, <3>4, <3>5, <3>6, <3>7 DEF Ordered
    <2>8. QED
      BY <2>6, <2>7
  <1>10. DownInv'
    <2>1. SUFFICES ASSUME ~up, ~strayed PROVE ~cleanup' /\ Failing'
      BY <1>0 DEF DownInv
    <2>2. ~cleanup /\ (Failing \/ Created) /\ ~attached
      BY <1>0, <2>1 DEF DownInv, Cut
    <2>3. ~Created
      <3>1. Created => count = 1 /\ exclusive # {}
        BY DEF Created
      <3>2. mode = "exclusive" \/ mode = "shared"
        BY DEF Modes
      <3>3. QED
        BY <1>7, <3>1, <3>2
    <2>4. \A k \in Hold' : lease'[k].at \in {"waiting", "reconciling", "attaching"}
      BY <1>2, <1>7, <2>2, <2>3 DEF Failing
    <2>5. count' <= Cardinality(Hold)' /\ exclusive' \subseteq Hold'
      BY <1>0, <1>7, <1>8, <2>2, <2>3 DEF Failing, LTypeOK
    <2>6. QED
      BY <1>0, <2>2, <2>4, <2>5 DEF Failing
  <1>11. QED
    BY <1>1, <1>4, <1>5, <1>6, <1>9, <1>10 DEF LInv

LEMMA CreateStep ==
  ASSUME LInv, NEW l \in Lease, Create(l)
  PROVE  LInv'
  <1>0. /\ LTypeOK /\ Unique /\ Awaited /\ Cut /\ KnownInv /\ UpInv /\ DownInv
        /\ up /\ ~known /\ lease[l].at = "free" /\ At("creating") = {}
        /\ Request(Shared("create"), due)
        /\ known' = known /\ up' = up /\ cleanup' = cleanup /\ attached' = attached
        /\ count' = count /\ exclusive' = exclusive
        /\ detachment' = detachment /\ inbox' = inbox /\ served' = served
        /\ strayed' = strayed /\ late' = late
    BY DEF LInv, Create, history
  <1>1. /\ pending' \in Seq(Promise) /\ sent' \in Seq(Promise) /\ due' \in Seq(Answer)
        /\ Unique'
        /\ \A q \in Promise : Open(q)' <=> Open(q) \/ q = Shared("create")
    <2>1. UniqueWith(due) /\ due \in Seq(Answer)
      BY <1>0 DEF Unique, LTypeOK
    <2>2. QED
      BY <1>0, <2>1, PromiseFacts, RequestFacts DEF Open
  <1>2. PICK new \in LeaseSet : /\ new = [Free EXCEPT !.at = "creating", !.mode = "exclusive"]
                                /\ new.at = "creating" /\ new.mode = "exclusive"
    <2>1. Free \in LeaseSet /\ "creating" \in Stages /\ "exclusive" \in Modes
      BY DEF Free, LeaseSet, Stages, Modes
    <2>2. ASSUME NEW r \in LeaseSet
          PROVE  /\ [r EXCEPT !.at = "creating", !.mode = "exclusive"] \in LeaseSet
                 /\ [r EXCEPT !.at = "creating", !.mode = "exclusive"].at = "creating"
                 /\ [r EXCEPT !.at = "creating", !.mode = "exclusive"].mode = "exclusive"
      BY <2>1 DEF LeaseSet
    <2>3. /\ [Free EXCEPT !.at = "creating", !.mode = "exclusive"] \in LeaseSet
          /\ [Free EXCEPT !.at = "creating", !.mode = "exclusive"].at = "creating"
          /\ [Free EXCEPT !.at = "creating", !.mode = "exclusive"].mode = "exclusive"
      BY <2>1, <2>2
    <2>4. QED
      BY <2>3
  <1>3. /\ lease' \in [Lease -> LeaseSet] /\ lease'[l] = new
        /\ \A k \in Lease : k # l => lease'[k] = lease[k]
    BY <1>0, <1>2 DEF Create, LTypeOK
  <1>4. LTypeOK'
    BY <1>0, <1>1, <1>3 DEF LTypeOK
  <1>5. \A q \in Promise : Open(q)' => q = Shared("create")
    BY <1>0, <1>1 DEF KnownInv
  <1>6. \A k \in Lease : lease'[k].at \in {"free", "creating"}
    BY <1>0, <1>2, <1>3 DEF KnownInv
  <1>7. Awaited'
    <2>1. \A k \in Lease : ~Open(Detach(k))' /\ Open(Shared("create"))'
      BY <1>1, <1>5, PromiseFacts
    <2>2. detachment' = {}
      BY <1>0 DEF KnownInv
    <2>3. QED
      BY <1>6, <2>1, <2>2 DEF Awaited
  <1>8. Cut'
    BY <1>0 DEF Cut
  <1>9. KnownInv'
    <2>1. \A k \in Lease : k # l => lease'[k].at # "creating"
      BY <1>0, <1>3 DEF At
    <2>2. QED
      BY <1>0, <1>2, <1>3, <1>5, <1>6, <2>1 DEF KnownInv
  <1>10. Hold' = {} /\ Hold = {}
    <2>1. \A k \in Lease : ~Holds(k) /\ ~Holds(k)'
      BY <1>0, <1>6 DEF Holds, KnownInv
    <2>2. QED
      BY <2>1 DEF Hold
  <1>11. UpInv'
    <2>1. Accounted'
      BY <1>0, <1>10, LeaseSets DEF Accounted, KnownInv
    <2>2. Ordered'
      BY <1>0, <1>5, <1>6, <1>10, PromiseFacts DEF Ordered, KnownInv
    <2>3. QED
      BY <2>1, <2>2 DEF UpInv
  <1>12. DownInv'
    BY <1>0 DEF DownInv
  <1>13. QED
    BY <1>1, <1>4, <1>7, <1>8, <1>9, <1>11, <1>12 DEF LInv

-----------------------------------------------------------------------------
(***************************************************************************)
(* Releases                                                                *)
(***************************************************************************)

\* detach() and dispose() of a lease that is not the last.
LEMMA PartStep ==
  ASSUME LInv, NEW l \in Lease, NEW relinquish \in BOOLEAN, Release(l, relinquish), ~Final
  PROVE  LInv'
  <1>0. /\ LTypeOK /\ Unique /\ Awaited /\ Cut /\ KnownInv /\ UpInv /\ DownInv
        /\ lease[l].at = "active" /\ up
        /\ lease' = [lease EXCEPT ![l] = Free] /\ Released({l})
        /\ known' = known /\ up' = up /\ cleanup' = cleanup /\ attached' = attached
        /\ pending' = pending /\ sent' = sent /\ due' = due
        /\ detachment' = detachment /\ inbox' = inbox /\ served' = served
        /\ strayed' = strayed /\ late' = late
    BY DEF LInv, Release, Usable, history, requests
  <1>1. \A q \in Promise : Open(q)' <=> Open(q)
    BY <1>0 DEF Open, OpenWith, Pending, Due
  <1>2. Unique'
    BY <1>0 DEF Unique, UniqueWith, Distinct, Pending, Due
  <1>3. Free \in LeaseSet /\ Free.at = "free"
    BY DEF Free, LeaseSet, Stages, Modes
  <1>4. /\ lease' \in [Lease -> LeaseSet] /\ lease'[l].at = "free"
        /\ \A k \in Lease : k # l => lease'[k] = lease[k]
    BY <1>0, <1>3 DEF LTypeOK
  <1>5. count' = count - 1 /\ count > 1 /\ count' \in Nat /\ exclusive' = exclusive \ {l}
    <2>1. count \in Nat /\ ~(count <= 1)
      BY <1>0 DEF LTypeOK, Final
    <2>2. Cardinality({l}) = 1
      BY LeaseSets
    <2>3. QED
      BY <1>0, <2>1, <2>2 DEF Released
  <1>6. LTypeOK'
    BY <1>0, <1>4, <1>5 DEF LTypeOK
  <1>7. Awaited'
    <2>1. \A k \in Lease : Open(Detach(k))' <=> Open(Detach(k))
      BY <1>1, PromiseFacts
    <2>2. /\ Open(Shared("attach"))' <=> Open(Shared("attach"))
          /\ Open(Shared("reconcile"))' <=> Open(Shared("reconcile"))
          /\ Open(Shared("create"))' <=> Open(Shared("create"))
      BY <1>1, PromiseFacts
    <2>3. ~Open(Detach(l))
      BY <1>0 DEF Awaited
    <2>4. \A k \in Lease : lease'[k].at = "waiting"
            => \E d \in Lease : lease'[k].on = {d} /\ Open(Detach(d))'
      BY <1>0, <1>4, <2>1 DEF Awaited
    <2>5. \A k \in Lease : lease'[k].at \in {"releasing", "invalidated"} <=> Open(Detach(k))'
      BY <1>0, <1>4, <2>1, <2>3 DEF Awaited
    <2>6. detachment' = {} \/ \E d \in Lease : detachment' = {d} /\ Open(Detach(d))'
      BY <1>0, <2>1 DEF Awaited
    <2>7. /\ \A k \in Lease : lease'[k].at = "attaching" => Open(Shared("attach"))'
          /\ \A k \in Lease : lease'[k].at = "reconciling" => Open(Shared("reconcile"))'
          /\ \A k \in Lease : lease'[k].at = "creating" => Open(Shared("create"))'
      BY <1>0, <1>4, <2>2 DEF Awaited
    <2>8. QED
      BY <2>4, <2>5, <2>6, <2>7 DEF Awaited
  <1>8. Cut' /\ DownInv'
    BY <1>0 DEF Cut, DownInv
  <1>9. KnownInv'
    <2>1. known /\ \A k \in Lease : lease'[k].at = "creating" => lease[k].at = "creating" /\ lease'[k] = lease[k]
      BY <1>0, <1>4 DEF KnownInv
    <2>2. QED
      BY <1>0, <1>1, <2>1, PromiseFacts DEF KnownInv
  <1>10. Hold' = Hold \ {l} /\ l \in Hold /\ Hold \subseteq Lease
    <2>1. \A k \in Lease : Holds(k)' <=> Holds(k) /\ k # l
      BY <1>4 DEF Holds
    <2>2. Holds(l)
      BY <1>0 DEF Holds
    <2>3. QED
      BY <2>1, <2>2 DEF Hold
  <1>11. UpInv'
    <2>1. SUFFICES ASSUME up, ~strayed PROVE Accounted' /\ Ordered'
      BY <1>0 DEF UpInv
    <2>2. Accounted /\ Ordered
      BY <1>0, <2>1 DEF UpInv
    <2>3. Cardinality(Hold') = Cardinality(Hold) - 1
      BY <1>10, LeaseSets
    <2>4. \A k \in Hold' : lease'[k] = lease[k] /\ k \in Hold
      BY <1>4, <1>10
    <2>5. Accounted'
      BY <1>5, <1>10, <2>2, <2>3, <2>4 DEF Accounted
    <2>6. \A p, q \in Promise : Open(p)' /\ Open(q)' => p = q
      BY <1>1, <2>2 DEF Ordered
    <2>7. /\ Open(Shared("attach"))' => \E k \in Lease : lease'[k].at = "attaching"
          /\ Open(Shared("reconcile"))' => \E k \in Lease : lease'[k].at = "reconciling"
      BY <1>0, <1>1, <1>4, <2>2, PromiseFacts DEF Ordered
    <2>8. \A k \in Lease : lease'[k].at # "invalidated" /\ (lease'[k].at = "reconciling" => cleanup')
      BY <1>0, <1>4, <2>2 DEF Ordered
    <2>9. \A d \in Lease : lease'[d].at = "releasing"
            => detachment' = {d} /\ \A k \in Hold' : k # d => lease'[k].at = "waiting"
      BY <1>0, <1>4, <2>2, <2>4 DEF Ordered
    <2>10. cleanup' => \A k \in Hold' : lease'[k].at = "reconciling"
      BY <1>0, <2>2, <2>4 DEF Ordered
    <2>11. QED
      BY <2>5, <2>6, <2>7, <2>8, <2>9, <2>10 DEF Ordered
  <1>12. QED
    BY <1>2, <1>6, <1>7, <1>8, <1>9, <1>11 DEF LInv

\* detach() and dispose() of the last lease.
LEMMA FinalStep ==
  ASSUME LInv, NEW l \in Lease, NEW relinquish \in BOOLEAN, Release(l, relinquish), Final
  PROVE  LInv'
  <1>0. /\ LTypeOK /\ Unique /\ Awaited /\ Cut /\ KnownInv /\ UpInv /\ DownInv
        /\ lease[l].at = "active" /\ up
        /\ lease' = [lease EXCEPT ![l].at = "releasing", ![l].relinquish = relinquish]
        /\ Request(Detach(l), due)
        /\ known' = known /\ up' = up /\ cleanup' = cleanup /\ attached' = attached
        /\ count' = count /\ exclusive' = exclusive
        /\ detachment' = {l} /\ inbox' = inbox /\ served' = served
        /\ strayed' = strayed /\ late' = late
    BY DEF LInv, Release, Usable, history
  <1>1. /\ pending' \in Seq(Promise) /\ sent' \in Seq(Promise) /\ due' \in Seq(Answer)
        /\ Unique'
        /\ \A q \in Promise : Open(q)' <=> Open(q) \/ q = Detach(l)
    <2>1. UniqueWith(due) /\ due \in Seq(Answer)
      BY <1>0 DEF Unique, LTypeOK
    <2>2. QED
      BY <1>0, <2>1, PromiseFacts, RequestFacts DEF Open
  <1>2. /\ lease' \in [Lease -> LeaseSet] /\ lease'[l].at = "releasing"
        /\ lease'[l].mode = lease[l].mode
        /\ \A k \in Lease : k # l => lease'[k] = lease[k]
    <2>1. lease \in [Lease -> LeaseSet] /\ lease[l] \in LeaseSet /\ "releasing" \in Stages
      BY <1>0 DEF LTypeOK, Stages
    <2>2. PICK new \in LeaseSet : /\ new = [lease[l] EXCEPT !.at = "releasing", !.relinquish = relinquish]
                                  /\ new.at = "releasing" /\ new.mode = lease[l].mode
      <3>1. ASSUME NEW r \in LeaseSet, NEW where \in Stages
            PROVE  /\ [r EXCEPT !.at = where, !.relinquish = relinquish] \in LeaseSet
                   /\ [r EXCEPT !.at = where, !.relinquish = relinquish].at = where
                   /\ [r EXCEPT !.at = where, !.relinquish = relinquish].mode = r.mode
        BY DEF LeaseSet
      <3>2. /\ [lease[l] EXCEPT !.at = "releasing", !.relinquish = relinquish] \in LeaseSet
            /\ [lease[l] EXCEPT !.at = "releasing", !.relinquish = relinquish].at = "releasing"
            /\ [lease[l] EXCEPT !.at = "releasing", !.relinquish = relinquish].mode = lease[l].mode
        BY <2>1, <3>1
      <3>3. QED
        BY <3>2
    <2>3. lease' = [lease EXCEPT ![l] = new]
      BY <1>0, <2>1, <2>2
    <2>4. QED
      BY <2>1, <2>2, <2>3
  <1>3. LTypeOK'
    BY <1>0, <1>1, <1>2 DEF LTypeOK
  <1>4. Awaited'
    <2>1. \A k \in Lease : Open(Detach(k))' <=> Open(Detach(k)) \/ k = l
      BY <1>1, PromiseFacts
    <2>2. /\ Open(Shared("attach"))' <=> Open(Shared("attach"))
          /\ Open(Shared("reconcile"))' <=> Open(Shared("reconcile"))
          /\ Open(Shared("create"))' <=> Open(Shared("create"))
      BY <1>1, PromiseFacts
    <2>4. \A k \in Lease : lease'[k].at = "waiting"
            => \E d \in Lease : lease'[k].on = {d} /\ Open(Detach(d))'
      BY <1>0, <1>2, <2>1 DEF Awaited
    <2>5. \A k \in Lease : lease'[k].at \in {"releasing", "invalidated"} <=> Open(Detach(k))'
      BY <1>0, <1>2, <2>1 DEF Awaited
    <2>6. \E d \in Lease : detachment' = {d} /\ Open(Detach(d))'
      BY <1>0, <2>1
    <2>7. /\ \A k \in Lease : lease'[k].at = "attaching" => Open(Shared("attach"))'
          /\ \A k \in Lease : lease'[k].at = "reconciling" => Open(Shared("reconcile"))'
          /\ \A k \in Lease : lease'[k].at = "creating" => Open(Shared("create"))'
      BY <1>0, <1>2, <2>2 DEF Awaited
    <2>8. QED
      BY <2>4, <2>5, <2>6, <2>7 DEF Awaited
  <1>5. Cut' /\ DownInv'
    BY <1>0 DEF Cut, DownInv
  <1>6. KnownInv'
    <2>1. known /\ \A k \in Lease : lease'[k].at = "creating" => lease[k].at = "creating" /\ lease'[k] = lease[k]
      BY <1>0, <1>2 DEF KnownInv
    <2>2. QED
      BY <1>0, <1>1, <2>1, PromiseFacts DEF KnownInv
  <1>7. Hold' = Hold /\ l \in Hold /\ Hold \subseteq Lease
    <2>1. \A k \in Lease : Holds(k)' <=> Holds(k)
      BY <1>0, <1>2 DEF Holds
    <2>2. Holds(l)
      BY <1>0 DEF Holds
    <2>3. QED
      BY <2>1, <2>2 DEF Hold
  <1>8. UpInv'
    <2>1. SUFFICES ASSUME up, ~strayed PROVE Accounted' /\ Ordered'
      BY <1>0 DEF UpInv
    <2>2. Accounted /\ Ordered
      BY <1>0, <2>1 DEF UpInv
    <2>3. Hold = {l}
      <3>1. count <= 1 /\ count = Cardinality(Hold)
        BY <2>2 DEF Final, Accounted
      <3>2. Cardinality(Hold \ {l}) = Cardinality(Hold) - 1 /\ Cardinality(Hold \ {l}) \in Nat
        <4>1. Hold \in SUBSET Lease /\ Hold \ {l} \in SUBSET Lease
          BY <1>7
        <4>2. QED
          BY <1>7, <4>1, LeaseSets
      <3>3. Cardinality(Hold \ {l}) = 0
        BY <1>0, <3>1, <3>2 DEF LTypeOK
      <3>4. Hold \ {l} = {}
        BY <1>7, <3>3, LeaseSets
      <3>5. QED
        BY <1>7, <3>4
    <2>4. ~cleanup /\ \A k \in Lease : lease[k].at \notin {"attaching", "reconciling", "releasing", "invalidated"}
      BY <1>0, <2>2, <2>3 DEF Ordered, Hold, Holds
    <2>5. \A q \in Promise : ~Open(q)
      <3>1. known
        BY <1>0 DEF KnownInv
      <3>2. \A k \in Lease : ~Open(Detach(k))
        BY <1>0, <2>4 DEF Awaited
      <3>3. ~Open(Shared("attach")) /\ ~Open(Shared("reconcile")) /\ ~Open(Shared("create"))
        BY <1>0, <2>2, <2>4, <3>1 DEF Ordered, KnownInv
      <3>4. QED
        BY <3>2, <3>3, PromiseFacts
    <2>6. Accounted'
      BY <1>0, <1>2, <1>7, <2>2, <2>3 DEF Accounted
    <2>7. \A q \in Promise : Open(q)' => q = Detach(l)
      BY <1>1, <2>5
    <2>8. Ordered'
      BY <1>0, <1>2, <1>7, <2>3, <2>4, <2>7, PromiseFacts DEF Ordered
    <2>9. QED
      BY <2>6, <2>8
  <1>9. QED
    BY <1>1, <1>3, <1>4, <1>5, <1>6, <1>8 DEF LInv

\* Whether the reservation goes with the settled detach request of d.
Gone(d, ok) == ok \/ (lease[d].at = "releasing" /\ lease[d].relinquish)

\* What a settled detach request does to the leases and to the promises; ws are those
\* who waited for it.
ReleaseEffect(d, ok, ws) ==
  /\ d \in Lease /\ Open(Detach(d)) /\ LTypeOK' /\ Unique'
  /\ \A l \in Lease : l \in ws <=> lease[l].at = "waiting" /\ lease[l].on = {d}
  /\ d \notin ws
  /\ \A l \in Lease : l \notin ws /\ l # d => lease'[l] = lease[l]
  /\ \A l \in ws : /\ lease'[l].mode = lease[l].mode
                   /\ lease'[l].at = IF cleanup' THEN "reconciling"
                                     ELSE IF attached THEN "active" ELSE "attaching"
  /\ \A q \in Promise : Open(q)' <=> \/ Open(q) /\ q # Detach(d)
                                     \/ /\ ws # {}
                                        /\ \/ cleanup' /\ q = Shared("reconcile")
                                           \/ ~cleanup' /\ ~attached /\ q = Shared("attach")
  /\ ~up => UNCHANGED <<pending, sent>>
  /\ known' = known /\ strayed' = strayed /\ detachment' = detachment \ {d}
  /\ cleanup' = (cleanup \/ (~ok /\ lease[d].at = "releasing" /\ lease[d].relinquish))
  /\ Gone(d, ok) => Released({d})
  /\ ~Gone(d, ok) => count' = count /\ exclusive' = exclusive
  /\ Gone(d, ok) \/ lease[d].at # "releasing" => lease'[d].at = "free"
  /\ ~Gone(d, ok) /\ lease[d].at = "releasing"
       => lease'[d].at = "active" /\ lease'[d].mode = lease[d].mode

LEMMA ReleaseFacts ==
  ASSUME LTypeOK, Unique, Awaited, due # <<>>, Head(due).of = "detach",
         NEW d \in Head(due).by, NEW ok \in BOOLEAN, ResumeRelease(d, ok, Tail(due)),
         up' = up, attached' = attached, inbox' = inbox, served' = served, late' = late
  PROVE  \E ws \in SUBSET Lease : ReleaseEffect(d, ok, ws)
  <1>0. /\ lease \in [Lease -> LeaseSet] /\ cleanup \in BOOLEAN /\ detachment \subseteq Lease
        /\ count \in Nat /\ exclusive \subseteq Lease
        /\ pending \in Seq(Promise) /\ sent \in Seq(Promise)
    BY DEF LTypeOK
  <1>1. PICK left \in Seq(Answer) : left = Tail(due) /\ UniqueWith(left)
    BY ResumeFacts
  <1>2. PICK p \in Promise : /\ Head(due).of = p.of /\ Head(due).by = p.by /\ Open(p)
                             /\ \A q \in Promise : OpenWith(q, left) <=> Open(q) /\ q # p
    BY <1>1, ResumeFacts
  <1>3. d \in Lease /\ p = Detach(d)
    <2>1. p # Shared("attach") /\ p # Shared("reconcile") /\ p # Shared("create")
      BY <1>2, PromiseFacts
    <2>2. PICK e \in Lease : p = Detach(e)
      BY <2>1, PromiseFacts
    <2>3. p.by = {e}
      BY <2>2, PromiseFacts
    <2>4. QED
      BY <1>2, <2>2, <2>3
  <1>4. lease[d].at \in {"releasing", "invalidated"}
    BY <1>2, <1>3 DEF Awaited
  <1> DEFINE current == lease[d].at = "releasing"
             gone == Gone(d, ok)
  <1>5. PICK new \in LeaseSet : /\ new = IF gone \/ ~current THEN Free ELSE [lease[d] EXCEPT !.at = "active"]
                                /\ gone \/ ~current => new.at = "free"
                                /\ ~gone /\ current => new.at = "active" /\ new.mode = lease[d].mode
    <2>1. Free \in LeaseSet /\ Free.at = "free" /\ lease[d] \in LeaseSet /\ "active" \in Stages
      BY <1>0, <1>3 DEF Free, LeaseSet, Stages, Modes
    <2>2. /\ [lease[d] EXCEPT !.at = "active"] \in LeaseSet
          /\ [lease[d] EXCEPT !.at = "active"].at = "active"
          /\ [lease[d] EXCEPT !.at = "active"].mode = lease[d].mode
      BY <2>1, StageFacts
    <2>3. QED
      BY <2>1, <2>2
  <1>6. PICK now \in [Lease -> LeaseSet] : now = [lease EXCEPT ![d] = new]
    BY <1>0
  <1>7. now[d] = new /\ \A l \in Lease : l # d => now[l] = lease[l]
    BY <1>0, <1>3, <1>6
  <1>8. PICK ws \in SUBSET Lease : ws = {l \in At("waiting") : d \in lease[l].on}
    BY DEF At
  <1>9. /\ \A l \in Lease : l \in ws <=> lease[l].at = "waiting" /\ lease[l].on = {d}
        /\ d \notin ws
    <2>1. \A l \in Lease : l \in ws <=> lease[l].at = "waiting" /\ d \in lease[l].on
      BY <1>8 DEF At
    <2>2. QED
      BY <1>4, <2>1 DEF Awaited
  <1>10. /\ cleanup' = (cleanup \/ (~ok /\ current /\ lease[d].relinquish))
         /\ detachment' = detachment \ {d}
         /\ IF gone THEN Released({d}) ELSE UNCHANGED <<count, exclusive>>
         /\ IF ws = {} THEN lease' = now /\ due' = left /\ UNCHANGED <<pending, sent>>
                       ELSE Proceed(ws, now, left)
         /\ UNCHANGED <<known, strayed>>
    <2>1. [lease EXCEPT ![d] = IF gone \/ ~current THEN Free ELSE [@ EXCEPT !.at = "active"]] = now
      BY <1>0, <1>3, <1>5, <1>6
    <2>2. QED
      BY <1>1, <1>8, <2>1 DEF ResumeRelease, Gone
  <1>11. cleanup' \in BOOLEAN
    BY <1>10
  <1>12. count' \in Nat /\ exclusive' \subseteq Lease
    <2>1. Cardinality({d}) = 1
      BY <1>3, LeaseSets
    <2>2. Released({d}) => count' \in Nat /\ exclusive' \subseteq Lease
      BY <1>0, <2>1 DEF Released
    <2>3. QED
      BY <1>0, <1>10, <2>2
  <1>13. /\ lease' \in [Lease -> LeaseSet]
         /\ \A l \in Lease : l \notin ws => lease'[l] = now[l]
         /\ \A l \in ws : /\ lease'[l].mode = now[l].mode
                          /\ lease'[l].at = IF cleanup' THEN "reconciling"
                                            ELSE IF attached THEN "active" ELSE "attaching"
         /\ pending' \in Seq(Promise) /\ sent' \in Seq(Promise) /\ due' \in Seq(Answer)
         /\ Unique'
         /\ \A q \in Promise :
              Open(q)' <=> \/ OpenWith(q, left)
                           \/ /\ ws # {}
                              /\ \/ cleanup' /\ q = Shared("reconcile")
                                 \/ ~cleanup' /\ ~attached /\ q = Shared("attach")
         /\ ~up => UNCHANGED <<pending, sent>>
    <2>1. CASE ws = {}
      <3>1. lease' = now /\ due' = left /\ UNCHANGED <<pending, sent>>
        BY <1>10, <2>1
      <3>2. Unique' /\ \A q \in Promise : Open(q)' <=> OpenWith(q, left)
        BY <1>1, <3>1 DEF Open, OpenWith, Pending, Due, Unique, UniqueWith, Distinct
      <3>3. QED
        BY <1>0, <2>1, <3>1, <3>2
    <2>2. CASE ws # {}
      <3>1. Proceed(ws, now, left)
        BY <1>10, <2>2
      <3>2. /\ lease' \in [Lease -> LeaseSet]
            /\ \A l \in Lease : l \notin ws => lease'[l] = now[l]
            /\ \A l \in ws : /\ lease'[l].mode = now[l].mode
                             /\ lease'[l].at = IF cleanup' THEN "reconciling"
                                               ELSE IF attached THEN "active" ELSE "attaching"
            /\ pending' \in Seq(Promise) /\ sent' \in Seq(Promise) /\ due' \in Seq(Answer)
            /\ Unique'
            /\ \A q \in Promise : Open(q)' <=> \/ OpenWith(q, left)
                                               \/ cleanup' /\ q = Shared("reconcile")
                                               \/ ~cleanup' /\ ~attached /\ q = Shared("attach")
            /\ ~up => UNCHANGED <<pending, sent>>
        BY <1>1, <1>11, <3>1, ProceedFacts
      <3>3. QED
        BY <2>2, <3>2
    <2>3. QED
      BY <2>1, <2>2
  <1>14. LTypeOK'
    BY <1>10, <1>11, <1>12, <1>13 DEF LTypeOK
  <1>15. /\ \A l \in Lease : l \notin ws /\ l # d => lease'[l] = lease[l]
         /\ \A l \in ws : lease'[l].mode = lease[l].mode
         /\ lease'[d] = new
    BY <1>3, <1>7, <1>9, <1>13
  <1>16. \A q \in Promise :
           Open(q)' <=> \/ Open(q) /\ q # Detach(d)
                        \/ /\ ws # {}
                           /\ \/ cleanup' /\ q = Shared("reconcile")
                              \/ ~cleanup' /\ ~attached /\ q = Shared("attach")
    BY <1>2, <1>3, <1>13
  <1>17. /\ gone \/ ~current => lease'[d].at = "free"
         /\ ~gone /\ current => lease'[d].at = "active" /\ lease'[d].mode = lease[d].mode
    BY <1>5, <1>15
  <1>18. ReleaseEffect(d, ok, ws)
    BY <1>2, <1>3, <1>9, <1>10, <1>13, <1>14, <1>15, <1>16, <1>17 DEF ReleaseEffect
  <1>19. QED
    BY <1>18

LEMMA ResumeReleaseStep ==
  ASSUME LInv, due # <<>>, Head(due).of = "detach",
         NEW d \in Head(due).by, NEW ok \in BOOLEAN, ResumeRelease(d, ok, Tail(due)),
         up' = up, attached' = attached, inbox' = inbox, served' = served, late' = late
  PROVE  LInv'
  <1>0. LTypeOK /\ Unique /\ Awaited /\ Cut /\ KnownInv /\ UpInv /\ DownInv
    BY DEF LInv
  <1> DEFINE current == lease[d].at = "releasing"
             gone == Gone(d, ok)
  <1>w. PICK ws \in SUBSET Lease : ReleaseEffect(d, ok, ws)
    BY <1>0, ReleaseFacts
  <1>1. /\ d \in Lease /\ Open(Detach(d)) /\ LTypeOK' /\ Unique'
        /\ ~up => UNCHANGED <<pending, sent>>
        /\ known' = known /\ strayed' = strayed /\ detachment' = detachment \ {d}
        /\ up' = up /\ attached' = attached /\ inbox' = inbox /\ served' = served
        /\ cleanup' = (cleanup \/ (~ok /\ current /\ lease[d].relinquish))
        /\ gone => Released({d})
        /\ ~gone => count' = count /\ exclusive' = exclusive
        /\ gone \/ ~current => lease'[d].at = "free"
        /\ ~gone /\ current => lease'[d].at = "active" /\ lease'[d].mode = lease[d].mode
    BY <1>w DEF ReleaseEffect
  <1>2. /\ \A l \in Lease : l \in ws <=> lease[l].at = "waiting" /\ lease[l].on = {d}
        /\ d \notin ws
        /\ \A l \in Lease : l \notin ws /\ l # d => lease'[l] = lease[l]
        /\ \A l \in ws : /\ lease'[l].mode = lease[l].mode
                         /\ lease'[l].at = IF cleanup' THEN "reconciling"
                                           ELSE IF attached THEN "active" ELSE "attaching"
        /\ \A q \in Promise :
             Open(q)' <=> \/ Open(q) /\ q # Detach(d)
                          \/ /\ ws # {}
                             /\ \/ cleanup' /\ q = Shared("reconcile")
                                \/ ~cleanup' /\ ~attached /\ q = Shared("attach")
    BY <1>w DEF ReleaseEffect
  <1>3. /\ cleanup \in BOOLEAN /\ cleanup' \in BOOLEAN /\ known \in BOOLEAN
        /\ count \in Nat /\ lease[d].relinquish \in BOOLEAN /\ attached \in BOOLEAN
    BY <1>0, <1>1 DEF LTypeOK, LeaseSet
  <1>4. lease[d].at \in {"releasing", "invalidated"} /\ lease'[d].at \in {"free", "active"}
    BY <1>0, <1>1 DEF Awaited
  <1>5. /\ \A e \in Lease : Open(Detach(e))' <=> Open(Detach(e)) /\ e # d
        /\ Open(Shared("create"))' <=> Open(Shared("create"))
        /\ Open(Shared("attach"))' <=> Open(Shared("attach")) \/ (ws # {} /\ ~cleanup' /\ ~attached)
        /\ Open(Shared("reconcile"))' <=> Open(Shared("reconcile")) \/ (ws # {} /\ cleanup')
    BY <1>1, <1>2, PromiseFacts
  <1>6. Awaited'
    <2>1. \A l \in Lease : lease'[l].at = "waiting"
            => \E e \in Lease : lease'[l].on = {e} /\ Open(Detach(e))'
      <3>1. SUFFICES ASSUME NEW l \in Lease, lease'[l].at = "waiting"
                     PROVE  \E e \in Lease : lease'[l].on = {e} /\ Open(Detach(e))'
        OBVIOUS
      <3>2. l \notin ws /\ l # d /\ lease'[l] = lease[l]
        BY <1>2, <1>4, <3>1
      <3>3. PICK e \in Lease : lease[l].on = {e} /\ Open(Detach(e))
        BY <1>0, <3>1, <3>2 DEF Awaited
      <3>4. e # d
        BY <1>2, <3>1, <3>2, <3>3
      <3>5. QED
        BY <1>5, <3>2, <3>3, <3>4
    <2>2. \A l \in Lease : lease'[l].at = "attaching" => Open(Shared("attach"))'
      BY <1>0, <1>2, <1>4, <1>5 DEF Awaited
    <2>3. \A l \in Lease : lease'[l].at = "reconciling" => Open(Shared("reconcile"))'
      BY <1>0, <1>2, <1>4, <1>5 DEF Awaited
    <2>4. \A l \in Lease : lease'[l].at = "creating" => Open(Shared("create"))'
      BY <1>0, <1>2, <1>4, <1>5 DEF Awaited
    <2>5. \A l \in Lease : lease'[l].at \in {"releasing", "invalidated"} <=> Open(Detach(l))'
      <3>1. \A l \in ws : ~Open(Detach(l))
        BY <1>0, <1>2 DEF Awaited
      <3>2. QED
        BY <1>0, <1>2, <1>4, <1>5, <3>1 DEF Awaited
    <2>6. detachment' = {} \/ \E e \in Lease : detachment' = {e} /\ Open(Detach(e))'
      <3>1. detachment = {} \/ \E e \in Lease : detachment = {e} /\ Open(Detach(e))
        BY <1>0 DEF Awaited
      <3>2. QED
        BY <1>1, <1>5, <3>1
    <2>7. QED
      BY <2>1, <2>2, <2>3, <2>4, <2>5, <2>6 DEF Awaited
  <1>7. Cut'
    BY <1>0, <1>1 DEF Cut
  <1>8. KnownInv'
    <2>1. known
      BY <1>0, <1>1, <1>3, PromiseFacts DEF KnownInv
    <2>2. \A l \in Lease : lease'[l].at # "creating"
      <3>1. \A l \in Lease : lease[l].at # "creating"
        BY <1>0, <2>1 DEF KnownInv, Awaited
      <3>2. QED
        BY <1>2, <1>4, <3>1
    <2>3. QED
      BY <1>0, <1>1, <1>5, <2>1, <2>2 DEF KnownInv
  <1>9. /\ Hold \subseteq Lease /\ Hold' \subseteq Lease
        /\ \A l \in Lease : l # d => (l \in Hold' <=> l \in Hold)
        /\ \A l \in Lease : l # d => lease'[l].mode = lease[l].mode
        /\ ws \subseteq Hold /\ (d \in Hold <=> current)
    <2>1. \A l \in Lease : l # d => (Holds(l)' <=> Holds(l))
      BY <1>2 DEF Holds
    <2>2. ws \subseteq Hold /\ (d \in Hold <=> current)
      BY <1>1, <1>2, <1>4 DEF Hold, Holds
    <2>3. \A l \in Lease : l # d => lease'[l].mode = lease[l].mode
      BY <1>2
    <2>4. QED
      BY <2>1, <2>2, <2>3 DEF Hold
  <1>10. UpInv'
    <2>1. SUFFICES ASSUME up, ~strayed PROVE Accounted' /\ Ordered'
      BY <1>1 DEF UpInv
    <2>2. Accounted /\ Ordered
      BY <1>0, <2>1 DEF UpInv
    <2>3. current /\ detachment = {d}
      BY <1>1, <1>4, <2>2 DEF Ordered
    <2>4. \A q \in Promise : Open(q) => q = Detach(d)
      BY <1>1, <2>2, PromiseFacts DEF Ordered
    <2>5. Hold = ws \cup {d} /\ ~cleanup
      <3>1. \A l \in Hold : l # d => lease[l].at = "waiting"
        BY <1>1, <2>2, <2>3 DEF Ordered
      <3>2. \A l \in Hold : l # d => \E e \in Lease : lease[l].on = {e} /\ Open(Detach(e))
        BY <1>0, <1>9, <3>1 DEF Awaited
      <3>3. \A l \in Hold : l # d => lease[l].on = {d}
        BY <1>1, <2>4, <3>2, PromiseFacts
      <3>4. d \in Hold
        BY <1>1, <2>3 DEF Hold, Holds
      <3>5. QED
        BY <1>2, <1>9, <2>2, <2>3, <3>1, <3>3, <3>4 DEF Ordered
    <2>6. Hold' = IF gone THEN ws ELSE ws \cup {d}
      <3>1. d \in Hold' <=> ~gone
        BY <1>1, <2>3 DEF Hold, Holds
      <3>2. QED
        BY <1>1, <1>2, <1>9, <2>5, <3>1
    <2>7. count' = Cardinality(Hold)' /\ exclusive' = exclusive \cap Hold'
      <3>1. count = Cardinality(Hold) /\ exclusive \subseteq Hold
        BY <2>2 DEF Accounted
      <3>2. Cardinality({d}) = 1 /\ Cardinality(Hold \ {d}) = Cardinality(Hold) - 1
            /\ Cardinality(Hold \ {d}) \in Nat
        <4>1. Hold \in SUBSET Lease /\ Hold \ {d} \in SUBSET Lease /\ d \in Hold
          BY <1>9, <2>5
        <4>2. QED
          BY <1>1, <4>1, LeaseSets
      <3>3. CASE gone
        <4>1. Hold' = Hold \ {d}
          BY <1>2, <2>5, <2>6, <3>3
        <4>2. count' = Cardinality(Hold \ {d}) /\ exclusive' = exclusive \ {d}
          BY <1>1, <1>3, <3>1, <3>2, <3>3 DEF Released
        <4>3. QED
          BY <3>1, <4>1, <4>2
      <3>4. CASE ~gone
        <4>1. Hold' = Hold /\ count' = count /\ exclusive' = exclusive
          BY <1>1, <2>5, <2>6, <3>4
        <4>2. QED
          BY <3>1, <4>1
      <3>5. QED
        BY <3>3, <3>4
    <2>8. Hold' \subseteq Hold /\ \A l \in Hold' : lease'[l].mode = lease[l].mode
      <3>1. Hold' \subseteq Hold
        BY <2>5, <2>6
      <3>2. d \in Hold' => ~gone
        BY <1>2, <2>6
      <3>3. d \in Hold' => lease'[d].mode = lease[d].mode
        BY <1>1, <2>3, <3>2
      <3>4. \A l \in Hold' : l = d \/ (l \in Lease /\ l # d)
        BY <1>9
      <3>5. QED
        BY <1>9, <3>1, <3>3, <3>4
    <2>9. Accounted'
      BY <2>2, <2>7, <2>8 DEF Accounted
    <2>10. \A l \in Lease : l \notin ws /\ l # d
             => lease'[l].at \notin {"waiting", "reconciling", "attaching", "active", "releasing", "invalidated"}
      <3>1. \A l \in Lease : lease[l].at \in {"waiting", "reconciling", "attaching", "active", "releasing"} => l \in Hold
        BY DEF Hold, Holds
      <3>2. QED
        BY <1>2, <2>2, <2>5, <3>1 DEF Ordered
    <2>11. \A q \in Promise : Open(q)' => /\ ws # {}
                                          /\ q = IF cleanup' THEN Shared("reconcile") ELSE Shared("attach")
                                          /\ ~cleanup' => ~attached
      BY <1>2, <2>4
    <2>12. \A p, q \in Promise : Open(p)' /\ Open(q)' => p = q
      BY <2>11
    <2>13. /\ Open(Shared("attach"))' => \E l \in Lease : lease'[l].at = "attaching"
           /\ Open(Shared("reconcile"))' => \E l \in Lease : lease'[l].at = "reconciling"
      BY <1>2, <2>11, PromiseFacts
    <2>14. \A l \in Lease : lease'[l].at \notin {"releasing", "invalidated"}
      BY <1>2, <1>4, <2>10
    <2>15. \A l \in Lease : lease'[l].at = "reconciling" => cleanup'
      BY <1>2, <1>4, <2>10
    <2>16. cleanup' => \A l \in Hold' : lease'[l].at = "reconciling"
      <3>1. cleanup' => gone
        BY <1>1, <2>5 DEF Gone
      <3>2. QED
        BY <1>2, <2>6, <3>1
    <2>17. QED
      BY <2>9, <2>12, <2>13, <2>14, <2>15, <2>16 DEF Ordered
  <1>11. DownInv'
    <2>1. SUFFICES ASSUME ~up, ~strayed PROVE ~cleanup' /\ Failing'
      BY <1>1 DEF DownInv
    <2>2. ~cleanup /\ Failing /\ ~attached
      BY <1>0, <2>1 DEF DownInv, Cut, Created
    <2>3. ~current
      <3>1. current => d \in Hold
        BY <1>1 DEF Hold, Holds
      <3>2. QED
        BY <2>2, <3>1 DEF Failing
    <2>4. ~cleanup' /\ d \notin Hold /\ lease'[d].at = "free"
      BY <1>1, <1>9, <2>2, <2>3
    <2>5. Hold' = Hold
      <3>1. d \notin Hold'
        BY <2>4 DEF Hold, Holds
      <3>2. \A l \in Lease : l \in Hold' <=> l \in Hold
        BY <1>9, <2>4, <3>1
      <3>3. QED
        BY <1>9, <3>2
    <2>6. count' <= count /\ exclusive' \subseteq exclusive
      <3>1. Cardinality({d}) = 1
        BY <1>1, LeaseSets
      <3>2. QED
        BY <1>1, <1>3, <3>1 DEF Released
    <2>7. Cardinality(Hold) \in Nat /\ count' \in Nat
      BY <1>1, <1>9, LeaseSets DEF LTypeOK
    <2>8. count' <= Cardinality(Hold)' /\ exclusive' \subseteq Hold'
      BY <1>3, <2>2, <2>5, <2>6, <2>7 DEF Failing
    <2>9. \A l \in Hold' : lease'[l].at \in {"waiting", "reconciling", "attaching"}
      BY <1>2, <1>9, <2>2, <2>4, <2>5 DEF Failing
    <2>10. QED
      BY <2>4, <2>8, <2>9 DEF Failing
  <1>12. QED
    BY <1>1, <1>6, <1>7, <1>8, <1>10, <1>11 DEF LInv

-----------------------------------------------------------------------------
(***************************************************************************)
(* The other continuations                                                 *)
(***************************************************************************)

\* The promise that everybody in this stage awaits.
Stage(p, where) ==
  \/ p = Shared("attach") /\ where = "attaching"
  \/ p = Shared("reconcile") /\ where = "reconciling"

\* The first settled promise is p, and only p is taken.
LEMMA SharedResumed ==
  ASSUME LTypeOK, Unique, due # <<>>,
         NEW p \in {Shared("attach"), Shared("reconcile"), Shared("create")}, Head(due).of = p.of
  PROVE  /\ Open(p) /\ p \in Promise /\ UniqueWith(Tail(due)) /\ Tail(due) \in Seq(Answer)
         /\ \A q \in Promise : OpenWith(q, Tail(due)) <=> Open(q) /\ q # p
  <1>1. PICK r \in Promise : /\ Head(due).of = r.of /\ Head(due).by = r.by /\ Open(r)
                             /\ \A q \in Promise : OpenWith(q, Tail(due)) <=> Open(q) /\ q # r
    BY ResumeFacts
  <1>2. p \in Promise
    BY PromiseFacts
  <1>3. r = p
    BY <1>1, PromiseFacts
  <1>4. QED
    BY <1>1, <1>2, <1>3, ResumeFacts

\* The acquisitions that awaited a promise fail with it.
LEMMA FailedStep ==
  ASSUME LInv, due # <<>>, NEW p, NEW where, Stage(p, where), Head(due).of = p.of,
         Failed(At(where)), due' = Tail(due), pending' = pending, sent' = sent,
         cleanup' = cleanup \/ (At("reconciling") = {} /\ where = "reconciling" /\ cleanup' = FALSE),
         known' = known, detachment' = detachment, strayed' = strayed,
         up' = up, attached' = attached, inbox' = inbox, served' = served, late' = late
  PROVE  LInv'
  <1>0. LTypeOK /\ Unique /\ Awaited /\ Cut /\ KnownInv /\ UpInv /\ DownInv
    BY DEF LInv
  <1>1. /\ Open(p) /\ p \in Promise /\ UniqueWith(Tail(due)) /\ Tail(due) \in Seq(Answer)
        /\ \A q \in Promise : OpenWith(q, Tail(due)) <=> Open(q) /\ q # p
    <2>1. p \in {Shared("attach"), Shared("reconcile"), Shared("create")}
      BY DEF Stage
    <2>2. QED
      BY <1>0, <2>1, SharedResumed
  <1>2. Unique' /\ \A q \in Promise : Open(q)' <=> Open(q) /\ q # p
    <2>1. Unique' /\ \A q \in Promise : Open(q)' <=> OpenWith(q, Tail(due))
      BY <1>1 DEF Open, OpenWith, Pending, Due, Unique, UniqueWith, Distinct
    <2>2. QED
      BY <1>1, <2>1
  <1>3. PICK ls \in SUBSET Lease : ls = At(where)
    BY DEF At
  <1>4. \A l \in Lease : l \in ls <=> lease[l].at = where
    BY <1>3 DEF At
  <1>5. /\ lease' \in [Lease -> LeaseSet]
        /\ \A l \in ls : lease'[l].at = "free"
        /\ \A l \in Lease : l \notin ls => lease'[l] = lease[l]
    <2>1. Free \in LeaseSet /\ Free.at = "free"
      BY DEF Free, LeaseSet, Stages, Modes
    <2>2. lease' = [l \in Lease |-> IF l \in ls THEN Free ELSE lease[l]]
      BY <1>3 DEF Failed
    <2>3. QED
      BY <1>0, <2>1, <2>2 DEF LTypeOK
  <1>6. /\ count' = IF Cardinality(ls) >= count THEN 0 ELSE count - Cardinality(ls)
        /\ exclusive' = exclusive \ ls
        /\ Cardinality(ls) \in Nat /\ count \in Nat /\ count' \in Nat
    BY <1>0, <1>3, LeaseSets DEF Failed, Released, LTypeOK
  <1>7. cleanup' \in BOOLEAN /\ (cleanup' => cleanup)
    <2>1. cleanup \in BOOLEAN
      BY <1>0 DEF LTypeOK
    <2>2. CASE cleanup' = cleanup
      BY <2>1, <2>2
    <2>3. CASE cleanup' = FALSE
      BY <2>3
    <2>4. QED
      BY <2>2, <2>3
  <1>8. LTypeOK'
    BY <1>0, <1>1, <1>5, <1>6, <1>7 DEF LTypeOK
  <1>9. /\ \A l \in Lease : Open(Detach(l))' <=> Open(Detach(l))
        /\ Open(Shared("create"))' <=> Open(Shared("create"))
        /\ where # "attaching" /\ Open(Shared("attach")) => Open(Shared("attach"))'
        /\ where # "reconciling" /\ Open(Shared("reconcile")) => Open(Shared("reconcile"))'
        /\ where \in {"attaching", "reconciling"}
    BY <1>2, PromiseFacts DEF Stage
  <1>10. Awaited'
    <2>1. \A l \in Lease : lease'[l].at = "waiting"
            => \E e \in Lease : lease'[l].on = {e} /\ Open(Detach(e))'
      BY <1>0, <1>5, <1>9 DEF Awaited
    <2>2. \A l \in Lease : lease'[l].at = "attaching" => Open(Shared("attach"))'
      BY <1>0, <1>4, <1>5, <1>9 DEF Awaited
    <2>3. \A l \in Lease : lease'[l].at = "reconciling" => Open(Shared("reconcile"))'
      BY <1>0, <1>4, <1>5, <1>9 DEF Awaited
    <2>4. \A l \in Lease : lease'[l].at = "creating" => Open(Shared("create"))'
      BY <1>0, <1>5, <1>9 DEF Awaited
    <2>5. \A l \in Lease : lease'[l].at \in {"releasing", "invalidated"} <=> Open(Detach(l))'
      BY <1>0, <1>4, <1>5, <1>9 DEF Awaited
    <2>6. detachment' = {} \/ \E e \in Lease : detachment' = {e} /\ Open(Detach(e))'
      BY <1>0, <1>9 DEF Awaited
    <2>7. QED
      BY <2>1, <2>2, <2>3, <2>4, <2>5, <2>6 DEF Awaited
  <1>11. Cut'
    BY <1>0 DEF Cut
  <1>12. KnownInv'
    <2>1. known
      BY <1>0, <1>1, <1>9, PromiseFacts DEF KnownInv, LTypeOK, Stage
    <2>2. \A l \in Lease : lease'[l].at # "creating"
      BY <1>0, <1>5, <2>1 DEF KnownInv, Awaited
    <2>3. QED
      BY <1>0, <1>9, <2>1, <2>2 DEF KnownInv
  <1>13. /\ Hold \in SUBSET Lease /\ ls \subseteq Hold /\ Hold' = Hold \ ls
         /\ \A l \in Hold' : lease'[l] = lease[l]
    <2>1. \A l \in Lease : Holds(l)' <=> Holds(l) /\ l \notin ls
      BY <1>5 DEF Holds
    <2>2. \A l \in ls : Holds(l)
      BY <1>4, <1>9 DEF Holds
    <2>3. Hold \in SUBSET Lease /\ ls \subseteq Hold /\ Hold' = Hold \ ls
      BY <2>1, <2>2 DEF Hold
    <2>4. QED
      BY <1>5, <2>3
  <1>14. /\ Cardinality(Hold') = Cardinality(Hold) - Cardinality(ls)
         /\ Cardinality(ls) <= Cardinality(Hold) /\ Cardinality(Hold) \in Nat
    BY <1>13, LeaseSets
  <1>15. UpInv'
    <2>1. SUFFICES ASSUME up, ~strayed PROVE Accounted' /\ Ordered'
      BY DEF UpInv
    <2>2. Accounted /\ Ordered
      BY <1>0, <2>1 DEF UpInv
    <2>3. count' = Cardinality(Hold)'
      BY <1>6, <1>14, <2>2 DEF Accounted
    <2>4. Accounted'
      BY <1>6, <1>13, <2>2, <2>3 DEF Accounted
    <2>5. \A q \in Promise : ~Open(q)'
      BY <1>1, <1>2, <2>2 DEF Ordered
    <2>6. \A l \in Lease : lease'[l].at \notin {"releasing", "invalidated"}
      BY <1>10, <2>5, PromiseFacts DEF Awaited
    <2>7. cleanup' => \A l \in Hold' : lease'[l].at = "reconciling"
      BY <1>7, <1>13, <2>2 DEF Ordered
    <2>8. \A l \in Lease : lease'[l].at = "reconciling" => cleanup'
      BY <1>4, <1>5, <2>2 DEF Ordered
    <2>9. QED
      BY <2>4, <2>5, <2>6, <2>7, <2>8, PromiseFacts DEF Ordered
  <1>16. DownInv'
    <2>1. SUFFICES ASSUME ~up, ~strayed PROVE ~cleanup' /\ Failing'
      BY DEF DownInv
    <2>2. ~cleanup /\ Failing
      BY <1>0, <2>1 DEF DownInv, Created
    <2>3. count' <= Cardinality(Hold)'
      BY <1>6, <1>14, <2>2 DEF Failing
    <2>4. QED
      BY <1>6, <1>7, <1>13, <2>2, <2>3 DEF Failing
  <1>17. QED
    BY <1>2, <1>8, <1>10, <1>11, <1>12, <1>15, <1>16 DEF LInv

\* The acquisitions that awaited a promise go on when it succeeds: those that cleaned
\* up attach, and those that attached have their lease.
LEMMA GoOnStep ==
  ASSUME LInv, due # <<>>, NEW p, NEW where, NEW next, Stage(p, where), Head(due).of = p.of,
         lease' = [l \in Lease |-> IF l \in At(where) THEN [lease[l] EXCEPT !.at = next] ELSE lease[l]],
         \/ /\ where = "reconciling" /\ next = "attaching" /\ cleanup' = FALSE
            /\ At(where) # {} /\ strayed' = strayed
            /\ Request(Shared("attach"), Tail(due))
         \/ /\ where = "attaching" /\ next = "active" /\ cleanup' = cleanup
            /\ due' = Tail(due) /\ pending' = pending /\ sent' = sent
            /\ strayed' = (strayed \/ (~up /\ At(where) # {})),
         count' = count, exclusive' = exclusive, known' = known, detachment' = detachment,
         up' = up, attached' = attached, inbox' = inbox, served' = served, late' = late
  PROVE  LInv'
  <1>0. LTypeOK /\ Unique /\ Awaited /\ Cut /\ KnownInv /\ UpInv /\ DownInv
    BY DEF LInv
  <1>1. /\ Open(p) /\ p \in Promise /\ UniqueWith(Tail(due)) /\ Tail(due) \in Seq(Answer)
        /\ \A q \in Promise : OpenWith(q, Tail(due)) <=> Open(q) /\ q # p
    <2>1. p \in {Shared("attach"), Shared("reconcile"), Shared("create")}
      BY DEF Stage
    <2>2. QED
      BY <1>0, <2>1, SharedResumed
  <1>2. PICK ls \in SUBSET Lease : ls = At(where)
    BY DEF At
  <1>3. \A l \in Lease : l \in ls <=> lease[l].at = where
    BY <1>2 DEF At
  <1>4. /\ lease' \in [Lease -> LeaseSet]
        /\ \A l \in ls : lease'[l].at = next /\ lease'[l].mode = lease[l].mode
        /\ \A l \in Lease : l \notin ls => lease'[l] = lease[l]
    <2>1. next \in Stages /\ \A l \in Lease : lease[l] \in LeaseSet
      BY <1>0 DEF Stages, LTypeOK
    <2>2. \A l \in Lease : /\ [lease[l] EXCEPT !.at = next] \in LeaseSet
                           /\ [lease[l] EXCEPT !.at = next].at = next
                           /\ [lease[l] EXCEPT !.at = next].mode = lease[l].mode
      BY <2>1, StageFacts
    <2>3. lease' = [l \in Lease |-> IF l \in ls THEN [lease[l] EXCEPT !.at = next] ELSE lease[l]]
      BY <1>2
    <2>4. QED
      BY <2>1, <2>2, <2>3
  <1>5. /\ pending' \in Seq(Promise) /\ sent' \in Seq(Promise) /\ due' \in Seq(Answer)
        /\ Unique'
        /\ \A q \in Promise : Open(q)' <=> \/ Open(q) /\ q # p
                                           \/ where = "reconciling" /\ q = Shared("attach")
        /\ ~up => UNCHANGED <<pending, sent>>
    <2>1. CASE where = "reconciling"
      <3>1. Request(Shared("attach"), Tail(due))
        BY <2>1
      <3>2. /\ pending' \in Seq(Promise) /\ sent' \in Seq(Promise) /\ due' \in Seq(Answer)
            /\ Unique'
            /\ \A q \in Promise : Open(q)' <=> OpenWith(q, Tail(due)) \/ q = Shared("attach")
            /\ ~up => UNCHANGED <<pending, sent>>
        BY <1>0, <1>1, <3>1, PromiseFacts, RequestFacts
      <3>3. QED
        BY <1>1, <2>1, <3>2
    <2>2. CASE where = "attaching"
      <3>1. due' = Tail(due) /\ pending' = pending /\ sent' = sent
        BY <2>2
      <3>2. Unique' /\ \A q \in Promise : Open(q)' <=> OpenWith(q, Tail(due))
        BY <1>1, <3>1 DEF Open, OpenWith, Pending, Due, Unique, UniqueWith, Distinct
      <3>3. QED
        BY <1>0, <1>1, <2>2, <3>1, <3>2 DEF LTypeOK
    <2>3. QED
      BY <2>1, <2>2
  <1>6. cleanup' \in BOOLEAN /\ strayed' \in BOOLEAN /\ (cleanup' => cleanup)
    <2>1. cleanup \in BOOLEAN /\ strayed \in BOOLEAN
      BY <1>0 DEF LTypeOK
    <2>2. (cleanup' = FALSE /\ strayed' = strayed)
            \/ (cleanup' = cleanup /\ strayed' = (strayed \/ (~up /\ At(where) # {})))
      OBVIOUS
    <2>3. (strayed \/ (~up /\ At(where) # {})) \in BOOLEAN
      OBVIOUS
    <2>4. CASE cleanup' = FALSE /\ strayed' = strayed
      BY <2>1, <2>4
    <2>5. CASE cleanup' = cleanup /\ strayed' = (strayed \/ (~up /\ At(where) # {}))
      <3>1. strayed' \in BOOLEAN
        BY <2>3, <2>5
      <3>2. cleanup' \in BOOLEAN /\ (cleanup' => cleanup)
        BY <2>1, <2>5
      <3>3. QED
        BY <3>1, <3>2
    <2>6. QED
      BY <2>2, <2>4, <2>5
  <1>7. LTypeOK'
    BY <1>0, <1>4, <1>5, <1>6 DEF LTypeOK
  <1>8. /\ \A l \in Lease : Open(Detach(l))' <=> Open(Detach(l))
        /\ Open(Shared("create"))' <=> Open(Shared("create"))
        /\ where = "attaching" /\ Open(Shared("reconcile")) => Open(Shared("reconcile"))'
        /\ where = "reconciling" => Open(Shared("attach"))'
        /\ (where = "attaching" /\ next = "active") \/ (where = "reconciling" /\ next = "attaching")
    <2>1. (where = "attaching" /\ next = "active") \/ (where = "reconciling" /\ next = "attaching")
      OBVIOUS
    <2>2. (where = "attaching" => p = Shared("attach")) /\ (where = "reconciling" => p = Shared("reconcile"))
      BY DEF Stage
    <2>3. QED
      BY <1>5, <2>1, <2>2, PromiseFacts
  <1>9. Awaited'
    <2>1. \A l \in Lease : lease'[l].at = "waiting"
            => \E e \in Lease : lease'[l].on = {e} /\ Open(Detach(e))'
      BY <1>0, <1>4, <1>8 DEF Awaited
    <2>2. \A l \in Lease : lease'[l].at = "attaching" => Open(Shared("attach"))'
      BY <1>0, <1>3, <1>4, <1>8 DEF Awaited
    <2>3. \A l \in Lease : lease'[l].at = "reconciling" => Open(Shared("reconcile"))'
      BY <1>0, <1>3, <1>4, <1>8 DEF Awaited
    <2>4. \A l \in Lease : lease'[l].at = "creating" => Open(Shared("create"))'
      BY <1>0, <1>4, <1>8 DEF Awaited
    <2>5. \A l \in Lease : lease'[l].at \in {"releasing", "invalidated"} <=> Open(Detach(l))'
      BY <1>0, <1>3, <1>4, <1>8 DEF Awaited
    <2>6. detachment' = {} \/ \E e \in Lease : detachment' = {e} /\ Open(Detach(e))'
      BY <1>0, <1>8 DEF Awaited
    <2>7. QED
      BY <2>1, <2>2, <2>3, <2>4, <2>5, <2>6 DEF Awaited
  <1>10. Cut'
    BY <1>0, <1>5 DEF Cut
  <1>11. KnownInv'
    <2>1. known
      BY <1>0, <1>1, PromiseFacts DEF KnownInv, LTypeOK, Stage
    <2>2. \A l \in Lease : lease'[l].at # "creating"
      BY <1>0, <1>4, <1>8, <2>1 DEF KnownInv, Awaited
    <2>3. QED
      BY <1>0, <1>8, <2>1, <2>2 DEF KnownInv
  <1>12. Hold' = Hold /\ ls \subseteq Hold /\ \A l \in Hold : lease'[l].mode = lease[l].mode
    <2>1. \A l \in Lease : Holds(l)' <=> Holds(l)
      BY <1>3, <1>4, <1>8 DEF Holds
    <2>2. \A l \in ls : Holds(l)
      BY <1>3, <1>8 DEF Holds
    <2>3. QED
      BY <1>4, <2>1, <2>2 DEF Hold
  <1>13. UpInv'
    <2>1. SUFFICES ASSUME up, ~strayed' PROVE Accounted' /\ Ordered'
      BY DEF UpInv
    <2>2. Accounted /\ Ordered
      BY <1>0, <1>6, <2>1 DEF UpInv, LTypeOK
    <2>3. Accounted'
      BY <1>12, <2>2 DEF Accounted
    <2>4. \A q \in Promise : Open(q) => q = p
      BY <1>1, <2>2 DEF Ordered
    <2>5. \A q \in Promise : Open(q)' => where = "reconciling" /\ q = Shared("attach")
      BY <1>5, <2>4
    <2>6. \A l \in Lease : lease'[l].at \notin {"releasing", "invalidated"}
      BY <1>9, <2>5, PromiseFacts DEF Awaited
    <2>7. ~cleanup'
      <3>1. where = "attaching" => ls # {}
        BY <1>1, <1>3, <2>2 DEF Ordered, Stage
      <3>2. where = "attaching" => ~cleanup
        BY <1>3, <1>12, <2>2, <3>1 DEF Ordered
      <3>3. QED
        BY <3>2
    <2>8. \A l \in Lease : lease'[l].at # "reconciling"
      <3>1. where = "attaching" => ~Open(Shared("reconcile"))
        BY <2>4, PromiseFacts DEF Stage
      <3>2. QED
        BY <1>0, <1>3, <1>4, <1>8, <3>1 DEF Awaited
    <2>9. Open(Shared("attach"))' => \E l \in Lease : lease'[l].at = "attaching"
      BY <1>2, <1>4, <1>8, <2>5, PromiseFacts
    <2>10. ~Open(Shared("reconcile"))'
      BY <2>5, PromiseFacts
    <2>11. QED
      BY <2>3, <2>5, <2>6, <2>7, <2>8, <2>9, <2>10 DEF Ordered
  <1>14. DownInv'
    <2>1. SUFFICES ASSUME ~up, ~strayed' PROVE ~cleanup' /\ Failing'
      BY DEF DownInv
    <2>2. ~cleanup /\ Failing
      BY <1>0, <1>6, <2>1 DEF DownInv, Created, LTypeOK
    <2>3. where = "attaching" => ls = {}
      BY <1>2, <2>1
    <2>4. \A l \in Hold' : lease'[l].at \in {"waiting", "reconciling", "attaching"}
      BY <1>4, <1>8, <1>12, <2>2, <2>3 DEF Failing, Hold
    <2>5. QED
      BY <1>6, <1>12, <2>2, <2>4 DEF Failing
  <1>15. QED
    BY <1>5, <1>7, <1>9, <1>10, <1>11, <1>13, <1>14 DEF LInv

LEMMA ResumeCreateStep ==
  ASSUME LInv, due # <<>>, Head(due).of = "create", NEW ok \in BOOLEAN,
         ResumeCreate(ok, Tail(due)),
         up' = up, attached' = attached, inbox' = inbox, served' = served, late' = late
  PROVE  LInv'
  <1>0. /\ LTypeOK /\ Unique /\ Awaited /\ Cut /\ KnownInv /\ UpInv /\ DownInv
        /\ known' = (known \/ ok) /\ due' = Tail(due) /\ cleanup' = cleanup
        /\ detachment' = detachment /\ pending' = pending /\ sent' = sent /\ strayed' = strayed
    BY DEF LInv, ResumeCreate
  <1>1. /\ Open(Shared("create")) /\ UniqueWith(Tail(due)) /\ Tail(due) \in Seq(Answer)
        /\ \A q \in Promise : OpenWith(q, Tail(due)) <=> Open(q) /\ q # Shared("create")
    BY <1>0, PromiseFacts, SharedResumed
  <1>2. /\ ~known /\ count = 0 /\ exclusive = {} /\ ~cleanup /\ detachment = {}
        /\ \A l \in Lease : lease[l].at \in {"free", "creating"}
    BY <1>0, <1>1 DEF KnownInv, LTypeOK
  <1>3. Unique' /\ \A q \in Promise : ~Open(q)'
    <2>1. Unique' /\ \A q \in Promise : Open(q)' <=> OpenWith(q, Tail(due))
      BY <1>0, <1>1 DEF Open, OpenWith, Pending, Due, Unique, UniqueWith, Distinct
    <2>2. QED
      BY <1>0, <1>1, <1>2, <2>1 DEF KnownInv
  <1>4. PICK ls \in SUBSET Lease : ls = At("creating")
    BY DEF At
  <1>5. /\ \A l \in Lease : l \in ls <=> lease[l].at = "creating"
        /\ \A l, k \in ls : l = k
        /\ \A l \in ls : lease[l].mode = "exclusive"
    BY <1>0, <1>4 DEF At, KnownInv
  <1>6. MayReserve("exclusive")
    BY <1>2 DEF MayReserve
  <1>7. /\ lease' \in [Lease -> LeaseSet]
        /\ \A l \in Lease : l \notin ls => lease'[l].at = "free"
        /\ \A l \in ls : /\ ~ok => lease'[l].at = "free"
                         /\ ok => lease'[l].at = "active" /\ lease'[l].mode = "exclusive"
    <2>1. /\ Free \in LeaseSet /\ Free.at = "free" /\ "active" \in Stages
          /\ \A l \in Lease : lease[l] \in LeaseSet
      BY <1>0 DEF Free, LeaseSet, Stages, Modes, LTypeOK
    <2>2. \A l \in Lease : /\ [lease[l] EXCEPT !.at = "active"] \in LeaseSet
                           /\ [lease[l] EXCEPT !.at = "active"].at = "active"
                           /\ [lease[l] EXCEPT !.at = "active"].mode = lease[l].mode
      BY <2>1, StageFacts
    <2>3. CASE ok
      <3>1. lease' = [l \in Lease |-> IF l \in ls THEN [lease[l] EXCEPT !.at = "active"] ELSE lease[l]]
        BY <1>4, <1>6, <2>3 DEF ResumeCreate
      <3>2. QED
        BY <1>2, <1>5, <2>1, <2>2, <2>3, <3>1
    <2>4. CASE ~ok
      <3>1. lease' = [l \in Lease |-> IF l \in ls THEN Free ELSE lease[l]]
        BY <1>4, <2>4 DEF ResumeCreate
      <3>2. QED
        BY <1>2, <1>5, <2>1, <2>4, <3>1
    <2>5. QED
      BY <2>3, <2>4
  <1>8. Hold' = IF ok THEN ls ELSE {}
    <2>1. \A l \in Lease : Holds(l)' <=> ok /\ l \in ls
      BY <1>7 DEF Holds
    <2>2. QED
      BY <2>1 DEF Hold
  <1>9. count' = Cardinality(Hold') /\ exclusive' = Hold' /\ count' \in Nat
    <2>1. CASE ok
      <3>1. count' = count + Cardinality(ls) /\ exclusive' = ls
        BY <1>4, <1>6, <2>1 DEF ResumeCreate
      <3>2. Cardinality(ls) \in Nat
        BY LeaseSets
      <3>3. QED
        BY <1>2, <1>8, <2>1, <3>1, <3>2
    <2>2. CASE ~ok
      <3>1. count' = count /\ exclusive' = exclusive
        BY <2>2 DEF ResumeCreate
      <3>2. Cardinality(Hold') = 0 /\ Hold' = {}
        BY <1>8, <2>2, LeaseSets
      <3>3. QED
        BY <1>2, <3>1, <3>2
    <2>3. QED
      BY <2>1, <2>2
  <1>10. LTypeOK'
    <2>1. known' \in BOOLEAN /\ exclusive' \subseteq Lease
      BY <1>0, <1>8, <1>9
    <2>2. QED
      BY <1>0, <1>1, <1>7, <1>9, <2>1 DEF LTypeOK
  <1>11. Awaited'
    <2>1. \A l \in Lease : lease'[l].at \in {"free", "active"} /\ ~Open(Detach(l))'
      BY <1>3, <1>7, PromiseFacts
    <2>2. QED
      BY <1>0, <1>2, <2>1 DEF Awaited
  <1>12. Cut'
    BY <1>0 DEF Cut
  <1>13. \A l \in Lease : lease'[l].at \in {"free", "active"} /\ (~ok => lease'[l].at = "free")
    BY <1>7
  <1>14. KnownInv'
    <2>1. ~known' => ~ok
      BY <1>0
    <2>2. ~ok => count' = 0 /\ exclusive' = {}
      BY <1>8, <1>9, LeaseSets
    <2>3. QED
      BY <1>0, <1>2, <1>3, <1>13, <2>1, <2>2, PromiseFacts DEF KnownInv
  <1>15. \A l \in Hold' : lease'[l].at = "active" /\ lease'[l].mode = "exclusive"
    BY <1>7, <1>8
  <1>16. UpInv'
    <2>1. Accounted'
      BY <1>5, <1>8, <1>9, <1>15 DEF Accounted
    <2>2. Ordered'
      BY <1>0, <1>2, <1>3, <1>13, PromiseFacts DEF Ordered
    <2>3. QED
      BY <2>1, <2>2 DEF UpInv
  <1>17. DownInv'
    <2>1. SUFFICES ASSUME ~up PROVE ~cleanup' /\ (Failing' \/ Created')
      BY DEF DownInv
    <2>2. CASE Hold' = {}
      <3>1. count' <= Cardinality(Hold)'
        BY <1>9
      <3>2. QED
        BY <1>0, <1>2, <1>9, <2>2, <3>1 DEF Failing
    <2>3. CASE Hold' # {}
      <3>1. PICK l \in Lease : Hold' = {l}
        BY <1>5, <1>8, <2>3
      <3>2. count' = 1 /\ exclusive' = {l}
        BY <1>9, <3>1, LeaseSets
      <3>3. known'
        BY <1>0, <1>8, <2>3
      <3>4. due' = <<>>
        <4>1. due' \in Seq(Answer)
          BY <1>10 DEF LTypeOK
        <4>2. ASSUME due' # <<>> PROVE FALSE
          <5>1. Len(due') \in Nat \ {0} /\ 1 \in 1..Len(due') /\ due'[1] \in Answer
            BY <4>1, <4>2, EmptySeq, ElementOfSeq
          <5>2. PICK q \in Promise : due'[1].of = q.of /\ due'[1].by = q.by
            BY <5>1, AnswerFacts
          <5>3. Open(q)'
            BY <5>1, <5>2 DEF Open, OpenWith, Due
          <5>4. QED
            BY <1>3, <5>3
        <4>3. QED
          BY <4>2
      <3>5. lease'[l].at = "active" /\ lease'[l].mode = "exclusive"
        BY <1>15, <3>1
      <3>6. QED
        BY <1>0, <1>2, <3>1, <3>2, <3>3, <3>4, <3>5 DEF Created
    <2>4. QED
      BY <2>2, <2>3
  <1>18. QED
    BY <1>3, <1>10, <1>11, <1>12, <1>14, <1>16, <1>17 DEF LInv

\* The continuations of a settled promise.
LEMMA ResumeStep ==
  ASSUME LInv, Resume
  PROVE  LInv'
  <1>0. /\ due # <<>> /\ up' = up /\ attached' = attached /\ inbox' = inbox
        /\ served' = served /\ late' = late
    BY DEF Resume
  <1>1. Head(due).ok \in BOOLEAN
    <2>1. due \in Seq(Answer)
      BY DEF LInv, LTypeOK
    <2>2. Head(due) \in Answer
      BY <1>0, <2>1, TailFacts
    <2>3. QED
      BY <2>2, AnswerFacts
  <1>2. PICK ok \in BOOLEAN : ok = Head(due).ok
    BY <1>1
  <1>3. CASE Head(due).of = "detach" /\ \E d \in Head(due).by : ResumeRelease(d, ok, Tail(due))
    BY <1>0, <1>3, ResumeReleaseStep
  <1>4. CASE Head(due).of = "reconcile" /\ ResumeReconcile(ok, Tail(due))
    <2>0. /\ cleanup' = (cleanup /\ ~ok) /\ known' = known /\ detachment' = detachment
          /\ strayed' = strayed
      BY <1>4 DEF ResumeReconcile
    <2>1. Stage(Shared("reconcile"), "reconciling") /\ Head(due).of = Shared("reconcile").of
      BY <1>4, PromiseFacts DEF Stage
    <2>2. CASE ok /\ At("reconciling") # {}
      <3>1. /\ lease' = [l \in Lease |-> IF l \in At("reconciling")
                                         THEN [lease[l] EXCEPT !.at = "attaching"] ELSE lease[l]]
            /\ Request(Shared("attach"), Tail(due))
            /\ count' = count /\ exclusive' = exclusive /\ cleanup' = FALSE
        BY <1>4, <2>2 DEF ResumeReconcile
      <3>2. QED
        BY <1>0, <2>0, <2>1, <2>2, <3>1, GoOnStep
    <2>3. CASE ~(ok /\ At("reconciling") # {})
      <3>1. Failed(At("reconciling")) /\ due' = Tail(due) /\ pending' = pending /\ sent' = sent
        BY <1>4, <2>3 DEF ResumeReconcile
      <3>2. cleanup' = cleanup \/ (At("reconciling") = {} /\ "reconciling" = "reconciling" /\ cleanup' = FALSE)
        <4>1. cleanup \in BOOLEAN
          BY DEF LInv, LTypeOK
        <4>2. QED
          BY <2>0, <2>3, <4>1
      <3>3. QED
        BY <1>0, <2>0, <2>1, <3>1, <3>2, FailedStep
    <2>4. QED
      BY <2>2, <2>3
  <1>5. CASE Head(due).of = "attach" /\ ResumeAttach(ok, Tail(due))
    <2>0. /\ due' = Tail(due) /\ known' = known /\ cleanup' = cleanup
          /\ detachment' = detachment /\ pending' = pending /\ sent' = sent
      BY <1>5 DEF ResumeAttach
    <2>1. Stage(Shared("attach"), "attaching") /\ Head(due).of = Shared("attach").of
      BY <1>5, PromiseFacts DEF Stage
    <2>2. CASE ok
      <3>1. /\ lease' = [l \in Lease |-> IF l \in At("attaching")
                                         THEN [lease[l] EXCEPT !.at = "active"] ELSE lease[l]]
            /\ strayed' = (strayed \/ (~up /\ At("attaching") # {}))
            /\ count' = count /\ exclusive' = exclusive
        BY <1>5, <2>2 DEF ResumeAttach
      <3>2. QED
        BY <1>0, <2>0, <2>1, <3>1, GoOnStep
    <2>3. CASE ~ok
      <3>1. Failed(At("attaching")) /\ strayed' = strayed
        BY <1>5, <2>3 DEF ResumeAttach
      <3>2. QED
        BY <1>0, <2>0, <2>1, <3>1, FailedStep
    <2>4. QED
      BY <2>2, <2>3
  <1>6. CASE Head(due).of = "create" /\ ResumeCreate(ok, Tail(due))
    BY <1>0, <1>6, ResumeCreateStep
  <1>7. QED
    BY <1>2, <1>3, <1>4, <1>5, <1>6 DEF Resume

-----------------------------------------------------------------------------
(***************************************************************************)
(* The connection and the server                                           *)
(***************************************************************************)

\* A step that keeps the leases, and what is under way.
LEMMA KeptStep ==
  ASSUME LInv, LTypeOK', Unique', Cut',
         \A q \in Promise : Open(q)' <=> Open(q),
         lease' = lease, count' = count, exclusive' = exclusive, cleanup' = cleanup,
         known' = known, detachment' = detachment, strayed' = strayed,
         (up' = up /\ due' = due) \/ up
  PROVE  Awaited' /\ KnownInv' /\ (up' = up => LInv')
  <1>0. LTypeOK /\ Unique /\ Awaited /\ Cut /\ KnownInv /\ UpInv /\ DownInv
    BY DEF LInv
  <1>1. /\ \A l \in Lease : Open(Detach(l))' <=> Open(Detach(l))
        /\ Open(Shared("attach"))' <=> Open(Shared("attach"))
        /\ Open(Shared("reconcile"))' <=> Open(Shared("reconcile"))
        /\ Open(Shared("create"))' <=> Open(Shared("create"))
    BY PromiseFacts
  <1>2. Awaited'
    BY <1>0, <1>1 DEF Awaited
  <1>3. KnownInv'
    BY <1>0, <1>1 DEF KnownInv
  <1>4. Hold' = Hold
    BY DEF Hold, Holds
  <1>5. ASSUME up' = up PROVE LInv'
    <2>1. UpInv'
      <3>1. SUFFICES ASSUME up, ~strayed PROVE Accounted' /\ Ordered'
        BY <1>5 DEF UpInv
      <3>2. Accounted /\ Ordered
        BY <1>0, <3>1 DEF UpInv
      <3>3. Accounted'
        BY <1>4, <3>2 DEF Accounted
      <3>4. Ordered'
        BY <1>1, <1>4, <3>2 DEF Ordered
      <3>5. QED
        BY <3>3, <3>4
    <2>2. DownInv'
      <3>1. SUFFICES ASSUME ~up, ~strayed PROVE ~cleanup' /\ (Failing' \/ Created')
        BY <1>5 DEF DownInv
      <3>2. ~cleanup /\ (Failing \/ Created) /\ due' = due
        BY <1>0, <3>1 DEF DownInv
      <3>3. QED
        BY <1>4, <3>2 DEF Failing, Created
    <2>3. QED
      BY <1>2, <1>3, <2>1, <2>2 DEF LInv
  <1>6. QED
    BY <1>2, <1>3, <1>5

LEMMA ReceiveStep ==
  ASSUME LInv, Receive
  PROVE  LInv'
  <1>0. /\ LTypeOK /\ Unique /\ Awaited /\ Cut /\ KnownInv /\ UpInv /\ DownInv
        /\ inbox # <<>> /\ inbox' = Tail(inbox)
        /\ known' = known /\ up' = up /\ lease' = lease /\ count' = count
        /\ exclusive' = exclusive /\ cleanup' = cleanup /\ detachment' = detachment
        /\ sent' = sent /\ served' = served /\ strayed' = strayed /\ late' = late
    BY DEF LInv, Receive, history
  <1>1. inbox' \in Seq(Frame) /\ Head(inbox) \in Frame
    BY <1>0, TailFacts DEF LTypeOK
  <1>2. up
    BY <1>0 DEF Cut, LTypeOK
  <1>3. CASE Head(inbox).of = "event" /\ attached' = TRUE /\ UNCHANGED <<pending, due>>
    <2>1. LTypeOK'
      BY <1>0, <1>1, <1>3 DEF LTypeOK
    <2>2. Unique' /\ \A q \in Promise : Open(q)' <=> Open(q)
      BY <1>0, <1>3 DEF Unique, UniqueWith, Distinct, Open, OpenWith, Pending, Due
    <2>3. Cut'
      BY <1>0, <1>2 DEF Cut
    <2>4. QED
      BY <1>0, <1>2, <2>1, <2>2, <2>3, KeptStep
  <1>4. ASSUME NEW k \in 1..Len(pending),
               pending[k].of = Head(inbox).of, pending[k].by = Head(inbox).by,
               pending' = Taken(k), due' = Append(due, Head(inbox)),
               attached' = IF Head(inbox).ok THEN Head(inbox).of \in {"attach", "create"} ELSE attached
        PROVE  LInv'
    <2>1. pending[k] \in Promise
      BY <1>0, <1>4, ElementOfSeq DEF LTypeOK
    <2>2. Head(inbox).of # "event"
      BY <1>4, <2>1, PromiseFacts
    <2>3. Head(inbox) \in Answer
      BY <1>1, <2>2, AnswerFacts
    <2>4. /\ pending' \in Seq(Promise) /\ due' \in Seq(Answer)
          /\ Unique'
          /\ \A q \in Promise : Open(q)' <=> Open(q)
      BY <1>0, <1>4, <2>3, ResponseFacts
    <2>5. LTypeOK'
      <3>1. attached' \in BOOLEAN
        <4>1. attached \in BOOLEAN /\ (Head(inbox).of \in {"attach", "create"}) \in BOOLEAN
          BY <1>0 DEF LTypeOK
        <4>2. CASE Head(inbox).ok
          BY <1>4, <4>1, <4>2
        <4>3. CASE ~Head(inbox).ok
          BY <1>4, <4>1, <4>3
        <4>4. QED
          BY <4>2, <4>3
      <3>2. QED
        BY <1>0, <1>1, <2>4, <3>1 DEF LTypeOK
    <2>6. Cut'
      BY <1>0, <1>2 DEF Cut
    <2>7. QED
      BY <1>0, <1>2, <2>4, <2>5, <2>6, KeptStep
  <1>5. QED
    BY <1>3, <1>4 DEF Receive

LEMMA DropStep ==
  ASSUME LInv, Drop
  PROVE  LInv'
  <1>0. /\ LTypeOK /\ Unique /\ Awaited /\ Cut /\ KnownInv /\ UpInv /\ DownInv
        /\ up /\ up' = FALSE /\ attached' = FALSE /\ cleanup' = FALSE /\ Invalidated
        /\ due' = due \o Rejected
        /\ pending' = <<>> /\ sent' = <<>> /\ inbox' = <<>>
        /\ served' = FALSE /\ late' = FALSE
        /\ known' = known /\ detachment' = detachment
    BY DEF LInv, Drop
  <1>1. /\ due' \in Seq(Answer) /\ Unique'
        /\ \A q \in Promise : Open(q)' <=> Open(q)
    BY <1>0, RejectFacts
  <1>2. /\ lease' \in [Lease -> LeaseSet]
        /\ \A l \in Lease : lease'[l].at = "waiting" => lease'[l] = lease[l]
        /\ \A l \in Lease : lease'[l].at \in {"reconciling", "attaching", "creating"} => lease'[l] = lease[l]
        /\ \A l \in Lease : lease'[l].at \in {"releasing", "invalidated"} <=> lease[l].at \in {"releasing", "invalidated"}
        /\ \A l \in Lease : lease[l].at \in {"free", "creating"} => lease'[l] = lease[l]
        /\ count # 0 => /\ count' = 0 /\ exclusive' = {} /\ strayed' = FALSE
                        /\ \A l \in Lease : lease'[l].at \notin {"active", "releasing"}
        /\ count = 0 => lease' = lease /\ count' = count /\ exclusive' = exclusive /\ strayed' = strayed
    <2>1. CASE count = 0
      BY <1>0, <2>1 DEF Invalidated, LTypeOK
    <2>2. CASE count # 0
      <3>1. /\ Free \in LeaseSet /\ Free.at = "free" /\ "invalidated" \in Stages
            /\ \A l \in Lease : lease[l] \in LeaseSet
        BY <1>0 DEF Free, LeaseSet, Stages, Modes, LTypeOK
      <3>2. \A l \in Lease : /\ [lease[l] EXCEPT !.at = "invalidated"] \in LeaseSet
                             /\ [lease[l] EXCEPT !.at = "invalidated"].at = "invalidated"
        BY <3>1, StageFacts
      <3>3. /\ lease' = [l \in Lease |-> CASE lease[l].at = "active" -> Free
                                          [] lease[l].at = "releasing" -> [lease[l] EXCEPT !.at = "invalidated"]
                                          [] OTHER -> lease[l]]
            /\ count' = 0 /\ exclusive' = {} /\ strayed' = FALSE
        BY <1>0, <2>2 DEF Invalidated
      <3>4. \A l \in Lease : /\ lease[l].at = "active" => lease'[l] = Free
                             /\ lease[l].at = "releasing" => lease'[l] = [lease[l] EXCEPT !.at = "invalidated"]
                             /\ lease[l].at \notin {"active", "releasing"} => lease'[l] = lease[l]
        BY <3>3
      <3>5. \A l \in Lease : lease'[l] \in LeaseSet
        BY <3>1, <3>2, <3>4
      <3>6. lease' \in [Lease -> LeaseSet]
        BY <3>3, <3>5
      <3>7. QED
        BY <2>2, <3>1, <3>2, <3>3, <3>4, <3>6
    <2>3. QED
      BY <2>1, <2>2
  <1>3. LTypeOK'
    <2>1. count' \in Nat /\ exclusive' \subseteq Lease /\ strayed' \in BOOLEAN
      <3>1. CASE count = 0
        BY <1>0, <1>2, <3>1 DEF LTypeOK
      <3>2. CASE count # 0
        <4>1. count' = 0 /\ exclusive' = {} /\ strayed' = FALSE
          BY <1>2, <3>2
        <4>2. QED
          BY <4>1
      <3>3. QED
        BY <3>1, <3>2
    <2>2. <<>> \in Seq(Promise) /\ <<>> \in Seq(Frame)
      BY EmptySeq
    <2>3. QED
      BY <1>0, <1>1, <1>2, <2>1, <2>2 DEF LTypeOK
  <1>4. /\ \A l \in Lease : Open(Detach(l))' <=> Open(Detach(l))
        /\ Open(Shared("attach"))' <=> Open(Shared("attach"))
        /\ Open(Shared("reconcile"))' <=> Open(Shared("reconcile"))
        /\ Open(Shared("create"))' <=> Open(Shared("create"))
    BY <1>1, PromiseFacts
  <1>5. Awaited'
    <2>1. \A l \in Lease : lease'[l].at = "waiting"
            => \E e \in Lease : lease'[l].on = {e} /\ Open(Detach(e))'
      BY <1>0, <1>2, <1>4 DEF Awaited
    <2>2. \A l \in Lease : lease'[l].at = "attaching" => Open(Shared("attach"))'
      BY <1>0, <1>2, <1>4 DEF Awaited
    <2>3. \A l \in Lease : lease'[l].at = "reconciling" => Open(Shared("reconcile"))'
      BY <1>0, <1>2, <1>4 DEF Awaited
    <2>4. \A l \in Lease : lease'[l].at = "creating" => Open(Shared("create"))'
      BY <1>0, <1>2, <1>4 DEF Awaited
    <2>5. \A l \in Lease : lease'[l].at \in {"releasing", "invalidated"} <=> Open(Detach(l))'
      BY <1>0, <1>2, <1>4 DEF Awaited
    <2>6. detachment' = {} \/ \E e \in Lease : detachment' = {e} /\ Open(Detach(e))'
      BY <1>0, <1>4 DEF Awaited
    <2>7. QED
      BY <2>1, <2>2, <2>3, <2>4, <2>5, <2>6 DEF Awaited
  <1>6. Cut'
    BY <1>0 DEF Cut
  <1>7. KnownInv'
    <2>1. ~known' => /\ count' = 0 /\ exclusive' = {} /\ ~cleanup' /\ detachment' = {}
                     /\ \A l \in Lease : lease'[l].at \in {"free", "creating"}
                     /\ \A q \in Promise : Open(q)' => q = Shared("create")
      BY <1>0, <1>1, <1>2 DEF KnownInv
    <2>2. \A l \in Lease : lease'[l].at = "creating" => lease'[l] = lease[l]
      BY <1>2
    <2>3. known' => ~Open(Shared("create"))'
      BY <1>0, <1>4 DEF KnownInv
    <2>4. \A l \in Lease : lease'[l].at = "creating" => lease'[l].mode = "exclusive"
      BY <1>0, <2>2 DEF KnownInv
    <2>5. \A l, k \in Lease : lease'[l].at = "creating" /\ lease'[k].at = "creating" => l = k
      BY <1>0, <2>2 DEF KnownInv
    <2>6. Open(Shared("create"))' => \E l \in Lease : lease'[l].at = "creating"
      BY <1>0, <1>2, <1>4 DEF KnownInv
    <2>7. QED
      BY <2>1, <2>3, <2>4, <2>5, <2>6 DEF KnownInv
  <1>8. UpInv'
    BY <1>0 DEF UpInv
  <1>9. DownInv'
    <2>1. SUFFICES ASSUME ~strayed' PROVE ~cleanup' /\ Failing'
      BY DEF DownInv
    <2>2. Hold' \in SUBSET Lease /\ Cardinality(Hold') \in Nat
      <3>1. Hold' \in SUBSET Lease
        BY DEF Hold
      <3>2. QED
        BY <3>1, LeaseSets
    <2>3. CASE count = 0
      <3>1. Accounted /\ Hold \in SUBSET Lease
        BY <1>0, <1>2, <2>1, <2>3 DEF UpInv, Hold
      <3>2. Hold = {}
        BY <2>3, <3>1, LeaseSets DEF Accounted
      <3>3. Hold' = {} /\ count' = 0 /\ exclusive' = {}
        BY <1>2, <2>3, <3>1, <3>2 DEF Hold, Holds, Accounted
      <3>4. QED
        BY <1>0, <2>2, <3>3 DEF Failing
    <2>4. CASE count # 0
      <3>1. \A l \in Hold' : lease'[l].at \in {"waiting", "reconciling", "attaching"}
        BY <1>2, <2>4 DEF Hold, Holds
      <3>2. QED
        BY <1>0, <1>2, <2>2, <2>4, <3>1 DEF Failing
    <2>5. QED
      BY <2>3, <2>4
  <1>10. QED
    BY <1>1, <1>3, <1>5, <1>6, <1>7, <1>8, <1>9 DEF LInv

LEMMA ReconnectStep ==
  ASSUME LInv, Reconnect
  PROVE  LInv'
  <1>0. /\ LTypeOK /\ Unique /\ Awaited /\ Cut /\ KnownInv /\ UpInv /\ DownInv
        /\ due = <<>> /\ ~up /\ up' = TRUE
        /\ known' = known /\ lease' = lease /\ count' = count /\ exclusive' = exclusive
        /\ cleanup' = cleanup /\ attached' = attached /\ detachment' = detachment
        /\ pending' = pending /\ sent' = sent /\ due' = due /\ inbox' = inbox
        /\ served' = served /\ strayed' = strayed /\ late' = late
    BY DEF LInv, Reconnect, Idle, requests, history
  <1>1. LTypeOK'
    BY <1>0 DEF LTypeOK
  <1>2. Unique' /\ \A q \in Promise : Open(q)' <=> Open(q)
    BY <1>0 DEF Unique, UniqueWith, Distinct, Open, OpenWith, Pending, Due
  <1>3. Cut'
    BY <1>0 DEF Cut
  <1>4. /\ \A l \in Lease : Open(Detach(l))' <=> Open(Detach(l))
        /\ Open(Shared("attach"))' <=> Open(Shared("attach"))
        /\ Open(Shared("reconcile"))' <=> Open(Shared("reconcile"))
        /\ Open(Shared("create"))' <=> Open(Shared("create"))
    BY <1>2, PromiseFacts
  <1>5. Awaited'
    BY <1>0, <1>4 DEF Awaited
  <1>6. KnownInv'
    BY <1>0, <1>2, <1>4 DEF KnownInv
  <1>7. \A q \in Promise : ~Open(q) /\ ~Open(q)'
    <2>1. pending = <<>>
      BY <1>0 DEF Cut
    <2>2. \A q \in Promise : ~Open(q)
      BY <1>0, <2>1 DEF Open, OpenWith, Pending, Due
    <2>3. QED
      BY <1>2, <2>2
  <1>8. \A l \in Lease : lease[l].at \in {"free", "active"}
    <2>1. /\ ~Open(Shared("attach")) /\ ~Open(Shared("reconcile")) /\ ~Open(Shared("create"))
          /\ \A l \in Lease : ~Open(Detach(l))
      BY <1>7, PromiseFacts
    <2>2. \A l \in Lease : lease[l].at \notin {"waiting", "attaching", "reconciling", "creating", "releasing", "invalidated"}
      BY <1>0, <2>1 DEF Awaited
    <2>3. \A l \in Lease : lease[l].at \in Stages
      BY <1>0 DEF LTypeOK, LeaseSet
    <2>4. QED
      BY <2>2, <2>3 DEF Stages
  <1>9. UpInv'
    <2>1. SUFFICES ASSUME ~strayed PROVE Accounted' /\ Ordered'
      BY <1>0 DEF UpInv
    <2>2. ~cleanup /\ (Failing \/ Created)
      BY <1>0, <2>1 DEF DownInv
    <2>3. Hold' = Hold /\ Hold \in SUBSET Lease /\ count \in Nat
      BY <1>0 DEF Hold, Holds, LTypeOK
    <2>4. Accounted'
      <3>1. CASE Failing
        <4>1. Hold = {}
          BY <1>8, <2>3, <3>1 DEF Failing
        <4>2. count = 0 /\ exclusive = {} /\ Cardinality(Hold') = 0
          BY <2>3, <3>1, <4>1, LeaseSets DEF Failing
        <4>3. QED
          BY <1>0, <2>3, <4>1, <4>2 DEF Accounted
      <3>2. CASE Created
        <4>1. PICK l \in Lease : Hold = {l} /\ exclusive = {l} /\ lease[l].mode = "exclusive" /\ count = 1
          BY <3>2 DEF Created
        <4>2. Cardinality(Hold') = 1
          BY <2>3, <4>1, LeaseSets
        <4>3. QED
          BY <1>0, <2>3, <4>1, <4>2 DEF Accounted
      <3>3. QED
        BY <2>2, <3>1, <3>2
    <2>5. Ordered'
      BY <1>0, <1>7, <1>8, <2>2, PromiseFacts DEF Ordered
    <2>6. QED
      BY <2>4, <2>5
  <1>10. DownInv'
    BY <1>0 DEF DownInv
  <1>11. QED
    BY <1>1, <1>2, <1>3, <1>5, <1>6, <1>9, <1>10 DEF LInv

\* An answer is a frame.
LEMMA ReplyFacts ==
  ASSUME LTypeOK, NEW p \in Promise \cup {Shared("event")}, NEW ok \in BOOLEAN,
         p = Shared("event") => ok = TRUE, Reply(p, ok)
  PROVE  /\ inbox' \in Seq(Frame) /\ Settled(p, ok) \in Frame
         /\ inbox' = Append(inbox, Settled(p, ok))
  <1>1. Settled(p, ok) \in Frame
    <2>1. CASE p \in Promise
      BY <2>1, AnswerFacts DEF Frame
    <2>2. CASE p = Shared("event")
      BY <2>2 DEF Frame
    <2>3. QED
      BY <2>1, <2>2
  <1>2. inbox' = Append(inbox, Settled(p, ok)) /\ inbox \in Seq(Frame)
    BY DEF Reply, LTypeOK
  <1>3. QED
    BY <1>1, <1>2, AppendFacts

LEMMA ServerStep ==
  ASSUME LInv, Serve \/ Event
  PROVE  LInv'
  <1>0. /\ LTypeOK /\ Unique /\ Awaited /\ Cut /\ KnownInv /\ UpInv /\ DownInv
        /\ known' = known /\ up' = up /\ lease' = lease /\ count' = count
        /\ exclusive' = exclusive /\ cleanup' = cleanup /\ attached' = attached
        /\ detachment' = detachment /\ pending' = pending /\ due' = due
        /\ strayed' = strayed
    BY DEF LInv, Serve, Event, history, requests
  <1>1. Unique' /\ \A q \in Promise : Open(q)' <=> Open(q)
    BY <1>0 DEF Unique, UniqueWith, Distinct, Open, OpenWith, Pending, Due
  <1>2. up
    BY <1>0 DEF Cut, Serve, Event, LTypeOK
  <1>3. LTypeOK'
    <2>1. CASE Serve
      <3>1. /\ sent # <<>> /\ sent' = Tail(sent)
        BY <2>1 DEF Serve
      <3>2. sent' \in Seq(Promise) /\ Head(sent) \in Promise
        BY <1>0, <3>1, TailFacts DEF LTypeOK
      <3>3. \E ok \in BOOLEAN : Reply(Head(sent), ok)
        BY <2>1 DEF Serve
      <3>4. inbox' \in Seq(Frame)
        <4>1. Head(sent) # Shared("event")
          BY <3>2 DEF Promise, Shared, Detach
        <4>2. QED
          BY <1>0, <3>2, <3>3, <4>1, ReplyFacts
      <3>5. served' \in BOOLEAN /\ late' \in BOOLEAN
        <4>1. served \in BOOLEAN /\ late \in BOOLEAN
          BY <1>0 DEF LTypeOK
        <4>2. \/ served' = TRUE /\ late' = FALSE
              \/ served' \in {served, TRUE} /\ late' = served'
              \/ served' = FALSE /\ late' = FALSE
              \/ served' \in {FALSE, served} /\ late' = (late /\ served')
          BY <2>1 DEF Serve
        <4>3. served' \in BOOLEAN
          BY <4>1, <4>2
        <4>4. late' = FALSE \/ late' = served' \/ late' = (late /\ served')
          BY <4>2
        <4>5. (late /\ served') \in BOOLEAN
          OBVIOUS
        <4>6. QED
          BY <4>3, <4>4, <4>5
      <3>6. QED
        BY <1>0, <3>2, <3>4, <3>5 DEF LTypeOK
    <2>2. CASE Event
      <3>1. Reply(Shared("event"), TRUE) /\ sent' = sent /\ served' = served /\ late' = late
        BY <2>2 DEF Event, history, requests
      <3>2. inbox' \in Seq(Frame)
        BY <1>0, <3>1, ReplyFacts
      <3>3. QED
        BY <1>0, <3>1, <3>2 DEF LTypeOK
    <2>3. QED
      BY <2>1, <2>2
  <1>4. Cut'
    BY <1>0, <1>2 DEF Cut
  <1>5. QED
    BY <1>0, <1>1, <1>2, <1>3, <1>4, KeptStep

-----------------------------------------------------------------------------
(***************************************************************************)
(* The theorems                                                            *)
(***************************************************************************)

LEMMA LInit ==
  Init => LInv
  <1> SUFFICES ASSUME Init PROVE LInv
    OBVIOUS
  <1>1. Free \in LeaseSet /\ Free.at = "free"
    BY DEF Free, LeaseSet, Stages, Modes
  <1>2. \A l \in Lease : lease[l].at = "free"
    BY <1>1 DEF Init
  <1>3. LTypeOK
    <2>1. <<>> \in Seq(Promise) /\ <<>> \in Seq(Frame) /\ <<>> \in Seq(Answer)
      BY EmptySeq
    <2>2. lease \in [Lease -> LeaseSet]
      BY <1>1 DEF Init
    <2>3. {} \subseteq Lease
      OBVIOUS
    <2>4. QED
      BY <2>1, <2>2, <2>3 DEF Init, LTypeOK
  <1>4. Unique /\ \A q \in Promise : ~Open(q)
    BY DEF Init, Unique, UniqueWith, Distinct, Open, OpenWith, Pending, Due
  <1>5. Hold = {}
    BY <1>2 DEF Hold, Holds
  <1>6. Awaited
    <2>1. \A l \in Lease : ~Open(Detach(l))
      BY <1>4, PromiseFacts
    <2>2. QED
      BY <1>2, <2>1 DEF Init, Awaited
  <1>7. KnownInv
    BY <1>2, <1>4, PromiseFacts DEF Init, KnownInv
  <1>8. UpInv
    BY <1>2, <1>4, <1>5, LeaseSets, PromiseFacts DEF Init, UpInv, Accounted, Ordered
  <1>9. Cut /\ DownInv
    BY DEF Init, Cut, DownInv
  <1>10. QED
    BY <1>3, <1>4, <1>6, <1>7, <1>8, <1>9 DEF LInv

LEMMA LNext ==
  ASSUME LInv, [Next]_vars
  PROVE  LInv'
  <1>1. ASSUME NEW l \in Lease, NEW mode \in Modes, Acquire(l, mode) PROVE LInv'
    BY <1>1, AcquireStep
  <1>2. ASSUME NEW l \in Lease, Create(l) PROVE LInv'
    BY <1>2, CreateStep
  <1>3. ASSUME NEW l \in Lease, NEW relinquish \in BOOLEAN, Release(l, relinquish) PROVE LInv'
    BY <1>3, PartStep, FinalStep
  <1>4. CASE Resume
    BY <1>4, ResumeStep
  <1>5. CASE Receive
    BY <1>5, ReceiveStep
  <1>6. CASE Drop
    BY <1>6, DropStep
  <1>7. CASE Reconnect
    BY <1>7, ReconnectStep
  <1>8. CASE Serve \/ Event
    BY <1>8, ServerStep
  <1>9. CASE UNCHANGED vars
    <2>1. /\ known' = known /\ up' = up /\ lease' = lease /\ count' = count
          /\ exclusive' = exclusive /\ cleanup' = cleanup /\ attached' = attached
          /\ detachment' = detachment /\ pending' = pending /\ sent' = sent /\ due' = due
          /\ inbox' = inbox /\ served' = served /\ strayed' = strayed /\ late' = late
      BY <1>9 DEF vars, requests, history
    <2>2. LTypeOK' /\ Cut'
      BY <2>1 DEF LInv, LTypeOK, Cut
    <2>3. Unique' /\ \A q \in Promise : Open(q)' <=> Open(q)
      BY <2>1 DEF LInv, Unique, UniqueWith, Distinct, Open, OpenWith, Pending, Due
    <2>4. QED
      BY <2>1, <2>2, <2>3, KeptStep
  <1>10. QED
    BY <1>1, <1>2, <1>3, <1>4, <1>5, <1>6, <1>7, <1>8, <1>9 DEF Next

\* The inductive invariant of the client: every promise that somebody awaits is under
\* way once, and the books are in order while the client is connected (UpInv), or will
\* be once what a disconnection left has failed (DownInv).
THEOREM Invariant == Spec => []LInv
  BY LInit, LNext, PTL DEF Spec

\* When the continuations of a disconnection have run, no acquisition is left.
LEMMA Settling ==
  ASSUME LInv, ~up, due = <<>>
  PROVE  \A l \in Lease : lease[l].at \in {"free", "active"}
  <1>0. LTypeOK /\ Awaited /\ Cut
    BY DEF LInv
  <1>1. pending = <<>>
    BY <1>0 DEF Cut
  <1>2. \A q \in Promise : ~Open(q)
    BY <1>1 DEF Open, OpenWith, Pending, Due
  <1>3. /\ ~Open(Shared("attach")) /\ ~Open(Shared("reconcile")) /\ ~Open(Shared("create"))
        /\ \A l \in Lease : ~Open(Detach(l))
    BY <1>2, PromiseFacts
  <1>4. \A l \in Lease : lease[l].at \notin {"waiting", "attaching", "reconciling", "creating", "releasing", "invalidated"}
    BY <1>0, <1>3 DEF Awaited
  <1>5. \A l \in Lease : lease[l].at \in Stages
    BY <1>0 DEF LTypeOK, LeaseSet
  <1>6. QED
    BY <1>4, <1>5 DEF Stages

\* CountIsLeases: count = |Holds| whenever InOrder.
THEOREM Counts == Spec => []CountIsLeases
  <1>1. ASSUME LInv, InOrder PROVE count = Cardinality({l \in Lease : Holds(l)})
    <2>1. LTypeOK /\ Unique /\ Awaited /\ Cut /\ UpInv /\ DownInv /\ ~strayed
      BY <1>1 DEF LInv, InOrder
    <2>2. Hold = {l \in Lease : Holds(l)} /\ Hold \in SUBSET Lease /\ count \in Nat
      BY <2>1 DEF Hold, LTypeOK
    <2>3. CASE up
      BY <2>1, <2>2, <2>3 DEF UpInv, Accounted
    <2>4. CASE ~up
      <3>1. Failing \/ Created
        BY <2>1, <2>4 DEF DownInv
      <3>2. ASSUME Failing PROVE Hold = {}
        BY <1>1, <2>1, <2>2, <2>4, <3>2, Settling DEF InOrder, Idle, Failing
      <3>3. CASE Failing
        BY <2>2, <3>2, <3>3, LeaseSets DEF Failing
      <3>4. CASE Created
        <4>1. PICK l \in Lease : Hold = {l} /\ count = 1
          BY <3>4 DEF Created
        <4>2. QED
          BY <2>2, <4>1, LeaseSets
      <3>5. QED
        BY <3>1, <3>3, <3>4
    <2>5. QED
      BY <2>3, <2>4
  <1>2. LInv => CountIsLeases
    BY <1>1 DEF CountIsLeases
  <1>3. QED
    BY <1>2, Invariant, PTL

\* ExclusiveIsAlone: an exclusive lease is the only one whenever InOrder.
THEOREM Exclusive == Spec => []ExclusiveIsAlone
  <1>1. ASSUME LInv, InOrder, NEW l \in Lease, NEW k \in Lease, Holds(l), Holds(k),
               lease[l].mode = "exclusive"
        PROVE  l = k
    <2>1. LTypeOK /\ Unique /\ Awaited /\ Cut /\ UpInv /\ DownInv /\ ~strayed
      BY <1>1 DEF LInv, InOrder
    <2>2. l \in Hold /\ k \in Hold
      BY <1>1 DEF Hold
    <2>3. CASE up
      BY <1>1, <2>1, <2>2, <2>3 DEF UpInv, Accounted
    <2>4. CASE ~up
      <3>1. Failing \/ Created
        BY <2>1, <2>4 DEF DownInv
      <3>2. ~Failing
        BY <1>1, <2>1, <2>2, <2>4, Settling DEF InOrder, Idle, Failing
      <3>3. QED
        BY <2>2, <3>1, <3>2 DEF Created
    <2>5. QED
      BY <2>3, <2>4
  <1>2. LInv => ExclusiveIsAlone
    BY <1>1 DEF ExclusiveIsAlone
  <1>3. QED
    BY <1>2, Invariant, PTL

\* NotDetachedUnder: while the books are in order, the answer to a detach request or a
\* cleanup finds no lease in use.
THEOREM NotDetached == Spec => NotDetachedUnder
  <1>1. ASSUME LInv, [Next]_vars, NEW l \in Lease, ~strayed, Usable(l), lease'[l].at = "active"
        PROVE  attached' \/ ~up'
    <2>1. /\ LTypeOK /\ Awaited /\ KnownInv /\ Accounted /\ Ordered
          /\ lease[l].at = "active" /\ attached /\ up
      BY <1>1 DEF LInv, UpInv, Usable
    <2>2. CASE Receive
      <3>1. CASE Head(inbox).of = "event"
        <4>1. \A k \in 1..Len(pending) : pending[k].of # "event"
          <5>1. \A p \in Promise : p.of # "event"
            BY PromiseFacts
          <5>2. \A k \in 1..Len(pending) : pending[k] \in Promise
            BY <2>1, ElementOfSeq DEF LTypeOK
          <5>3. QED
            BY <5>1, <5>2
        <4>2. QED
          BY <2>2, <3>1, <4>1 DEF Receive
      <3>2. CASE Head(inbox).of # "event"
        <4>1. PICK k \in 1..Len(pending) :
                /\ pending[k].of = Head(inbox).of
                /\ attached' = IF Head(inbox).ok THEN Head(inbox).of \in {"attach", "create"} ELSE attached
          BY <2>2, <3>2 DEF Receive
        <4>2. PICK p \in Promise : p = pending[k]
          BY <2>1, ElementOfSeq DEF LTypeOK
        <4>3. Open(p)
          BY <4>2 DEF Open, OpenWith, Pending
        <4>4. l \in Hold
          BY <2>1 DEF Hold, Holds
        <4>5. p # Shared("reconcile")
          <5>1. Open(Shared("reconcile")) => cleanup
            BY <2>1 DEF Ordered
          <5>2. cleanup => lease[l].at = "reconciling"
            BY <2>1, <4>4 DEF Ordered
          <5>3. QED
            BY <2>1, <4>3, <5>1, <5>2
        <4>6. \A d \in Lease : p # Detach(d)
          <5>1. \A d \in Lease : Open(Detach(d)) => lease[d].at = "releasing"
            BY <2>1 DEF Awaited, Ordered
          <5>2. \A d \in Lease : lease[d].at # "releasing"
            BY <2>1, <4>4 DEF Ordered
          <5>3. QED
            BY <4>3, <5>1, <5>2
        <4>7. p.of \in {"attach", "create"}
          BY <4>5, <4>6, PromiseFacts
        <4>8. QED
          BY <2>1, <4>1, <4>2, <4>7
      <3>3. QED
        BY <3>1, <3>2
    <2>3. CASE Drop
      BY <2>3 DEF Drop
    <2>4. CASE ~Receive /\ ~Drop
      BY <1>1, <2>1, <2>4
        DEF Next, vars, Acquire, Create, Release, Resume, Reconnect, Serve, Event, requests
    <2>5. QED
      BY <2>2, <2>3, <2>4
  <1>2. LInv /\ [Next]_vars
          => [\A l \in Lease : ~strayed /\ Usable(l) /\ lease'[l].at = "active" => attached' \/ ~up']_vars
    BY <1>1
  <1>3. QED
    BY <1>2, Invariant, PTL DEF Spec, NotDetachedUnder

-----------------------------------------------------------------------------
(***************************************************************************)
(* Nothing is leaked                                                       *)
(***************************************************************************)

Response(m) == m.of # "event"

\* While the books are in order a request that was sent is awaited, and answered once.
Wire ==
  /\ \A i \in 1..Len(sent) : Pending(sent[i])
  /\ \A i, j \in 1..Len(sent) : i = j
  /\ \A i \in 1..Len(inbox) : Response(inbox[i])
       => sent = <<>> /\ \E p \in Promise : Pending(p) /\ p.of = inbox[i].of /\ p.by = inbox[i].by
  /\ \A i, j \in 1..Len(inbox) : Response(inbox[i]) /\ Response(inbox[j]) => i = j

\* The answers after which the server has nothing attached that anybody answers for.
Empties(m) ==
  IF m.ok THEN m.of \in {"detach", "reconcile"} ELSE m.of \in {"attach", "create"}

Someone == Hold # {} \/ cleanup \/ \E l \in Lease : lease[l].at = "creating"

\* What the server has attached somebody answers for, but for what it attached under
\* an error.
Answered ==
  /\ served /\ ~late => Someone
  /\ \A i \in 1..Len(inbox) : Empties(inbox[i]) => ~served \/ late
  /\ \A i \in 1..Len(due) : Empties(due[i]) => ~served \/ late

ServedInv == up /\ ~strayed => Wire /\ Answered

\* A step of the client asks for nothing, or for one more promise, and settles nothing.
Asks ==
  /\ (pending' = pending /\ sent' = sent)
       \/ \E p \in Promise : pending' = Append(pending, p) /\ sent' = Append(sent, p)
  /\ due' = due \/ (due # <<>> /\ due' = Tail(due))

LEMMA RequestAsks ==
  ASSUME up, NEW p \in Promise, NEW left, Request(p, left),
         left = due \/ (due # <<>> /\ left = Tail(due))
  PROVE  Asks
  BY DEF Request, Asks

LEMMA ProceedAsks ==
  ASSUME up, NEW ls, NEW now, NEW left, Proceed(ls, now, left),
         left = due \/ (due # <<>> /\ left = Tail(due))
  PROVE  Asks
  <1>1. CASE cleanup'
    <2>1. Request(Shared("reconcile"), left)
      BY <1>1 DEF Proceed
    <2>2. QED
      BY <2>1, RequestAsks, PromiseFacts
  <1>2. CASE ~cleanup' /\ attached
    BY <1>2 DEF Proceed, Asks
  <1>3. CASE ~cleanup' /\ ~attached
    <2>1. Request(Shared("attach"), left)
      BY <1>3 DEF Proceed
    <2>2. QED
      BY <2>1, RequestAsks, PromiseFacts
  <1>4. QED
    BY <1>1, <1>2, <1>3

\* What the client asks for joins an empty wire.
LEMMA AsksWire ==
  ASSUME LInv, LInv', up, up' = up, ~strayed, ~strayed', inbox' = inbox, Wire, Asks
  PROVE  Wire'
  <1>1. CASE pending' = pending /\ sent' = sent
    BY <1>1 DEF Wire, Pending
  <1>2. CASE \E p \in Promise : pending' = Append(pending, p) /\ sent' = Append(sent, p)
    <2>0. /\ pending \in Seq(Promise) /\ sent \in Seq(Promise) /\ Unique'
          /\ \A q, r \in Promise : Open(q)' /\ Open(r)' => q = r
      BY DEF LInv, LTypeOK, UpInv, Ordered
    <2>1. PICK p \in Promise : pending' = Append(pending, p) /\ sent' = Append(sent, p)
      BY <1>2
    <2>2. /\ \A i \in 1..Len(pending) : i \in 1..Len(pending') /\ pending'[i] = pending[i]
          /\ Len(pending) + 1 \in 1..Len(pending') /\ pending'[Len(pending) + 1] = p
          /\ Len(pending) \in Nat
      BY <2>0, <2>1, AppendFacts
    <2>3. \A i \in 1..Len(pending') : pending'[i] \in Promise
      BY <2>0, <2>1, AppendFacts, ElementOfSeq
    <2>4. \A i, j \in 1..Len(pending') : pending'[i] = pending'[j]
      <3>1. \A i \in 1..Len(pending'), q \in Promise : q = pending'[i] => Open(q)'
        BY DEF Open, OpenWith, Pending
      <3>2. SUFFICES ASSUME NEW i \in 1..Len(pending'), NEW j \in 1..Len(pending')
                     PROVE  pending'[i] = pending'[j]
        OBVIOUS
      <3>3. PICK q \in Promise, r \in Promise : q = pending'[i] /\ r = pending'[j]
        BY <2>3, <3>2
      <3>4. QED
        BY <2>0, <3>1, <3>3
    <2>5. \A i, j \in 1..Len(pending') : i = j
      BY <2>0, <2>4 DEF Unique, UniqueWith
    <2>6. \A i \in 1..Len(pending) : FALSE
      BY <2>2, <2>5
    <2>7. \A q : ~Pending(q)
      BY <2>6 DEF Pending
    <2>8. \A i \in 1..Len(sent) : FALSE
      BY <2>7 DEF Wire
    <2>9. Len(sent) = 0
      <3>1. Len(sent) \in Nat
        BY <2>0, LenProperties
      <3>2. QED
        BY <2>8, <3>1
    <2>10. /\ \A i \in 1..Len(sent') : i = 1 /\ sent'[i] = p
      BY <2>0, <2>1, <2>9, AppendFacts
    <2>11. \A i \in 1..Len(sent') : Pending(sent[i])'
      BY <2>2, <2>10 DEF Pending
    <2>12. \A i \in 1..Len(inbox) : ~Response(inbox[i])
      BY <2>7 DEF Wire
    <2>13. QED
      BY <2>10, <2>11, <2>12 DEF Wire, Response
  <1>3. QED
    BY <1>1, <1>2 DEF Asks

\* Settled promises that are left were settled before.
LEMMA AsksDue ==
  ASSUME LTypeOK, Asks, \A i \in 1..Len(due) : Empties(due[i]) => ~served \/ late,
         served' = served, late' = late
  PROVE  \A i \in 1..Len(due') : Empties(due[i])' => ~served' \/ late'
  <1>1. CASE due' = due
    BY <1>1 DEF Empties
  <1>2. CASE due # <<>> /\ due' = Tail(due)
    <2>1. \A i \in 1..Len(due') : i + 1 \in 1..Len(due) /\ due'[i] = due[i + 1]
      BY <1>2, TailFacts DEF LTypeOK
    <2>2. QED
      BY <2>1 DEF Empties
  <1>3. QED
    BY <1>1, <1>2 DEF Asks

\* A step of the client after which somebody still answers for the attachment.
LEMMA ClientServed ==
  ASSUME LInv, LInv', ServedInv, up' = up, inbox' = inbox, served' = served, late' = late,
         up => strayed' = strayed,
         up /\ ~strayed /\ Wire /\ Answered => Asks /\ (served /\ ~late => Someone')
  PROVE  ServedInv'
  <1>1. SUFFICES ASSUME up, ~strayed PROVE Wire' /\ Answered'
    BY DEF ServedInv
  <1>2. Wire /\ Answered
    BY <1>1 DEF ServedInv
  <1>3. Asks /\ (served /\ ~late => Someone')
    BY <1>1, <1>2
  <1>4. Wire'
    BY <1>1, <1>2, <1>3, AsksWire
  <1>5. \A i \in 1..Len(due') : Empties(due[i])' => ~served' \/ late'
    <2>1. LTypeOK
      BY DEF LInv
    <2>2. QED
      BY <1>2, <1>3, <2>1, AsksDue DEF Answered
  <1>6. \A i \in 1..Len(inbox') : Empties(inbox[i])' => ~served' \/ late'
    BY <1>2 DEF Answered, Empties
  <1>7. QED
    BY <1>3, <1>4, <1>5, <1>6 DEF Answered

LEMMA AcquireServed ==
  ASSUME LInv, LInv', ServedInv, NEW l \in Lease, NEW mode \in Modes, Acquire(l, mode)
  PROVE  ServedInv'
  <1>0. LTypeOK /\ Unique
    BY DEF LInv
  <1>1. lease'[l].at \in {"waiting", "reconciling", "attaching", "active"}
    BY <1>0, AcquireFacts
  <1>2. Someone'
    BY <1>1 DEF Someone, Hold, Holds
  <1>3. ASSUME up PROVE Asks
    <2>1. CASE detachment # {}
      BY <2>1 DEF Acquire, Detachment, Asks, requests
    <2>2. CASE detachment = {}
      <3>1. \E now : Proceed({l}, now, due)
        BY <2>2 DEF Acquire, Detachment
      <3>2. QED
        BY <1>3, <3>1, ProceedAsks
    <2>3. QED
      BY <2>1, <2>2
  <1>4. up' = up /\ inbox' = inbox /\ served' = served /\ late' = late /\ strayed' = strayed
    BY DEF Acquire, history
  <1>5. QED
    BY <1>2, <1>3, <1>4, ClientServed

LEMMA CreateServed ==
  ASSUME LInv, LInv', ServedInv, NEW l \in Lease, Create(l)
  PROVE  ServedInv'
  <1>1. Someone'
    <2>1. lease'[l].at = "creating"
      BY DEF Create, LInv, LTypeOK, Free
    <2>2. QED
      BY <2>1 DEF Someone
  <1>2. up => Asks
    BY RequestAsks, PromiseFacts DEF Create
  <1>3. up' = up /\ inbox' = inbox /\ served' = served /\ late' = late /\ strayed' = strayed
    BY DEF Create, history
  <1>4. QED
    BY <1>1, <1>2, <1>3, ClientServed

LEMMA ReleaseServed ==
  ASSUME LInv, LInv', ServedInv, NEW l \in Lease, NEW relinquish \in BOOLEAN, Release(l, relinquish)
  PROVE  ServedInv'
  <1>0. LTypeOK /\ up
    BY DEF LInv, Release, Usable
  <1>1. up' = up /\ inbox' = inbox /\ served' = served /\ late' = late /\ strayed' = strayed
    BY DEF Release, history
  <1>2. Asks
    <2>1. CASE Final
      BY <1>0, <2>1, RequestAsks, PromiseFacts DEF Release
    <2>2. CASE ~Final
      BY <2>2 DEF Release, Asks, requests
    <2>3. QED
      BY <2>1, <2>2
  <1>3. ASSUME ~strayed PROVE Someone'
    <2>1. CASE Final
      <3>1. lease' = [lease EXCEPT ![l].at = "releasing", ![l].relinquish = relinquish]
        BY <2>1 DEF Release
      <3>2. lease \in [Lease -> LeaseSet] /\ lease[l] \in LeaseSet
        BY <1>0 DEF LTypeOK
      <3>3. lease'[l].at = "releasing"
        BY <3>1, <3>2 DEF LeaseSet
      <3>4. QED
        BY <3>3 DEF Someone, Hold, Holds
    <2>2. CASE ~Final
      <3>1. count' # 0
        <4>1. Cardinality({l}) = 1
          BY LeaseSets
        <4>2. QED
          BY <1>0, <2>2, <4>1 DEF Release, Released, Final, LTypeOK
      <3>2. count' = Cardinality(Hold')
        BY <1>0, <1>1, <1>3 DEF LInv, UpInv, Accounted
      <3>3. Hold' # {}
        BY <3>1, <3>2, LeaseSets
      <3>4. QED
        BY <3>3 DEF Someone
    <2>3. QED
      BY <2>1, <2>2
  <1>4. QED
    BY <1>1, <1>2, <1>3, ClientServed

LEMMA ResumeServed ==
  ASSUME LInv, LInv', ServedInv, Resume
  PROVE  ServedInv'
  <1>0. /\ LTypeOK /\ Unique /\ Awaited /\ KnownInv
        /\ due # <<>> /\ up' = up /\ attached' = attached /\ inbox' = inbox
        /\ served' = served /\ late' = late
    BY DEF LInv, Resume
  <1>1. Head(due) \in Answer /\ Head(due).ok \in BOOLEAN /\ 1 \in 1..Len(due) /\ Head(due) = due[1]
    <2>1. due \in Seq(Answer)
      BY <1>0 DEF LTypeOK
    <2>2. QED
      BY <1>0, <2>1, TailFacts, AnswerFacts
  <1>2. PICK ok \in BOOLEAN : ok = Head(due).ok
    BY <1>1
  <1>3. ASSUME up, ~strayed, Answered, served, ~late PROVE Someone /\ ~Empties(Head(due))
    BY <1>1, <1>3 DEF Answered
  <1>4. CASE Head(due).of = "detach" /\ \E d \in Head(due).by : ResumeRelease(d, ok, Tail(due))
    <2>1. PICK d \in Head(due).by : ResumeRelease(d, ok, Tail(due))
      BY <1>4
    <2>2. PICK ws \in SUBSET Lease : ReleaseEffect(d, ok, ws)
      BY <1>0, <1>4, <2>1, ReleaseFacts
    <2>3. up => Asks
      <3>1. \/ due' = Tail(due) /\ pending' = pending /\ sent' = sent
            \/ \E ls, now : Proceed(ls, now, Tail(due))
        BY <2>1 DEF ResumeRelease
      <3>2. QED
        BY <1>0, <3>1, ProceedAsks DEF Asks
    <2>4. ASSUME up, ~strayed, Answered, served, ~late PROVE Someone'
      <3>1. ~ok
        BY <1>2, <1>3, <1>4, <2>4 DEF Empties
      <3>2. d \in Lease /\ lease[d].at = "releasing"
        BY <1>0, <2>2, <2>4 DEF ReleaseEffect, Awaited, LInv, UpInv, Ordered
      <3>3. cleanup' \/ lease'[d].at = "active"
        BY <2>2, <3>1, <3>2 DEF ReleaseEffect, Gone
      <3>4. QED
        BY <3>2, <3>3 DEF Someone, Hold, Holds
    <2>5. strayed' = strayed
      BY <2>2 DEF ReleaseEffect
    <2>6. QED
      BY <1>0, <2>3, <2>4, <2>5, ClientServed
  <1>5. CASE Head(due).of = "reconcile" /\ ResumeReconcile(ok, Tail(due))
    <2>1. up => Asks
      <3>1. \/ due' = Tail(due) /\ pending' = pending /\ sent' = sent
            \/ Request(Shared("attach"), Tail(due))
        BY <1>5 DEF ResumeReconcile
      <3>2. QED
        BY <1>0, <3>1, RequestAsks, PromiseFacts DEF Asks
    <2>2. ASSUME up, ~strayed, Answered, served, ~late PROVE Someone'
      <3>1. ~ok
        BY <1>2, <1>3, <1>5, <2>2 DEF Empties
      <3>2. Open(Shared("reconcile"))
        BY <1>0, <1>5, SharedResumed, PromiseFacts
      <3>3. cleanup
        BY <2>2, <3>2 DEF LInv, UpInv, Ordered
      <3>4. cleanup'
        BY <1>5, <3>1, <3>3 DEF ResumeReconcile
      <3>5. QED
        BY <3>4 DEF Someone
    <2>3. strayed' = strayed
      BY <1>5 DEF ResumeReconcile
    <2>4. QED
      BY <1>0, <2>1, <2>2, <2>3, ClientServed
  <1>6. CASE Head(due).of = "attach" /\ ResumeAttach(ok, Tail(due))
    <2>1. Asks
      BY <1>0, <1>6 DEF ResumeAttach, Asks
    <2>2. ASSUME up, ~strayed, Answered, served, ~late PROVE Someone'
      <3>1. ok
        BY <1>2, <1>3, <1>6, <2>2 DEF Empties
      <3>2. Open(Shared("attach"))
        BY <1>0, <1>6, SharedResumed, PromiseFacts
      <3>3. PICK l \in Lease : lease[l].at = "attaching"
        BY <2>2, <3>2 DEF LInv, UpInv, Ordered
      <3>4. lease' = [k \in Lease |-> IF k \in At("attaching") THEN [lease[k] EXCEPT !.at = "active"] ELSE lease[k]]
        BY <1>6, <3>1 DEF ResumeAttach
      <3>5. lease'[l].at = "active"
        <4>1. l \in At("attaching") /\ lease[l] \in LeaseSet /\ "active" \in Stages
          BY <1>0, <3>3 DEF At, LTypeOK, Stages
        <4>2. lease'[l] = [lease[l] EXCEPT !.at = "active"]
          BY <3>4, <4>1
        <4>3. [lease[l] EXCEPT !.at = "active"].at = "active"
          BY <4>1, StageFacts
        <4>4. QED
          BY <4>2, <4>3
      <3>6. QED
        BY <3>5 DEF Someone, Hold, Holds
    <2>3. up => strayed' = strayed
      <3>1. strayed \in BOOLEAN
        BY <1>0 DEF LTypeOK
      <3>2. ASSUME up PROVE strayed' = strayed
        BY <1>6, <3>1, <3>2 DEF ResumeAttach
      <3>3. QED
        BY <3>2
    <2>4. QED
      BY <1>0, <2>1, <2>2, <2>3, ClientServed
  <1>7. CASE Head(due).of = "create" /\ ResumeCreate(ok, Tail(due))
    <2>1. Asks
      BY <1>0, <1>7 DEF ResumeCreate, Asks
    <2>2. ASSUME up, ~strayed, Answered, served, ~late PROVE Someone'
      <3>1. ok
        BY <1>2, <1>3, <1>7, <2>2 DEF Empties
      <3>2. Open(Shared("create"))
        BY <1>0, <1>7, SharedResumed, PromiseFacts
      <3>3. (\E l \in Lease : lease[l].at = "creating") /\ MayReserve("exclusive")
        BY <1>0, <3>2 DEF KnownInv, LTypeOK, MayReserve
      <3>4. PICK l \in Lease : lease[l].at = "creating"
        BY <3>3
      <3>5. lease' = [k \in Lease |-> IF k \in At("creating") THEN [lease[k] EXCEPT !.at = "active"] ELSE lease[k]]
        BY <1>7, <3>1, <3>3 DEF ResumeCreate
      <3>6. lease'[l].at = "active"
        <4>1. l \in At("creating") /\ lease[l] \in LeaseSet /\ "active" \in Stages
          BY <1>0, <3>4 DEF At, LTypeOK, Stages
        <4>2. lease'[l] = [lease[l] EXCEPT !.at = "active"]
          BY <3>5, <4>1
        <4>3. [lease[l] EXCEPT !.at = "active"].at = "active"
          BY <4>1, StageFacts
        <4>4. QED
          BY <4>2, <4>3
      <3>7. QED
        BY <3>6 DEF Someone, Hold, Holds
    <2>3. strayed' = strayed
      BY <1>7 DEF ResumeCreate
    <2>4. QED
      BY <1>0, <2>1, <2>2, <2>3, ClientServed
  <1>8. QED
    BY <1>2, <1>4, <1>5, <1>6, <1>7 DEF Resume

\* Only one promise is under way: a request that is awaited is the only one.
LEMMA OneRequest ==
  ASSUME LInv, up, ~strayed, NEW k \in 1..Len(pending)
  PROVE  (\A i \in 1..Len(pending) : i = k) /\ due = <<>>
  <1>0. /\ pending \in Seq(Promise) /\ due \in Seq(Answer) /\ Unique /\ Ordered
        /\ pending[k] \in Promise
    BY ElementOfSeq DEF LInv, LTypeOK, UpInv
  <1>1. \A i \in 1..Len(pending), q \in Promise : q = pending[i] => Open(q)
    BY DEF Open, OpenWith, Pending
  <1>2. \A i \in 1..Len(pending) : i = k
    <2>1. SUFFICES ASSUME NEW i \in 1..Len(pending) PROVE i = k
      OBVIOUS
    <2>2. PICK p \in Promise, q \in Promise : p = pending[k] /\ q = pending[i]
      BY <1>0, <2>1, ElementOfSeq
    <2>3. p = q
      BY <1>0, <1>1, <2>2 DEF Ordered
    <2>4. QED
      BY <1>0, <2>2, <2>3 DEF Unique, UniqueWith
  <1>3. due = <<>>
    <2>1. SUFFICES ASSUME due # <<>> PROVE FALSE
      OBVIOUS
    <2>2. 1 \in 1..Len(due) /\ due[1] \in Answer
      BY <1>0, <2>1, TailFacts
    <2>3. PICK q \in Promise : due[1].of = q.of /\ due[1].by = q.by
      BY <2>2, AnswerFacts
    <2>4. Due(q, due)
      BY <2>2, <2>3 DEF Due
    <2>5. PICK p \in Promise : p = pending[k]
      BY <1>0
    <2>6. Open(q) /\ Open(p) /\ Pending(p)
      BY <2>4, <2>5 DEF Open, OpenWith, Pending
    <2>7. p = q
      BY <1>0, <2>6 DEF Ordered
    <2>8. QED
      BY <1>0, <2>4, <2>6, <2>7 DEF Unique, UniqueWith
  <1>4. QED
    BY <1>2, <1>3

LEMMA ReceiveServed ==
  ASSUME LInv, LInv', ServedInv, Receive
  PROVE  ServedInv'
  <1>0. /\ LTypeOK /\ inbox # <<>> /\ inbox' = Tail(inbox)
        /\ up' = up /\ lease' = lease /\ cleanup' = cleanup
        /\ sent' = sent /\ served' = served /\ strayed' = strayed /\ late' = late
    BY DEF LInv, Receive, history
  <1>1. SUFFICES ASSUME up, ~strayed PROVE Wire' /\ Answered'
    BY <1>0 DEF ServedInv
  <1>2. Wire /\ Answered
    BY <1>1 DEF ServedInv
  <1>3. /\ \A i \in 1..Len(inbox') : i + 1 \in 1..Len(inbox) /\ inbox'[i] = inbox[i + 1]
        /\ 1 \in 1..Len(inbox) /\ Head(inbox) = inbox[1] /\ Head(inbox) \in Frame
        /\ Len(inbox) \in Nat
    BY <1>0, TailFacts DEF LTypeOK
  <1>4. Someone' <=> Someone
    BY <1>0 DEF Someone, Hold, Holds
  <1>5. \A i \in 1..Len(inbox') : Empties(inbox[i])' => ~served' \/ late'
    BY <1>0, <1>2, <1>3 DEF Answered, Empties
  <1>6. CASE Head(inbox).of = "event" /\ UNCHANGED <<pending, due>>
    <2>1. \A i, j \in 1..Len(inbox') : Response(inbox[i])' /\ Response(inbox[j])' => i = j
      <3>1. SUFFICES ASSUME NEW i \in 1..Len(inbox'), NEW j \in 1..Len(inbox'),
                            Response(inbox[i])', Response(inbox[j])'
                     PROVE  i = j
        OBVIOUS
      <3>2. /\ i + 1 \in 1..Len(inbox) /\ Response(inbox[i + 1])
            /\ j + 1 \in 1..Len(inbox) /\ Response(inbox[j + 1])
        BY <1>3, <3>1 DEF Response
      <3>3. i + 1 = j + 1
        BY <1>2, <3>2 DEF Wire
      <3>4. i \in Int /\ j \in Int
        OBVIOUS
      <3>5. QED
        BY <3>3, <3>4
    <2>2. \A i \in 1..Len(inbox') : Response(inbox[i])'
            => sent' = <<>> /\ \E p \in Promise : Pending(p)' /\ p.of = inbox'[i].of /\ p.by = inbox'[i].by
      <3>1. SUFFICES ASSUME NEW i \in 1..Len(inbox'), Response(inbox[i])'
                     PROVE  /\ sent' = <<>>
                            /\ \E p \in Promise : Pending(p)' /\ p.of = inbox'[i].of /\ p.by = inbox'[i].by
        OBVIOUS
      <3>2. Response(inbox[i + 1]) /\ i + 1 \in 1..Len(inbox)
        BY <1>3, <3>1 DEF Response
      <3>3. sent = <<>> /\ \E p \in Promise : Pending(p) /\ p.of = inbox[i + 1].of /\ p.by = inbox[i + 1].by
        BY <1>2, <3>2 DEF Wire
      <3>4. QED
        BY <1>0, <1>3, <1>6, <3>3 DEF Pending
    <2>3. Wire'
      BY <1>0, <1>2, <1>6, <2>1, <2>2 DEF Wire, Pending
    <2>4. Answered'
      BY <1>0, <1>2, <1>4, <1>5, <1>6 DEF Answered, Empties
    <2>5. QED
      BY <2>3, <2>4
  <1>7. ASSUME NEW k \in 1..Len(pending),
               pending[k].of = Head(inbox).of, pending' = Taken(k), due' = Append(due, Head(inbox))
        PROVE  Wire' /\ Answered'
    <2>1. (\A i \in 1..Len(pending) : i = k) /\ due = <<>>
      BY <1>1, <1>7, OneRequest
    <2>2. Response(inbox[1])
      <3>1. pending[k] \in Promise
        BY <1>0, ElementOfSeq DEF LTypeOK
      <3>2. QED
        BY <1>3, <1>7, <3>1, PromiseFacts DEF Response
    <2>3. sent = <<>>
      BY <1>2, <1>3, <2>2 DEF Wire
    <2>4. \A i \in 1..Len(inbox') : ~Response(inbox[i])'
      <3>1. SUFFICES ASSUME NEW i \in 1..Len(inbox'), Response(inbox[i])' PROVE FALSE
        OBVIOUS
      <3>2. i + 1 = 1
        BY <1>2, <1>3, <2>2, <3>1 DEF Wire, Response
      <3>3. QED
        BY <3>2
    <2>5. Wire'
      <3>1. \A i \in 1..Len(sent') : FALSE
        BY <1>0, <2>3
      <3>2. QED
        BY <2>4, <3>1 DEF Wire
    <2>6. \A i \in 1..Len(due') : due'[i] = Head(inbox)
      BY <1>7, <2>1
    <2>7. \A i \in 1..Len(due') : Empties(due[i])' => ~served' \/ late'
      BY <1>0, <1>2, <1>3, <2>6 DEF Answered, Empties
    <2>8. Answered'
      BY <1>0, <1>2, <1>4, <1>5, <2>7 DEF Answered
    <2>9. QED
      BY <2>5, <2>8
  <1>8. QED
    BY <1>6, <1>7 DEF Receive

LEMMA EventServed ==
  ASSUME LInv, LInv', ServedInv, Event
  PROVE  ServedInv'
  <1>0. /\ LTypeOK /\ up' = up /\ lease' = lease /\ cleanup' = cleanup /\ pending' = pending
        /\ due' = due /\ sent' = sent /\ served' = served /\ strayed' = strayed /\ late' = late
        /\ Reply(Shared("event"), TRUE)
    BY DEF LInv, Event, history, requests
  <1>1. SUFFICES ASSUME up, ~strayed PROVE Wire' /\ Answered'
    BY <1>0 DEF ServedInv
  <1>2. Wire /\ Answered
    BY <1>1 DEF ServedInv
  <1>3. PICK m \in Frame : m = Settled(Shared("event"), TRUE) /\ inbox' = Append(inbox, m)
    BY <1>0, ReplyFacts
  <1>4. ~Response(m) /\ ~Empties(m)
    BY <1>3 DEF Response, Empties, Settled, Shared
  <1>5. \A i \in 1..Len(inbox') : (i \in 1..Len(inbox) /\ inbox'[i] = inbox[i]) \/ inbox'[i] = m
    <2>1. inbox \in Seq(Frame)
      BY <1>0 DEF LTypeOK
    <2>2. /\ Len(Append(inbox, m)) = Len(inbox) + 1 /\ Len(inbox) \in Nat
          /\ \A i \in 1..Len(Append(inbox, m)) :
               Append(inbox, m)[i] = IF i = Len(inbox) + 1 THEN m ELSE inbox[i]
      BY <2>1, AppendFacts
    <2>3. PICK n \in Nat : n = Len(inbox)
      BY <2>2
    <2>4. inbox' = Append(inbox, m)
      BY <1>3
    <2>5. SUFFICES ASSUME NEW i \in 1..(n + 1)
                   PROVE  (i \in 1..n /\ inbox'[i] = inbox[i]) \/ inbox'[i] = m
      BY <2>2, <2>3, <2>4
    <2>6. inbox'[i] = IF i = n + 1 THEN m ELSE inbox[i]
      BY <2>2, <2>3, <2>4
    <2>7. QED
      BY <2>6
  <1>6. Wire'
    BY <1>0, <1>2, <1>4, <1>5 DEF Wire, Response, Pending
  <1>7. Someone' <=> Someone
    BY <1>0 DEF Someone, Hold, Holds
  <1>8. Answered'
    BY <1>0, <1>2, <1>4, <1>5, <1>7 DEF Answered, Empties
  <1>9. QED
    BY <1>6, <1>8

LEMMA ServeServed ==
  ASSUME LInv, LInv', ServedInv, Serve
  PROVE  ServedInv'
  <1>0. /\ LTypeOK /\ up' = up /\ lease' = lease /\ cleanup' = cleanup /\ pending' = pending
        /\ due' = due /\ strayed' = strayed /\ sent # <<>> /\ sent' = Tail(sent)
    BY DEF LInv, Serve
  <1>1. SUFFICES ASSUME up, ~strayed PROVE Wire' /\ Answered'
    BY <1>0 DEF ServedInv
  <1>2. Wire /\ Answered
    BY <1>1 DEF ServedInv
  <1>3. /\ 1 \in 1..Len(sent) /\ Len(sent) \in Nat \ {0} /\ Len(sent') = Len(sent) - 1
        /\ \A i \in 1..Len(sent') : i + 1 \in 1..Len(sent)
        /\ sent' \in Seq(Promise)
    BY <1>0, TailFacts DEF LTypeOK
  <1>4. PICK p \in Promise : p = Head(sent) /\ p = sent[1]
    BY <1>0, TailFacts DEF LTypeOK
  <1>5. sent' = <<>>
    <2>1. \A i \in 1..Len(sent') : FALSE
      <3>1. SUFFICES ASSUME NEW i \in 1..Len(sent') PROVE FALSE
        OBVIOUS
      <3>2. i + 1 = 1
        BY <1>2, <1>3 DEF Wire
      <3>3. QED
        BY <3>2
    <2>2. Len(sent') = 0
      BY <1>3, <2>1
    <2>3. QED
      BY <1>3, <2>2, EmptySeq
  <1>6. Pending(p)
    BY <1>2, <1>3, <1>4 DEF Wire
  <1>7. due = <<>>
    <2>1. PICK k \in 1..Len(pending) : pending[k] = p
      BY <1>6 DEF Pending
    <2>2. QED
      BY <1>1, <2>1, OneRequest
  <1>8. \A i \in 1..Len(inbox) : ~Response(inbox[i])
    BY <1>0, <1>2 DEF Wire
  <1>9. PICK ok \in BOOLEAN :
          /\ Reply(p, ok)
          /\ p.of \in {"attach", "create"} /\ ~ok => ~served' \/ late'
          /\ p.of \in {"detach", "reconcile"} /\ ok => ~served'
          /\ p.of \in {"detach", "reconcile"} /\ served' /\ ~late' => served /\ ~late
    <2>1. served \in BOOLEAN /\ late \in BOOLEAN
      BY <1>0 DEF LTypeOK
    <2>2. \/ p.of \in {"attach", "create"} /\ Reply(p, TRUE)
          \/ p.of \in {"attach", "create"} /\ Reply(p, FALSE) /\ late' = served'
          \/ p.of \in {"detach", "reconcile"} /\ Reply(p, TRUE) /\ served' = FALSE
          \/ p.of \in {"detach", "reconcile"} /\ Reply(p, FALSE)
             /\ served' \in {FALSE, served} /\ late' = (late /\ served')
      BY <1>4 DEF Serve
    <2>3. CASE p.of \in {"attach", "create"} /\ Reply(p, TRUE)
      BY <2>3
    <2>4. CASE p.of \in {"attach", "create"} /\ Reply(p, FALSE) /\ late' = served'
      BY <2>4
    <2>5. CASE p.of \in {"detach", "reconcile"} /\ Reply(p, TRUE) /\ served' = FALSE
      BY <2>5
    <2>6. CASE p.of \in {"detach", "reconcile"} /\ Reply(p, FALSE)
               /\ served' \in {FALSE, served} /\ late' = (late /\ served')
      <3>1. served' /\ ~late' => served /\ ~late
        BY <2>1, <2>6
      <3>2. p.of \notin {"attach", "create"}
        BY <2>6
      <3>3. QED
        BY <2>6, <3>1, <3>2
    <2>7. QED
      BY <2>2, <2>3, <2>4, <2>5, <2>6
  <1>10. PICK m \in Answer : /\ m = Settled(p, ok) /\ m.ok = ok /\ m.of = p.of /\ m.by = p.by
                             /\ inbox' = Append(inbox, m)
    BY <1>9, AnswerFacts DEF Reply
  <1>11. \A i \in 1..Len(inbox') :
           \/ i \in 1..Len(inbox) /\ inbox'[i] = inbox[i] /\ ~Response(inbox'[i])
           \/ i = Len(inbox) + 1 /\ inbox'[i] = m
    <2>1. inbox \in Seq(Frame) /\ m \in Frame
      BY <1>0 DEF LTypeOK, Frame
    <2>2. QED
      BY <1>8, <1>10, <2>1, AppendFacts
  <1>12. Wire'
    <2>1. \A i \in 1..Len(sent') : FALSE
      BY <1>5
    <2>2. Pending(p)'
      BY <1>0, <1>6 DEF Pending
    <2>3. \A i \in 1..Len(inbox') : Response(inbox[i])' => i = Len(inbox) + 1 /\ inbox'[i] = m
      BY <1>11 DEF Response
    <2>4. QED
      BY <1>5, <1>10, <2>1, <2>2, <2>3 DEF Wire
  <1>13. \A i \in 1..Len(inbox') : Empties(inbox[i])' => ~served' \/ late'
    <2>1. \A i \in 1..Len(inbox') : ~Response(inbox'[i]) => ~Empties(inbox[i])'
      BY DEF Response, Empties
    <2>2. Empties(m) => ~served' \/ late'
      BY <1>9, <1>10 DEF Empties
    <2>3. QED
      BY <1>11, <2>1, <2>2 DEF Empties
  <1>14. \A i \in 1..Len(due') : Empties(due[i])' => ~served' \/ late'
    BY <1>0, <1>7
  <1>15. Someone' <=> Someone
    BY <1>0 DEF Someone, Hold, Holds
  <1>16. ASSUME served', ~late' PROVE Someone
    <2>1. Open(p)
      BY <1>6 DEF Open, OpenWith
    <2>2. CASE p = Shared("attach")
      <3>1. PICK l \in Lease : lease[l].at = "attaching"
        BY <1>1, <2>1, <2>2 DEF LInv, UpInv, Ordered
      <3>2. QED
        BY <3>1 DEF Someone, Hold, Holds
    <2>3. CASE p = Shared("create")
      BY <2>1, <2>3 DEF LInv, KnownInv, Someone
    <2>4. CASE p.of \in {"detach", "reconcile"}
      BY <1>2, <1>9, <1>16, <2>4 DEF Answered
    <2>5. QED
      BY <2>2, <2>3, <2>4, PromiseFacts
  <1>17. Answered'
    BY <1>13, <1>14, <1>15, <1>16 DEF Answered
  <1>18. QED
    BY <1>12, <1>17

\* Somebody answers for what the server has attached.
LEMMA ServedNext ==
  ASSUME LInv, LInv', ServedInv, [Next]_vars
  PROVE  ServedInv'
  <1>1. ASSUME NEW l \in Lease, NEW mode \in Modes, Acquire(l, mode) PROVE ServedInv'
    BY <1>1, AcquireServed
  <1>2. ASSUME NEW l \in Lease, Create(l) PROVE ServedInv'
    BY <1>2, CreateServed
  <1>3. ASSUME NEW l \in Lease, NEW relinquish \in BOOLEAN, Release(l, relinquish) PROVE ServedInv'
    BY <1>3, ReleaseServed
  <1>4. CASE Resume
    BY <1>4, ResumeServed
  <1>5. CASE Receive
    BY <1>5, ReceiveServed
  <1>6. CASE Drop
    BY <1>6 DEF Drop, ServedInv
  <1>7. CASE Reconnect
    <2>1. /\ ~served /\ sent = <<>> /\ inbox = <<>> /\ due = <<>>
          /\ served' = served /\ sent' = sent /\ inbox' = inbox /\ due' = due
      BY <1>7 DEF Reconnect, Idle, LInv, Cut, requests
    <2>2. QED
      BY <2>1 DEF ServedInv, Wire, Answered
  <1>8. CASE Serve
    BY <1>8, ServeServed
  <1>9. CASE Event
    BY <1>9, EventServed
  <1>10. CASE UNCHANGED vars
    <2>1. /\ up' = up /\ lease' = lease /\ cleanup' = cleanup /\ pending' = pending
          /\ sent' = sent /\ due' = due
          /\ inbox' = inbox /\ served' = served /\ strayed' = strayed /\ late' = late
      BY <1>10 DEF vars, requests, history
    <2>2. QED
      BY <2>1 DEF ServedInv, Wire, Answered, Response, Empties, Someone, Hold, Holds, Pending
  <1>11. QED
    BY <1>1, <1>2, <1>3, <1>4, <1>5, <1>6, <1>7, <1>8, <1>9, <1>10 DEF Next

\* NothingLeaked, while no lease has been made behind its invalidation: what the server
\* has attached, but for what it attached under an error, a lease answers for, a call
\* that creates one, or a cleanup.
THEOREM NoLeak == Spec => [](~strayed => NothingLeaked)
  <1>1. Init => ServedInv
    BY DEF Init, ServedInv, Wire, Answered
  <1>2. LInv /\ LInv' /\ ServedInv /\ [Next]_vars => ServedInv'
    BY ServedNext
  <1>3. ServedInv => (~strayed => NothingLeaked)
    BY DEF ServedInv, Answered, Someone, Hold, NothingLeaked
  <1>4. Spec => []LInv
    BY Invariant
  <1>5. QED
    BY <1>1, <1>2, <1>3, <1>4, PTL DEF Spec
=============================================================================
