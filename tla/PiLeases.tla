------------------------------ MODULE PiLeases ------------------------------
(***************************************************************************)
(* The session leases of PiClient, for one session id:                     *)
(*   packages/client/src/client.ts      acquireSession, createSession, the *)
(*                                      release of a lease, invalidation,  *)
(*                                      #reconcileSessionCleanup, #request,*)
(*                                      #handleMessage, disconnect, connect*)
(*   packages/client/src/state.ts       the attachment set                 *)
(*                                                                         *)
(* A lease is one call of acquireSession or createSession and the handle   *)
(* it returns.  lease[l].at is where the code is with it:                  *)
(*   free         not called, failed, or released                          *)
(*   waiting      acquireSession awaits the detachment of another lease    *)
(*   reconciling  it awaits the detach that an earlier dispose() failed at *)
(*   attaching    it awaits the one attach request of all acquirers        *)
(*   creating     createSession awaits its response                        *)
(*   active       the handle is out                                        *)
(*   releasing    detach() or dispose() awaits its detach request          *)
(*   invalidated  it does, and its generation has passed                   *)
(* A handle of a generation that has passed refuses everything, and its    *)
(* release is a no-op: but for a detach request under way, it is free.     *)
(* A response settles a promise; the code that awaits it runs only when    *)
(* the chunk of frames it came in has been handled.  `due` holds what was  *)
(* settled in this chunk and has not been resumed.  A chunk may hold       *)
(* several frames, the connection may fail in the middle of one, and the   *)
(* application is called back there (listeners), so that everything but a  *)
(* new connection can happen while promises are due.                       *)
(***************************************************************************)
EXTENDS Naturals, Sequences, FiniteSets

CONSTANTS
  Lease,      \* calls of acquireSession and createSession at once
  MaxInbox    \* bound: frames on their way to the client

ASSUME LeaseConstants == IsFiniteSet(Lease) /\ MaxInbox \in Nat

VARIABLES
  known,      \* whether the application has the session id
  up,         \* whether the client is connected
  lease,      \* the leases
  count,      \* #sessionLeaseCounts
  exclusive,  \* #exclusiveSessionLeases: {} or one lease
  cleanup,    \* #sessionCleanupRequired
  attached,   \* whether #attachedSessionIds has the session
  detachment, \* #sessionDetachments: {} or the lease whose detach request it is
  pending,    \* #pendingRequests in the order of insertion, each for a promise
  sent,       \* requests on their way to the server
  inbox,      \* frames on their way to the client
  due,        \* settled promises whose continuations have not run
  served,     \* whether the server has the session attached to this connection
  strayed,    \* history: a lease of this generation was made after its invalidation
  late        \* history: the server attached, and answered with an error

requests == <<pending, sent, due>>
history == <<strayed, late>>
vars == <<known, up, lease, count, exclusive, cleanup, attached, detachment, requests,
          inbox, served, history>>

Modes == {"shared", "exclusive"}
Free == [at |-> "free", mode |-> "shared", relinquish |-> FALSE, on |-> {}]
At(where) == {l \in Lease : lease[l].at = where}

\* The promises: the attach request and the reconciliation, which everybody who needs
\* them shares, a create request, and the detach request of each lease.
Shared(of) == [of |-> of, by |-> {}]
Detach(l) == [of |-> "detach", by |-> {l}]
Settled(p, ok) == [of |-> p.of, by |-> p.by, ok |-> ok]

Init ==
  /\ known \in BOOLEAN
  /\ up = TRUE
  /\ lease = [l \in Lease |-> Free]
  /\ count = 0 /\ exclusive = {}
  /\ cleanup = FALSE /\ attached = FALSE /\ detachment = {}
  /\ pending = <<>> /\ sent = <<>> /\ inbox = <<>> /\ due = <<>>
  /\ served = FALSE
  /\ strayed = FALSE /\ late = FALSE

\* No settled promise waits for its continuations.
Idle == due = <<>>

Pending(p) == \E i \in 1..Len(pending) : pending[i] = p
Due(p, left) == \E i \in 1..Len(left) : left[i].of = p.of /\ left[i].by = p.by

\* The promise p is made, unless there is one that has not been resumed; left are the
\* settled ones.  #request is refused without a connection.
Request(p, left) ==
  IF Pending(p) \/ Due(p, left) THEN due' = left /\ UNCHANGED <<pending, sent>>
  ELSE IF up THEN pending' = Append(pending, p) /\ sent' = Append(sent, p) /\ due' = left
  ELSE due' = Append(left, Settled(p, FALSE)) /\ UNCHANGED <<pending, sent>>

-----------------------------------------------------------------------------
(***************************************************************************)
(* Reservations                                                            *)
(***************************************************************************)

\* Mutant: an exclusive lease does not mind the shared ones.
MayReserveMixed(mode) == mode = "shared" => exclusive = {}

\* The two refusals of #reserveSessionLease.
MayReserve(mode) ==
  /\ mode = "exclusive" => count = 0
  /\ mode = "shared" => exclusive = {}

Reserved(l, mode) ==
  /\ count' = count + 1
  /\ exclusive' = IF mode = "exclusive" THEN {l} ELSE exclusive

\* Mutant: the reservation of a failed acquisition is kept.
ReleasedNot(ls) == UNCHANGED <<count, exclusive>>

\* #releaseSessionLease, for each lease of ls.
Released(ls) ==
  /\ count' = IF Cardinality(ls) >= count THEN 0 ELSE count - Cardinality(ls)
  /\ exclusive' = exclusive \ ls

-----------------------------------------------------------------------------
(***************************************************************************)
(* acquireSession and createSession                                        *)
(***************************************************************************)

\* acquireSession of the leases ls behind its first await: clean up what a failed
\* dispose() left, share the attachment there is, or attach.
Proceed(ls, now, left) ==
  IF cleanup' THEN /\ lease' = [l \in Lease |-> IF l \in ls THEN [now[l] EXCEPT !.at = "reconciling", !.on = {}] ELSE now[l]]
                   /\ Request(Shared("reconcile"), left)
  ELSE IF attached THEN
       /\ lease' = [l \in Lease |-> IF l \in ls THEN [now[l] EXCEPT !.at = "active", !.on = {}] ELSE now[l]]
       /\ due' = left /\ UNCHANGED <<pending, sent>>
  ELSE /\ lease' = [l \in Lease |-> IF l \in ls THEN [now[l] EXCEPT !.at = "attaching", !.on = {}] ELSE now[l]]
       /\ Request(Shared("attach"), left)

\* Mutant: an acquisition does not wait for the detachment under way.
DetachmentNone == {}

\* The detach request an acquisition waits for.
Detachment == detachment

\* Without a connection the acquisition reserves too, and fails when it is resumed.
Acquire(l, mode) ==
  /\ known /\ lease[l].at = "free"
  /\ MayReserve(mode)
  /\ Reserved(l, mode)
  /\ UNCHANGED cleanup
  /\ LET now == [lease EXCEPT ![l] = [Free EXCEPT !.at = "waiting", !.mode = mode, !.on = Detachment]] IN
       IF Detachment # {} THEN lease' = now /\ UNCHANGED requests
       ELSE Proceed({l}, now, due)
  /\ UNCHANGED <<known, up, attached, detachment, inbox, served, history>>

\* (Without a connection createSession fails and leaves nothing.)
Create(l) ==
  /\ up /\ ~known /\ At("creating") = {} /\ lease[l].at = "free"
  /\ lease' = [lease EXCEPT ![l] = [Free EXCEPT !.at = "creating", !.mode = "exclusive"]]
  /\ Request(Shared("create"), due)
  /\ UNCHANGED <<known, up, count, exclusive, cleanup, attached, detachment, inbox, served, history>>

-----------------------------------------------------------------------------
(***************************************************************************)
(* detach() and dispose() of a lease                                       *)
(***************************************************************************)

\* assertActive.
Usable(l) == lease[l].at = "active" /\ attached /\ up

\* Mutant: the last lease does not take itself for the last.
FinalNever == count < 1

\* The lease that is released is the last one.
Final == count <= 1

Release(l, relinquish) ==
  /\ Usable(l)
  /\ IF Final
       THEN /\ lease' = [lease EXCEPT ![l].at = "releasing", ![l].relinquish = relinquish]
            /\ Request(Detach(l), due)
            /\ detachment' = {l}
            /\ UNCHANGED <<count, exclusive>>
       ELSE /\ lease' = [lease EXCEPT ![l] = Free]
            /\ Released({l})
            /\ UNCHANGED <<requests, detachment>>
  /\ UNCHANGED <<known, up, cleanup, attached, inbox, served, history>>

-----------------------------------------------------------------------------
(***************************************************************************)
(* The continuations                                                       *)
(***************************************************************************)

\* The detach request of the lease d is settled.  A request that succeeded releases
\* the reservation, also of a lease that was invalidated meanwhile; a dispose() that
\* failed asks for a cleanup, a detach() that failed leaves the lease active, and for
\* an invalidated lease there is nothing to do.  Then those who waited go on.
ResumeRelease(d, ok, left) ==
  LET current == lease[d].at = "releasing"
      gone == ok \/ (current /\ lease[d].relinquish)
      now == [lease EXCEPT ![d] = IF gone \/ ~current THEN Free ELSE [@ EXCEPT !.at = "active"]]
      ws == {l \in At("waiting") : d \in lease[l].on}
  IN
    /\ cleanup' = (cleanup \/ (~ok /\ current /\ lease[d].relinquish))
    /\ detachment' = detachment \ {d}
    /\ IF gone THEN Released({d}) ELSE UNCHANGED <<count, exclusive>>
    /\ IF ws = {} THEN lease' = now /\ due' = left /\ UNCHANGED <<pending, sent>>
                  ELSE Proceed(ws, now, left)
    /\ UNCHANGED <<known, strayed>>

Failed(ls) == Released(ls) /\ lease' = [l \in Lease |-> IF l \in ls THEN Free ELSE lease[l]]

ResumeReconcile(ok, left) ==
  LET ls == At("reconciling") IN
    /\ cleanup' = (cleanup /\ ~ok)
    /\ IF ok /\ ls # {}
         THEN /\ lease' = [l \in Lease |-> IF l \in ls THEN [lease[l] EXCEPT !.at = "attaching"]
                                           ELSE lease[l]]
              /\ Request(Shared("attach"), left)
              /\ UNCHANGED <<count, exclusive>>
         ELSE Failed(ls) /\ due' = left /\ UNCHANGED <<pending, sent>>
    /\ UNCHANGED <<known, detachment, strayed>>

\* createSessionLease reads the generation of now, not that of the reservation: behind
\* a disconnection the lease is as good as new, and its reservation is gone.
ResumeAttach(ok, left) ==
  LET ls == At("attaching") IN
    /\ IF ok THEN /\ lease' = [l \in Lease |-> IF l \in ls
                                 THEN [lease[l] EXCEPT !.at = "active"] ELSE lease[l]]
                  /\ strayed' = (strayed \/ (~up /\ ls # {}))
                  /\ UNCHANGED <<count, exclusive>>
       ELSE Failed(ls) /\ UNCHANGED strayed
    /\ due' = left
    /\ UNCHANGED <<known, cleanup, detachment, pending, sent>>

ResumeCreate(ok, left) ==
  LET ls == At("creating") IN
    /\ known' = (known \/ ok)
    /\ IF ok /\ MayReserve("exclusive")
         THEN /\ lease' = [l \in Lease |-> IF l \in ls
                             THEN [lease[l] EXCEPT !.at = "active"] ELSE lease[l]]
              /\ count' = count + Cardinality(ls) /\ exclusive' = ls
         ELSE /\ lease' = [l \in Lease |-> IF l \in ls THEN Free ELSE lease[l]]
              /\ UNCHANGED <<count, exclusive>>
    /\ due' = left
    /\ UNCHANGED <<cleanup, detachment, pending, sent, strayed>>

\* The continuations of the first settled promise run.
Resume ==
  /\ due # <<>>
  /\ LET p == Head(due) IN
       \/ p.of = "detach" /\ \E d \in p.by : ResumeRelease(d, p.ok, Tail(due))
       \/ p.of = "reconcile" /\ ResumeReconcile(p.ok, Tail(due))
       \/ p.of = "attach" /\ ResumeAttach(p.ok, Tail(due))
       \/ p.of = "create" /\ ResumeCreate(p.ok, Tail(due))
  /\ UNCHANGED <<up, attached, inbox, served, late>>

-----------------------------------------------------------------------------
(***************************************************************************)
(* The connection                                                          *)
(***************************************************************************)

\* The requests that are left when the k-th is taken.
Taken(k) == [i \in 1..Len(pending) - 1 |-> pending[IF i < k THEN i ELSE i + 1]]

\* #handleMessage: an event, or the response of a request, which settles its promise.
\* (This server answers every request once, so that there is one to take.)
Receive ==
  /\ inbox # <<>>
  /\ inbox' = Tail(inbox)
  /\ LET m == Head(inbox) IN
       \/ m.of = "event" /\ attached' = TRUE /\ UNCHANGED <<pending, due>>
       \/ \E k \in 1..Len(pending) :
            /\ pending[k].of = m.of /\ pending[k].by = m.by
            /\ pending' = Taken(k)
            /\ attached' = IF m.ok THEN m.of \in {"attach", "create"} ELSE attached
            /\ due' = Append(due, m)
  /\ UNCHANGED <<known, up, lease, count, exclusive, cleanup, detachment, sent, served, history>>

\* #invalidateAllSessionLeases: only a session with reservations has a new generation.
Invalidated ==
  IF count = 0 THEN UNCHANGED <<lease, count, exclusive, strayed>>
  ELSE /\ lease' = [l \in Lease |-> CASE lease[l].at = "active" -> Free
                                     [] lease[l].at = "releasing" -> [lease[l] EXCEPT !.at = "invalidated"]
                                     [] OTHER -> lease[l]]
       /\ count' = 0 /\ exclusive' = {} /\ strayed' = FALSE

\* Mutant: requests in flight are forgotten instead of rejected.
RejectedNone == <<>>

\* #rejectPendingRequests: the requests that were not answered, in order.
Rejected == [i \in 1..Len(pending) |-> Settled(pending[i], FALSE)]

\* The transport closes, the application disconnects or disposes the client, or a
\* frame of the chunk is refused: attachments and leases go, and every request that
\* was not answered is rejected.
Drop ==
  /\ up
  /\ up' = FALSE
  /\ attached' = FALSE /\ cleanup' = FALSE
  /\ Invalidated
  /\ due' = due \o Rejected
  /\ pending' = <<>> /\ sent' = <<>> /\ inbox' = <<>>
  /\ served' = FALSE /\ late' = FALSE
  /\ UNCHANGED <<known, detachment>>

\* The handshake takes the transport, and by then the continuations have run.
Reconnect ==
  /\ Idle /\ ~up
  /\ up' = TRUE
  /\ UNCHANGED <<known, lease, count, exclusive, cleanup, attached, detachment, requests,
                 inbox, served, history>>

-----------------------------------------------------------------------------
(***************************************************************************)
(* The server, as PiSessions models it, for this connection                *)
(***************************************************************************)
Reply(p, ok) == inbox' = Append(inbox, Settled(p, ok))

\* A request is executed.  attach and create attach and then take the snapshot that
\* they answer with: either may fail, so that an error may come with an attachment.  A
\* detach answered with an error may have had its effect (with pi-server it always
\* has) or not.
Serve ==
  /\ sent # <<>>
  /\ sent' = Tail(sent)
  /\ LET p == Head(sent) IN
       \/ p.of \in {"attach", "create"} /\ Reply(p, TRUE) /\ served' = TRUE /\ late' = FALSE
       \/ /\ p.of \in {"attach", "create"} /\ Reply(p, FALSE)
          /\ served' \in {served, TRUE} /\ late' = served'
       \/ p.of \in {"detach", "reconcile"} /\ Reply(p, TRUE) /\ served' = FALSE /\ late' = FALSE
       \/ /\ p.of \in {"detach", "reconcile"} /\ Reply(p, FALSE)
          /\ served' \in {FALSE, served} /\ late' = (late /\ served')
  /\ UNCHANGED <<known, up, lease, count, exclusive, cleanup, attached, detachment, pending,
                 due, strayed>>

\* A snapshot of the session goes to every attached connection.
Event ==
  /\ served /\ Len(inbox) < MaxInbox
  /\ Reply(Shared("event"), TRUE)
  /\ UNCHANGED <<known, up, lease, count, exclusive, cleanup, attached, detachment, requests,
                 served, history>>

Next ==
  \/ \E l \in Lease :
       \/ \E mode \in Modes : Acquire(l, mode)
       \/ Create(l)
       \/ \E relinquish \in BOOLEAN : Release(l, relinquish)
  \/ Resume \/ Receive \/ Drop \/ Reconnect \/ Serve \/ Event

Spec == Init /\ [][Next]_vars

\* Continuations run, delivered frames are read, and the server answers.
Fairness == WF_vars(Resume) /\ WF_vars(Receive) /\ WF_vars(Serve)

FairSpec == Spec /\ Fairness

-----------------------------------------------------------------------------
(***************************************************************************)
(* Properties                                                              *)
(***************************************************************************)

\* The leases that hold a reservation: those being acquired or released and those
\* that are out and have not been invalidated.
Holds(l) == lease[l].at \in {"waiting", "reconciling", "attaching", "active", "releasing"}

\* Whether the books are to be in order: the continuations of a disconnection have run,
\* and none of them made a lease behind the invalidation.
InOrder == (up \/ Idle) /\ ~strayed

\* "Exclusive acquisition fails ... while any lease exists, and shared acquisition
\* fails while an exclusive lease exists": an exclusive lease is the only one, whatever
\* was in flight when it was acquired.
ExclusiveIsAlone ==
  InOrder => \A l, k \in Lease :
               Holds(l) /\ Holds(k) /\ lease[l].mode = "exclusive" => l = k

\* The count that decides who sends the detach request is the number of leases there
\* are, after every failure, retry and disconnection.
CountIsLeases == InOrder => count = Cardinality({l \in Lease : Holds(l)})

\* "The client sends the protocol detach request after the final lease is released":
\* with no lease, no request and no cleanup left, the server has nothing attached, but
\* for what it attached under an error.
NothingLeaked ==
  up /\ Idle /\ sent = <<>> /\ inbox = <<>> /\ ~cleanup
    /\ (\A l \in Lease : ~Holds(l) /\ lease[l].at # "creating")
    => ~served \/ late

\* The attachment is never taken away under a lease that is in use: a detach request
\* and a later acquisition of the same session do not overlap.
NotDetachedUnder ==
  [][\A l \in Lease : ~strayed /\ Usable(l) /\ lease'[l].at = "active" => attached' \/ ~up']_vars

\* Every acquisition ends, with a lease or with an error, however detachments,
\* cleanups, attachments and disconnections follow each other.
AcquisitionEnds ==
  \A l \in Lease : lease[l].at \in {"waiting", "reconciling", "attaching", "creating"}
                     ~> lease[l].at \in {"free", "active"}
=============================================================================
