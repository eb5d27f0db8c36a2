----------------------------- MODULE PiSessions -----------------------------
(***************************************************************************)
(* The live sessions of pi-server: packages/server/src/sessions.ts         *)
(* (LiveSessionManager), with disconnect and close of server.ts.           *)
(*                                                                         *)
(* One durable session id; every LiveSession object made for it has a      *)
(* number, because code that awaited keeps the object it had while the map *)
(* may already hold none or another one.  Connections send commands, each  *)
(* executed by a request of its own; req[r].at is the await it is in:      *)
(*   free       no command                                                 *)
(*   joined     the promise in openingSessions                             *)
(*   disposing  existing.disposing, in acquire's loop                      *)
(*   casting    broadcastSnapshot after attach                             *)
(*   op         the runtime's operation, then its broadcastSnapshot        *)
(*   detaching  broadcastSnapshot of detach                                *)
(* acquire's resumption and attach run in one turn of the event loop, so   *)
(* they are one step; the requests that joined an opening resume in the    *)
(* order in which they joined.                                             *)
(***************************************************************************)
EXTENDS Naturals, Sequences, FiniteSets

CONSTANTS
  Conn,       \* connections whose handshake is complete
  Req,        \* bound: commands in execution at once
  MaxLive     \* bound: LiveSession objects made for the session

ASSUME ConnType == Conn # {}
ASSUME ReqType == IsFiniteSet(Req)
ASSUME MaxLiveType == MaxLive \in Nat

VARIABLES
  up,         \* the connections that are ready; the others are going or gone
  attached,   \* the connections whose sessionIds has the session
  live,       \* the LiveSession objects made so far
  current,    \* the number of the one in liveSessions, 0 for none
  opening,    \* openingSessions: the state of create() and who awaits it
  req,        \* the commands in execution
  closing     \* PiServer.closing

vars == <<up, attached, live, current, opening, req, closing>>

Free == [at |-> "free", conn |-> CHOOSE c \in Conn : TRUE, obj |-> 0]
NotOpening == [at |-> "none", by |-> <<>>]

\* LiveSession: its runtime is undisposed until disposing is "done"; doomed are the
\* connections terminate() has listed.
NewLive == [conns |-> {}, ops |-> 0, phase |-> "idle", terminal |-> FALSE,
            doomed |-> {}, disposing |-> "no"]

Init ==
  /\ up = Conn /\ attached = {}
  /\ live = <<>> /\ current = 0
  /\ opening = NotOpening
  /\ req = [r \in Req |-> Free]
  /\ closing = FALSE

-----------------------------------------------------------------------------
(***************************************************************************)
(* Helpers                                                                 *)
(***************************************************************************)

\* Mutant: an operation in progress does not keep the runtime.
MaybeDisposeBusy(l) ==
  IF closing \/ l.disposing # "no" \/ l.conns # {} \/ (~l.terminal /\ l.phase # "idle")
  THEN l ELSE [l EXCEPT !.disposing = "pending"]

\* maybeDispose, up to the call of runtime.dispose().
MaybeDispose(l) ==
  IF \/ closing \/ l.disposing # "no" \/ l.conns # {} \/ l.ops > 0
     \/ ~l.terminal /\ l.phase # "idle"
  THEN l ELSE [l EXCEPT !.disposing = "pending"]

\* live.connections.delete
Without(l, cs) == [l EXCEPT !.conns = @ \ cs]

\* The connections among a sequence of requests, in order, that are still there.
Waiting(rs) == [i \in 1..Len(rs) |-> req[rs[i]].conn]

\* attach() by each of the connections cs in turn, on the object l: one that has
\* gone meanwhile calls maybeDispose instead.
AttachAll(l, cs) ==
  LET here == {i \in 1..Len(cs) : cs[i] \in up}
      first == \E i \in 1..Len(cs) : cs[i] \notin up /\ \A j \in here : i < j
      joined == [l EXCEPT !.conns = @ \cup {cs[i] : i \in here}]
  IN IF first THEN [joined EXCEPT !.disposing = MaybeDispose(l).disposing] ELSE joined

\* acquire() and, when it has the object at once, attach().
AcquireExisting(r, c) ==
  /\ current # 0
  /\ LET l == live[current] IN
       \/ /\ l.terminal                       \* session_locked
          /\ req' = [req EXCEPT ![r] = Free]
          /\ UNCHANGED <<attached, live>>
       \/ /\ ~l.terminal /\ l.disposing # "no"
          /\ req' = [req EXCEPT ![r] = [at |-> "disposing", conn |-> c, obj |-> current]]
          /\ UNCHANGED <<attached, live>>
       \/ /\ ~l.terminal /\ l.disposing = "no"
          /\ live' = [live EXCEPT ![current] = AttachAll(@, <<c>>)]
          /\ attached' = attached \cup ({c} \cap up)
          /\ req' = [req EXCEPT ![r] = IF c \in up
                       THEN [at |-> "casting", conn |-> c, obj |-> current] ELSE Free]
  /\ UNCHANGED opening

AcquireOpening(r, c) ==
  /\ current = 0 /\ Len(live) < MaxLive
  /\ opening' = IF opening.at = "none" THEN [at |-> "acquiring", by |-> <<r>>]
                ELSE [opening EXCEPT !.by = Append(@, r)]
  /\ req' = [req EXCEPT ![r] = [at |-> "joined", conn |-> c, obj |-> 0]]
  /\ UNCHANGED <<attached, live>>

\* Mutant: a session that is being disposed is opened again at once.
AcquireEager(r, c) ==
  \/ AcquireExisting(r, c) \/ AcquireOpening(r, c)
  \/ /\ current # 0 /\ live[current].disposing # "no"
     /\ opening.at = "none" /\ Len(live) < MaxLive
     /\ opening' = [at |-> "acquiring", by |-> <<r>>]
     /\ req' = [req EXCEPT ![r] = [at |-> "joined", conn |-> c, obj |-> 0]]
     /\ UNCHANGED <<attached, live>>

Acquire(r, c) == AcquireExisting(r, c) \/ AcquireOpening(r, c)

Answer(r) == req' = [req EXCEPT ![r] = Free]

-----------------------------------------------------------------------------
(***************************************************************************)
(* create and attach: acquire, attach, broadcastSnapshot                   *)
(***************************************************************************)

\* A connection asks for the session: create with the id it is given, or attach.
Attach(r, c) ==
  /\ req[r].at = "free" /\ c \in up
  /\ Acquire(r, c)
  /\ UNCHANGED <<up, current, closing>>

\* existing.disposing has settled: the loop starts again, or the failure of
\* dispose() is the answer.
Retry(r) ==
  /\ req[r].at = "disposing" /\ live[req[r].obj].disposing = "done"
  /\ \/ Acquire(r, req[r].conn)
     \/ Answer(r) /\ UNCHANGED <<attached, live, opening>>
  /\ UNCHANGED <<up, current, closing>>

AnswerAll(rs) ==
  req' = [r \in Req |-> IF \E i \in 1..Len(rs) : rs[i] = r THEN Free ELSE req[r]]

\* Those who awaited a disposal resume in the microtasks that follow it, ahead of
\* whatever the service answers to the first of them.
Resumed == \A r \in Req : req[r].at = "disposing" => live[req[r].obj].disposing # "done"

\* openSession() or createSession() rejects: everyone who awaits it is told.
OpenFails ==
  /\ opening.at = "acquiring" /\ Resumed
  /\ AnswerAll(opening.by)
  /\ opening' = NotOpening
  /\ UNCHANGED <<up, attached, live, current, closing>>

\* create() has its runtime; a server that is closing gives it back.
RuntimeAcquired ==
  /\ opening.at = "acquiring" /\ Resumed
  /\ opening' = [opening EXCEPT !.at = IF closing THEN "rejecting" ELSE "snapshot"]
  /\ UNCHANGED <<up, attached, live, current, req, closing>>

\* runtime.snapshot() throws or names another session: the runtime is disposed.
SnapshotRefused ==
  /\ opening.at = "snapshot"
  /\ opening' = [opening EXCEPT !.at = "rejecting"]
  /\ UNCHANGED <<up, attached, live, current, req, closing>>

OpeningRejected ==
  /\ opening.at = "rejecting"
  /\ AnswerAll(opening.by)
  /\ opening' = NotOpening
  /\ UNCHANGED <<up, attached, live, current, closing>>

\* create() puts the object into the map; the opener and then those who joined it
\* resume and attach.
Opened ==
  /\ opening.at = "snapshot"
  /\ LET cs == Waiting(opening.by)
         here == {cs[i] : i \in 1..Len(cs)} \cap up
     IN
       /\ live' = Append(live, AttachAll(NewLive, cs))
       /\ attached' = attached \cup here
       /\ req' = [r \in Req |->
                    IF \A i \in 1..Len(opening.by) : opening.by[i] # r THEN req[r]
                    ELSE IF req[r].conn \in up
                    THEN [at |-> "casting", conn |-> req[r].conn, obj |-> Len(live) + 1]
                    ELSE Free]
  /\ current' = Len(live) + 1
  /\ opening' = NotOpening
  /\ UNCHANGED <<up, closing>>

\* broadcastSnapshot has sent the snapshot, or runtime.snapshot() threw.
AttachAnswered(r) ==
  /\ req[r].at = "casting"
  /\ Answer(r)
  /\ UNCHANGED <<up, attached, live, current, opening, closing>>

-----------------------------------------------------------------------------
(***************************************************************************)
(* detach and the operations                                               *)
(***************************************************************************)

\* detach: the connection leaves whatever object the map holds now.
Detach(r, c) ==
  /\ req[r].at = "free" /\ c \in up \cap attached
  /\ attached' = attached \ {c}
  /\ IF current = 0 THEN UNCHANGED <<live, req>>
     ELSE LET l == Without(live[current], {c}) IN
       IF l.conns # {} /\ ~l.terminal /\ l.disposing = "no"
       THEN /\ live' = [live EXCEPT ![current] = l]
            /\ req' = [req EXCEPT ![r] = [at |-> "detaching", conn |-> c, obj |-> current]]
       ELSE /\ live' = [live EXCEPT ![current] = MaybeDispose(l)]
            /\ UNCHANGED req
  /\ UNCHANGED <<up, current, opening, closing>>

\* A snapshot that cannot be taken rejects before maybeDispose is called.
DetachAnswered(r) ==
  /\ req[r].at = "detaching"
  /\ \/ live' = [live EXCEPT ![req[r].obj] = MaybeDispose(@)]
     \/ UNCHANGED live
  /\ Answer(r)
  /\ UNCHANGED <<up, attached, current, opening, closing>>

RequireAttached(c) ==
  c \in attached /\ current # 0 /\ ~live[current].terminal /\ live[current].disposing = "no"

\* prompt, steer, abort, set_model, set_thinking: requireAttached and runOperation.
Operate(r, c) ==
  /\ req[r].at = "free" /\ c \in up /\ RequireAttached(c)
  /\ live' = [live EXCEPT ![current].ops = @ + 1]
  /\ req' = [req EXCEPT ![r] = [at |-> "op", conn |-> c, obj |-> current]]
  /\ UNCHANGED <<up, attached, current, opening, closing>>

\* Mutant: no maybeDispose after an operation.
OperationOverOnly(l) == [l EXCEPT !.ops = @ - 1]

\* The finally block of runOperation.
OperationOver(l) == MaybeDispose([l EXCEPT !.ops = @ - 1])

OperationEnds(r) ==
  /\ req[r].at = "op"
  /\ live' = [live EXCEPT ![req[r].obj] = OperationOver(@)]
  /\ Answer(r)
  /\ UNCHANGED <<up, attached, current, opening, closing>>

-----------------------------------------------------------------------------
(***************************************************************************)
(* The runtime's events: handleRuntimeEvent and terminate                  *)
(***************************************************************************)
Subscribed(i) == live[i].disposing = "no" /\ ~live[i].terminal /\ (closing => current = i)

\* An operation starts a turn.
TurnStarts(i) ==
  /\ Subscribed(i) /\ live[i].ops > 0 /\ live[i].phase = "idle"
  /\ live' = [live EXCEPT ![i].phase = "busy"]
  /\ UNCHANGED <<up, attached, current, opening, req, closing>>

\* The turn is over and the runtime says so; the phase of a terminal runtime
\* changes unheard.
TurnEnds(i) ==
  /\ live[i].disposing # "done" /\ live[i].phase = "busy"
  /\ LET l == [live[i] EXCEPT !.phase = "idle"] IN
       live' = [live EXCEPT ![i] = IF Subscribed(i) THEN MaybeDispose(l) ELSE l]
  /\ UNCHANGED <<up, attached, current, opening, req, closing>>

\* terminate(), up to its first await.
RuntimeError(i) ==
  /\ Subscribed(i)
  /\ live' = [live EXCEPT ![i].terminal = TRUE, ![i].doomed = live[i].conns]
  /\ UNCHANGED <<up, attached, current, opening, req, closing>>

\* Mutant: the connection that goes is left in the set of the live session.
DroppedNot(ls, cs) == ls

\* sessions.disconnect for each connection in cs, on the object the map holds.
Dropped(ls, cs) ==
  IF current = 0 THEN ls
  ELSE [ls EXCEPT ![current] =
          IF cs \cap attached = {} THEN @ ELSE MaybeDispose(Without(@, cs))]

\* terminate() has closed the connections: disconnect() and maybeDispose().
Terminated(i) ==
  /\ live[i].terminal /\ live[i].disposing = "no"
  /\ up' = up \ live[i].doomed
  /\ attached' = attached \ live[i].doomed
  /\ live' = LET ls == Dropped(live, live[i].doomed) IN [ls EXCEPT ![i] = MaybeDispose(@)]
  /\ UNCHANGED <<current, opening, req, closing>>

\* runtime.dispose() has settled: the finally block takes the object out of the map.
Disposed(i) ==
  /\ live[i].disposing = "pending"
  /\ live' = [live EXCEPT ![i].disposing = "done"]
  /\ current' = IF current = i THEN 0 ELSE current
  /\ UNCHANGED <<up, attached, opening, req, closing>>

-----------------------------------------------------------------------------
(***************************************************************************)
(* server.ts: disconnect and close                                         *)
(***************************************************************************)

\* The transport is closed, or failProtocol has begun to close it: the connection
\* is served no more, but its sessions have not been told yet.
Leave(c) ==
  /\ c \in up
  /\ up' = up \ {c}
  /\ UNCHANGED <<attached, live, current, opening, req, closing>>

\* disconnect(), once the transport is closed.
Disconnect(c) ==
  /\ c \in attached \ up
  /\ attached' = attached \ {c}
  /\ live' = Dropped(live, {c})
  /\ UNCHANGED <<up, current, opening, req, closing>>

\* close(): the listeners are closed first, and commands are served meanwhile.
Close ==
  /\ ~closing
  /\ closing' = TRUE
  /\ UNCHANGED <<up, attached, live, current, opening, req>>

\* closeServerState: every connection is closing from now on.
CloseServerState ==
  /\ closing /\ up # {}
  /\ up' = {}
  /\ UNCHANGED <<attached, live, current, opening, req, closing>>

\* LiveSessionManager.close(), after the last disconnect(): once no opening is left,
\* the map is cleared and what is in it disposed.
CloseSessions ==
  /\ closing /\ up = {} /\ attached = {} /\ opening.at = "none" /\ current # 0
  /\ current' = 0
  /\ live' = [live EXCEPT ![current].disposing = IF @ = "no" THEN "pending" ELSE @]
  /\ UNCHANGED <<up, attached, opening, req, closing>>

Stopped ==
  /\ closing /\ current = 0 /\ up = {} /\ opening.at = "none"
  /\ UNCHANGED vars

Open == OpenFails \/ RuntimeAcquired \/ SnapshotRefused \/ OpeningRejected \/ Opened
Answered(r) == Retry(r) \/ AttachAnswered(r) \/ DetachAnswered(r) \/ OperationEnds(r)
Ends(i) == Terminated(i) \/ Disposed(i) \/ TurnEnds(i)

Next ==
  \/ Open \/ Close \/ CloseServerState \/ CloseSessions \/ Stopped
  \/ \E r \in Req : Answered(r) \/ \E c \in Conn : Attach(r, c) \/ Detach(r, c) \/ Operate(r, c)
  \/ \E i \in 1..Len(live) : TurnStarts(i) \/ RuntimeError(i) \/ Ends(i)
  \/ \E c \in Conn : Leave(c) \/ Disconnect(c)

Spec == Init /\ [][Next]_vars

\* Calls of the service and of the runtime settle, turns end, a transport that is
\* being closed closes, and continuations run.  No command, event, error or loss of
\* a connection has to happen.
Fairness ==
  /\ WF_vars(Open) /\ WF_vars(CloseServerState) /\ WF_vars(CloseSessions)
  /\ \A c \in Conn : WF_vars(Disconnect(c))
  /\ \A r \in Req : WF_vars(Answered(r))
  /\ \A i \in 1..MaxLive : WF_vars(i \in 1..Len(live) /\ Ends(i))

FairSpec == Spec /\ Fairness

-----------------------------------------------------------------------------
(***************************************************************************)
(* Properties                                                              *)
(***************************************************************************)

\* The type invariant of the manager's maps and of the requests.
LTypeOK ==
  /\ up \subseteq Conn /\ attached \subseteq Conn /\ closing \in BOOLEAN
  /\ live \in Seq([conns : SUBSET Conn, ops : Nat, phase : {"idle", "busy"},
                    terminal : BOOLEAN, doomed : SUBSET Conn,
                    disposing : {"no", "pending", "done"}])
  /\ current \in 0..Len(live) /\ Len(live) <= MaxLive
  /\ opening \in [at : {"none", "acquiring", "snapshot", "rejecting"}, by : Seq(Req)]
  /\ req \in [Req -> [at : {"free", "joined", "disposing", "casting", "op", "detaching"},
                       conn : Conn, obj : 0..MaxLive]]

\* The runtimes the service has handed out and not got back.
Runtimes ==
  Cardinality({i \in 1..Len(live) : live[i].disposing # "done"})
    + (IF opening.at \in {"snapshot", "rejecting"} THEN 1 ELSE 0)

\* A durable session never has two runtimes at once: opening waits for the disposal
\* of the one before, concurrent openers share one, and a server that closes
\* meanwhile gives back what it is handed.
SingleRuntime == Runtimes <= 1

\* Only the server's own close disposes a runtime under an operation: a detach, a
\* disconnection, the end of a turn or the runtime's own error while a command has
\* not returned leave it to that command to dispose the runtime.
NotDisposedInUse ==
  \A i \in 1..Len(live) :
    live[i].disposing # "no" /\ ~closing => live[i].ops = 0

\* The events of the session go only to connections that are attached to it, however
\* attaching, detaching and the loss of connections cross its opening and disposal.
OnlyAttachedServed == current # 0 => live[current].conns \subseteq attached

\* A session nobody uses is given back: a live session that is idle or broken, with
\* no connection and no operation, does not stay so.
Abandoned(i) ==
  /\ i <= Len(live)
  /\ live[i].disposing # "done" /\ live[i].conns = {} /\ live[i].ops = 0
  /\ live[i].terminal \/ live[i].phase = "idle"

AbandonedEnds == \A i \in 1..MaxLive : []<>~Abandoned(i)

\* "allows every attached client to control a singleton live runtime": a connection
\* the server counts as attached and serves is one the live session of that id knows.
AttachedIsServed ==
  \A c \in attached \cap up :
    closing \/ (current # 0 /\ c \in live[current].conns)
=============================================================================
