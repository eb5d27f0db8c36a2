---------------------------- MODULE PiSnapshots ----------------------------
(***************************************************************************)
(* Server snapshots between pi-server and its clients:                     *)
(*   packages/server/src/snapshots.ts   get, broadcast, performBroadcast   *)
(*   packages/server/src/server.ts      accept, the handshake, sendMessage,*)
(*                                      failProtocol, disconnect, close    *)
(*   packages/client/src/connection.ts  the client's side of the handshake *)
(*   packages/client/src/state.ts       applyServerSnapshot                *)
(*                                                                         *)
(* A snapshot is a revision and a content; the content is abstracted to    *)
(* `world`, the version of the list of sessions (which exist; what changes *)
(* inside one goes out in session snapshots).  One client per connection:  *)
(* a client that reconnects starts from an empty state, so it is another   *)
(* connection here.  The transport is a FIFO that loses what it holds when *)
(* the client goes.                                                        *)
(*                                                                         *)
(* hs[c].at is the await finishHandshake is suspended in:                  *)
(*   none     not called, or returned without a hello                      *)
(*   get      snapshots.get(): revision taken, sessions not read yet       *)
(*   got      sessions read, listModels() or the resumption pending        *)
(*   sending  the send of the hello                                        *)
(*   get2     get() of the catch-up snapshot, got2 likewise                *)
(*   done     returned after the hello                                     *)
(***************************************************************************)
EXTENDS Naturals, Sequences

CONSTANTS
  Conn,       \* connections, in their lifetime at most
  MaxWorld    \* bound: changes of the session list

ASSUME MaxWorldType == MaxWorld \in Nat

VARIABLES
  world,        \* the version of the list of sessions
  owed,         \* changes whose handler has not reached broadcastServerSnapshot yet
  revision,     \* ServerSnapshotPublisher.revision
  queued,       \* performBroadcast calls waiting in broadcastQueue
  cast,         \* the performBroadcast that is running
  stage,        \* ConnectionState.stage
  hs,           \* finishHandshake of each connection
  closing,      \* PiServer.closing
  chan,         \* frames on their way to each client
  client,       \* the client's connection lifecycle
  mirror,       \* ClientState.snapshot
  missed        \* history: no snapshot sent to c since its last read tells of some change

svars == <<owed, revision, queued, cast, stage, hs, closing, missed>>
cvars == <<client, mirror>>
vars == <<world, svars, chan, cvars>>

Stages == {"none", "awaitingHello", "handshaking", "ready", "closing", "closed"}
Terminal == {"closing", "closed"}

\* The connections set: accept() adds to it, disconnect() takes out.  The model
\* leaves open the order in which a broadcast goes through it.
connections == {c \in Conn : stage[c] \notin {"none", "closed"}}

NoCopy == [rev |-> 0, content |-> 0, known |-> FALSE]

\* finishHandshake has returned, without a hello ("none") or after it ("done").
Over(at) == [at |-> at, rev |-> 0, content |-> 0]

Push(c, kind, rev, content) ==
  chan' = [chan EXCEPT ![c] = Append(@, [kind |-> kind, rev |-> rev, content |-> content])]

NoCast == [at |-> "idle", rev |-> 0, content |-> 0, to |-> {}]

Init ==
  /\ world = 0 /\ owed = 0 /\ revision = 0 /\ queued = 0
  /\ cast = NoCast
  /\ stage = [c \in Conn |-> "none"]
  /\ hs = [c \in Conn |-> Over("none")]
  /\ closing = FALSE
  /\ chan = [c \in Conn |-> <<>>]
  /\ client = [c \in Conn |-> "connecting"]
  /\ mirror = [c \in Conn |-> NoCopy]
  /\ missed = [c \in Conn |-> FALSE]

-----------------------------------------------------------------------------
(***************************************************************************)
(* The session manager, as the publisher sees it (PiSessions models it).   *)
(***************************************************************************)

\* handshakeComplete: the hello was sent and the stage became ready.
HandshakeComplete(c) == hs[c].at \in {"get2", "got2", "done"}

\* The handshakes that have already read the sessions: what changes now, they learn
\* from a broadcast or not at all.
HasRead(c) == hs[c].at \notin {"none", "get"} /\ stage[c] # "closed"

\* A session that some client asked for is created, opened or disposed; the
\* handler calls broadcastServerSnapshot only after its own awaits, and not at all
\* when one of them rejects: the session's own snapshot or its disposal.  A server
\* that is closing opens and disposes nothing any more on a client's behalf.
Change(announced) ==
  /\ world < MaxWorld /\ ~closing /\ \E c \in Conn : HandshakeComplete(c)
  /\ world' = world + 1
  /\ owed' = IF announced THEN owed + 1 ELSE owed
  /\ missed' = [c \in Conn |-> missed[c] \/ (~announced /\ HasRead(c))]
  /\ UNCHANGED <<revision, queued, cast, stage, hs, closing, chan, cvars>>

\* broadcast(): performBroadcast runs after every broadcast before it.
Broadcast ==
  /\ owed > 0
  /\ owed' = owed - 1
  /\ queued' = queued + 1
  /\ UNCHANGED <<world, revision, cast, stage, hs, closing, missed, chan, cvars>>

-----------------------------------------------------------------------------
(***************************************************************************)
(* ServerSnapshotPublisher.performBroadcast                                *)
(***************************************************************************)

\* Mutant: the connections of the broadcast are those still in their handshake too.
ReadyConnectionsAny == {c \in connections : stage[c] \notin Terminal}

ReadyConnections == {c \in connections : stage[c] = "ready"}

NextRevision == revision + 1

SkipBroadcast ==
  /\ queued > 0 /\ cast.at = "idle"
  /\ ReadyConnections = {} \/ closing
  /\ queued' = queued - 1
  /\ missed' = [c \in Conn |-> missed[c] \/ (~closing /\ hs[c].at \in {"got", "sending"})]
  /\ UNCHANGED <<world, owed, revision, cast, stage, hs, closing, chan, cvars>>

StartBroadcast ==
  /\ queued > 0 /\ cast.at = "idle"
  /\ ReadyConnections # {} /\ ~closing
  /\ queued' = queued - 1
  /\ revision' = NextRevision
  /\ cast' = [at |-> "reading", rev |-> NextRevision, content |-> 0, to |-> ReadyConnections]
  /\ UNCHANGED <<world, owed, stage, hs, closing, missed, chan, cvars>>

\* listModels() and get(models) with its listSessions().
ReadBroadcast ==
  /\ cast.at = "reading"
  /\ cast' = [cast EXCEPT !.at = "sending", !.content = world]
  /\ missed' = [c \in Conn |-> missed[c] /\ c \notin cast.to]
  /\ UNCHANGED <<world, owed, revision, queued, stage, hs, closing, chan, cvars>>

\* Either of them rejects: the error is reported, nothing is sent, nothing is tried
\* again, and the revision stays taken.
BroadcastFails ==
  /\ cast.at = "reading"
  /\ cast' = NoCast
  /\ missed' = [c \in Conn |-> missed[c] \/ c \in cast.to]
  /\ UNCHANGED <<world, owed, revision, queued, stage, hs, closing, chan, cvars>>

\* sendMessage to one more connection; the loop awaits each send, and after the last
\* one the next broadcast may start.
SendBroadcast ==
  /\ cast.at = "sending"
  /\ \E c \in cast.to :
       /\ IF stage[c] = "closed" THEN UNCHANGED chan
          ELSE Push(c, "event", cast.rev, cast.content)
       /\ cast' = IF cast.to = {c} THEN NoCast ELSE [cast EXCEPT !.to = @ \ {c}]
  /\ UNCHANGED <<world, owed, revision, queued, stage, hs, closing, missed, cvars>>

-----------------------------------------------------------------------------
(***************************************************************************)
(* PiServer: one connection from accept to disconnect                      *)
(***************************************************************************)

\* accept() of a transport connection.
Accept(c) ==
  /\ stage[c] = "none" /\ ~closing
  /\ stage' = [stage EXCEPT ![c] = "awaitingHello"]
  /\ UNCHANGED <<world, owed, revision, queued, cast, hs, closing, missed, chan, cvars>>

\* dispatchMessage of the client's hello: finishHandshake up to its first await,
\* where get() has taken the revision.
ReceiveHello(c) ==
  /\ stage[c] = "awaitingHello" /\ client[c] = "connecting"
  /\ stage' = [stage EXCEPT ![c] = "handshaking"]
  /\ hs' = [hs EXCEPT ![c] = [at |-> "get", rev |-> revision, content |-> 0]]
  /\ UNCHANGED <<world, owed, revision, queued, cast, closing, missed, chan, cvars>>

\* listSessions() of get() reads the world.
ReadSessions(c) ==
  /\ hs[c].at \in {"get", "get2"}
  /\ hs' = [hs EXCEPT ![c].at = IF @ = "get" THEN "got" ELSE "got2", ![c].content = world]
  /\ missed' = [missed EXCEPT ![c] = @ /\ hs[c].at = "get2" /\ hs[c].rev # revision]
  /\ UNCHANGED <<world, owed, revision, queued, cast, stage, closing, chan, cvars>>

\* Back from get(): a connection that is going gets no hello.
SendHello(c) ==
  /\ hs[c].at = "got"
  /\ IF closing \/ stage[c] # "handshaking"
       THEN hs' = [hs EXCEPT ![c] = Over("none")] /\ UNCHANGED chan
       ELSE /\ hs' = [hs EXCEPT ![c].at = "sending"]
            /\ Push(c, "hello", hs[c].rev, hs[c].content)
  /\ UNCHANGED <<world, owed, revision, queued, cast, stage, closing, missed, cvars>>

\* Mutant: the catch-up after the hello is left out.
AfterHelloDone(c) == Over("done")

\* A broadcast that was performed meanwhile has missed this connection: a fresh
\* get() starts, with the revision of now.
AfterHello(c) ==
  IF hs[c].rev # revision THEN [hs[c] EXCEPT !.at = "get2", !.rev = revision]
  ELSE Over("done")

\* The send of the hello has resolved; only now is the connection ready.
HelloSent(c) ==
  /\ hs[c].at = "sending"
  /\ IF stage[c] = "handshaking"
       THEN stage' = [stage EXCEPT ![c] = "ready"] /\ hs' = [hs EXCEPT ![c] = AfterHello(c)]
       ELSE hs' = [hs EXCEPT ![c] = Over("none")] /\ UNCHANGED stage
  /\ UNCHANGED <<world, owed, revision, queued, cast, closing, missed, chan, cvars>>

SendCatchUp(c) ==
  /\ hs[c].at = "got2"
  /\ hs' = [hs EXCEPT ![c] = Over("done")]
  /\ IF stage[c] = "closed" THEN UNCHANGED chan
       ELSE Push(c, "event", hs[c].rev, hs[c].content)
  /\ UNCHANGED <<world, owed, revision, queued, cast, stage, closing, missed, cvars>>

\* failProtocol: the connection is closing and the error is its last frame; one that
\* is already going gets none.
FailConnection(c) ==
  IF stage[c] \in {"awaitingHello", "handshaking", "ready"}
  THEN stage' = [stage EXCEPT ![c] = "closing"] /\ Push(c, "hello_error", 0, 0)
  ELSE UNCHANGED <<stage, chan>>

\* The handshake timeout, or a message the decoder or the stage refuses; also on a
\* connection whose client has its hello.
FailProtocol(c) ==
  /\ stage[c] \in {"awaitingHello", "handshaking", "ready"}
  /\ FailConnection(c)
  /\ UNCHANGED <<world, owed, revision, queued, cast, hs, closing, missed, cvars>>

\* get() rejects, before the hello or in the catch-up after it: finishHandshake's
\* catch fails the connection.
GetRejects(c) ==
  /\ hs[c].at \in {"get", "got", "get2", "got2"}
  /\ hs' = [hs EXCEPT ![c] = Over(IF @.at \in {"get", "got"} THEN "none" ELSE "done")]
  /\ FailConnection(c)
  /\ UNCHANGED <<world, owed, revision, queued, cast, closing, missed, cvars>>

\* disconnect(): the transport closed, failed, or was closed by either side; what
\* the client had not read is lost.  The broadcast follows once the sessions have
\* let the connection go.
Disconnect(c) ==
  /\ stage[c] \notin {"none", "closed"}
  /\ stage' = [stage EXCEPT ![c] = "closed"]
  /\ owed' = IF HandshakeComplete(c) THEN owed + 1 ELSE owed
  /\ chan' = [chan EXCEPT ![c] = <<>>]
  /\ client' = [client EXCEPT ![c] = IF @ \in {"failed", "refused"} THEN @ ELSE "disconnected"]
  /\ missed' = [missed EXCEPT ![c] = FALSE]
  /\ UNCHANGED <<world, revision, queued, cast, hs, closing, mirror>>

\* close(), and closeServerState once the listeners are closed.
Close ==
  /\ ~closing
  /\ closing' = TRUE
  /\ UNCHANGED <<world, owed, revision, queued, cast, stage, hs, missed, chan, cvars>>

CloseServerState ==
  /\ closing /\ \E c \in Conn : stage[c] \notin {"none"} \cup Terminal
  /\ stage' = [c \in Conn |-> IF stage[c] \in {"none", "closed"} THEN stage[c] ELSE "closing"]
  /\ UNCHANGED <<world, owed, revision, queued, cast, hs, closing, missed, chan, cvars>>

-----------------------------------------------------------------------------
(***************************************************************************)
(* PiClient: Connection and ClientState                                    *)
(***************************************************************************)

\* Mutant: the client takes every snapshot for the newest.
IsOlderNever(m, old) == FALSE

\* applyServerSnapshot ignores a snapshot of an earlier revision.
IsOlder(m, old) == old.known /\ m.rev < old.rev

Applied(m, old) ==
  IF IsOlder(m, old) THEN old ELSE [rev |-> m.rev, content |-> m.content, known |-> TRUE]

\* How a client ends: an error it was waiting for is the server's refusal of the
\* handshake; one it gets instead of an event, and any other frame out of place,
\* is a protocol violation to it.
Ending(c, kind) ==
  IF kind # "hello_error" THEN "failed"
  ELSE IF client[c] = "connected" THEN "refused" ELSE "disconnected"

\* #handleMessage: a hello is expected first and never again.
Receive(c) ==
  /\ client[c] \in {"connecting", "connected"} /\ chan[c] # <<>>
  /\ LET m == Head(chan[c])
         expected == (client[c] = "connecting") = (m.kind = "hello")
     IN
       IF m.kind # "hello_error" /\ expected
       THEN /\ client' = [client EXCEPT ![c] = "connected"]
            /\ mirror' = [mirror EXCEPT ![c] = Applied(m, @)]
            /\ chan' = [chan EXCEPT ![c] = Tail(@)]
       ELSE /\ client' = [client EXCEPT ![c] = Ending(c, m.kind)]
            /\ chan' = [chan EXCEPT ![c] = <<>>]
            /\ UNCHANGED mirror
  /\ UNCHANGED <<world, svars>>

Stopped ==
  /\ closing /\ connections = {}
  /\ UNCHANGED vars

Handshake(c) ==
  ReadSessions(c) \/ SendHello(c) \/ HelloSent(c) \/ SendCatchUp(c) \/ GetRejects(c)
Publish ==
  \/ Broadcast \/ SkipBroadcast \/ StartBroadcast
  \/ ReadBroadcast \/ BroadcastFails \/ SendBroadcast

Next ==
  \/ \E announced \in BOOLEAN : Change(announced)
  \/ Publish \/ Close \/ CloseServerState \/ Stopped
  \/ \E c \in Conn :
       \/ Accept(c) \/ ReceiveHello(c) \/ Handshake(c)
       \/ FailProtocol(c) \/ Disconnect(c)
       \/ Receive(c)

Spec == Init /\ [][Next]_vars

\* Continuations run, sends resolve (a transport that stays full fails instead),
\* and delivered frames are read.  Nobody has to connect, change or close.
Fairness ==
  /\ WF_vars(Publish)
  /\ \A c \in Conn : WF_vars(Handshake(c)) /\ WF_vars(Receive(c))

FairSpec == Spec /\ Fairness

-----------------------------------------------------------------------------
(***************************************************************************)
(* Properties                                                              *)
(***************************************************************************)

\* The type invariant of the publisher, the connections and the clients.
STypeOK ==
  /\ world \in 0..MaxWorld /\ owed \in Nat /\ revision \in Nat /\ queued \in Nat
  /\ cast \in [at : {"idle", "reading", "sending"}, rev : Nat, content : Nat, to : SUBSET Conn]
  /\ stage \in [Conn -> Stages]
  /\ hs \in [Conn -> [at : {"none", "get", "got", "sending", "get2", "got2", "done"},
                      rev : Nat, content : Nat]]
  /\ closing \in BOOLEAN
  /\ chan \in [Conn -> Seq([kind : {"hello", "event", "hello_error"}, rev : Nat, content : Nat])]
  /\ client \in [Conn -> {"connecting", "connected", "disconnected", "failed", "refused"}]
  /\ mirror \in [Conn -> [rev : Nat, content : Nat, known : BOOLEAN]]
  /\ missed \in [Conn -> BOOLEAN]

\* No client ever has to drop the connection over the order of the frames: the hello
\* comes first and once, although broadcasts run while handshakes are awaiting.  A
\* client that is connected and still fails has been sent an error by a server that
\* is letting its connection go, never a frame of a connection that goes on.
HelloFirst ==
  \A c \in Conn : client[c] # "failed" /\ (client[c] = "refused" => stage[c] \in Terminal)

\* Every step of the protocol is a step of PiMirror: a client only ever takes over
\* a state the server was really in, in revision order, whatever the order in which
\* handshakes, catch-ups and broadcasts read the sessions and reach it.
Mirror == INSTANCE PiMirror WITH
  Client <- Conn,
  copy <- [c \in Conn |-> IF mirror[c].known
                           THEN {[rev |-> mirror[c].rev, content |-> mirror[c].content]} ELSE {}]

ImplementsMirror == Mirror!MSpec

\* When the changes stop, every connected client ends up with the server's state,
\* unless it missed a change for good: the one broadcast that told of it could not
\* read, was never asked for, or was skipped for want of ready connections while the
\* handshake already had its snapshot, and none has been read for it since.
CatchesUp ==
  \A c \in Conn :
    <>[](stage[c] = "ready" /\ client[c] = "connected" /\ ~closing /\ ~missed[c]
           => mirror[c].content = world)
=============================================================================
