-------------------------- MODULE PiSnapshotsProofs --------------------------
(***************************************************************************)
(* The snapshot protocol of pi-server implements PiMirror, and no client   *)
(* ever has to drop its connection over the order of the frames, for every *)
(* set of connections and every number of changes.                         *)
(***************************************************************************)
EXTENDS PiSnapshots, TLAPS

Frame == [kind : {"hello", "event", "hello_error"}, rev : Nat, content : Nat]

\* What is appended to a sequence, and what is left of one after its head.
LEMMA Appended ==
  ASSUME NEW S, NEW s \in Seq(S), NEW e \in S
  PROVE  /\ Append(s, e) \in Seq(S) /\ Append(s, e) # <<>>
         /\ Len(Append(s, e)) = Len(s) + 1 /\ Len(s) \in Nat
         /\ Append(s, e)[Len(s) + 1] = e
         /\ \A i \in 1..Len(s) : Append(s, e)[i] = s[i]
  OBVIOUS

LEMMA Dropped ==
  ASSUME NEW S, NEW s \in Seq(S), s # <<>>
  PROVE  /\ Tail(s) \in Seq(S) /\ Head(s) = s[1] /\ Head(s) \in S /\ Len(s) \in Nat /\ Len(s) >= 1
         /\ Len(Tail(s)) = Len(s) - 1
         /\ \A i \in 1..Len(s) - 1 : Tail(s)[i] = s[i + 1]
  OBVIOUS

-----------------------------------------------------------------------------
\* Each part of the type invariant is kept by each action.
LEMMA InitSType == Init => STypeOK
  <1> SUFFICES ASSUME Init PROVE STypeOK
    OBVIOUS
  <1>1. chan \in [Conn -> Seq(Frame)]
    BY DEF Init
  <1>2. cast \in [at : {"idle", "reading", "sending"}, rev : Nat, content : Nat, to : SUBSET Conn]
    BY DEF Init, NoCast
  <1>3. hs \in [Conn -> [at : {"none", "get", "got", "sending", "get2", "got2", "done"},
                         rev : Nat, content : Nat]]
    BY DEF Init, Over
  <1>4. /\ stage \in [Conn -> Stages] /\ closing \in BOOLEAN
        /\ client \in [Conn -> {"connecting", "connected", "disconnected", "failed", "refused"}]
        /\ missed \in [Conn -> BOOLEAN]
    BY DEF Init, Stages
  <1>5. mirror \in [Conn -> [rev : Nat, content : Nat, known : BOOLEAN]]
    BY DEF Init, NoCopy
  <1>6. world \in 0..MaxWorld /\ owed \in Nat /\ revision \in Nat /\ queued \in Nat
    BY MaxWorldType DEF Init
  <1> QED BY <1>1, <1>2, <1>3, <1>4, <1>5, <1>6 DEF STypeOK, Frame

\* A send keeps the channels sequences of frames.
LEMMA PushType ==
  ASSUME chan \in [Conn -> Seq(Frame)], NEW c \in Conn, NEW kind \in {"hello", "event", "hello_error"},
         NEW rev \in Nat, NEW content \in Nat, Push(c, kind, rev, content)
  PROVE  chan' \in [Conn -> Seq(Frame)]
  <1> DEFINE f == [kind |-> kind, rev |-> rev, content |-> content]
  <1>1. f \in Frame
    BY DEF Frame
  <1>2. chan' = [chan EXCEPT ![c] = Append(chan[c], f)]
    BY DEF Push
  <1> HIDE DEF f
  <1>3. Append(chan[c], f) \in Seq(Frame)
    BY <1>1, Appended
  <1> QED BY <1>2, <1>3

HsStates == [at : {"none", "get", "got", "sending", "get2", "got2", "done"},
             rev : Nat, content : Nat]

\* The steps of the broadcaster are well typed.
LEMMA PublishTyped == STypeOK /\ Publish => STypeOK'
  <1> SUFFICES ASSUME STypeOK, Publish PROVE STypeOK'
    OBVIOUS
  <1>0. /\ owed \in Nat /\ revision \in Nat /\ queued \in Nat /\ world \in Nat
        /\ cast \in [at : {"idle", "reading", "sending"}, rev : Nat, content : Nat, to : SUBSET Conn]
        /\ chan \in [Conn -> Seq(Frame)]
    BY MaxWorldType DEF STypeOK, Frame
  <1>1. UNCHANGED <<world, stage, hs, closing, cvars>>
    BY DEF Publish, Broadcast, SkipBroadcast, StartBroadcast, ReadBroadcast, BroadcastFails,
           SendBroadcast
  <1>2. owed' \in Nat /\ revision' \in Nat /\ queued' \in Nat
    BY <1>0 DEF Publish, Broadcast, SkipBroadcast, StartBroadcast, ReadBroadcast, BroadcastFails,
                SendBroadcast, NextRevision
  <1>3. missed' \in [Conn -> BOOLEAN]
    BY DEF STypeOK, Publish, Broadcast, SkipBroadcast, StartBroadcast, ReadBroadcast, BroadcastFails,
           SendBroadcast
  <1>4. chan' \in [Conn -> Seq(Frame)]
    <2>1. CASE SendBroadcast
      <3>1. PICK c \in cast.to :
              \/ UNCHANGED chan
              \/ Push(c, "event", cast.rev, cast.content)
        BY <2>1 DEF SendBroadcast
      <3>2. c \in Conn /\ cast.rev \in Nat /\ cast.content \in Nat
        BY <1>0
      <3> QED BY <1>0, <3>1, <3>2, PushType
    <2>2. CASE ~SendBroadcast
      BY <1>0, <2>2 DEF Publish, Broadcast, SkipBroadcast, StartBroadcast, ReadBroadcast, BroadcastFails
    <2> QED BY <2>1, <2>2
  <1>5. cast' \in [at : {"idle", "reading", "sending"}, rev : Nat, content : Nat, to : SUBSET Conn]
    <2>1. CASE Broadcast \/ SkipBroadcast
      BY <1>0, <2>1 DEF Broadcast, SkipBroadcast
    <2>2. CASE StartBroadcast
      BY <1>0, <2>2 DEF StartBroadcast, NextRevision, ReadyConnections, connections
    <2>3. CASE ReadBroadcast
      BY <1>0, <2>3 DEF ReadBroadcast
    <2>4. CASE SendBroadcast
      BY <1>0, <2>4 DEF SendBroadcast, NoCast
    <2>5. CASE BroadcastFails
      BY <1>0, <2>5 DEF BroadcastFails, NoCast
    <2> QED BY <2>1, <2>2, <2>3, <2>4, <2>5 DEF Publish
  <1> QED BY <1>1, <1>2, <1>3, <1>4, <1>5 DEF STypeOK, Frame, cvars

\* The steps of a handshake, from the client's hello to the catch-up, are well typed.
LEMMA HandshakeTyped ==
  ASSUME STypeOK, NEW c \in Conn, ReceiveHello(c) \/ Handshake(c)
  PROVE  STypeOK'
  <1>0. /\ revision \in Nat /\ world \in Nat /\ hs \in [Conn -> HsStates]
        /\ stage \in [Conn -> Stages] /\ chan \in [Conn -> Seq(Frame)]
    BY MaxWorldType DEF STypeOK, Frame, HsStates
  <1>1. hs[c] \in HsStates
    BY <1>0
  <1>2. UNCHANGED <<world, owed, revision, queued, cast, closing, cvars>>
    BY DEF ReceiveHello, Handshake, ReadSessions, SendHello, HelloSent, SendCatchUp, GetRejects
  <1>3. stage' \in [Conn -> Stages]
    BY <1>0 DEF ReceiveHello, Handshake, ReadSessions, SendHello, HelloSent, SendCatchUp,
                GetRejects, FailConnection, Stages
  <1>6. missed' \in [Conn -> BOOLEAN]
    BY DEF STypeOK, ReceiveHello, Handshake, ReadSessions, SendHello, HelloSent, SendCatchUp,
           GetRejects
  <1>4. hs' \in [Conn -> HsStates]
    <2>1. AfterHello(c) \in HsStates
      BY <1>0, <1>1 DEF AfterHello, Over, HsStates
    <2>2. CASE ReceiveHello(c)
      BY <1>0, <2>2 DEF ReceiveHello, HsStates
    <2>3. CASE ReadSessions(c)
      <3> DEFINE r == [hs[c] EXCEPT !.at = IF @ = "get" THEN "got" ELSE "got2", !.content = world]
      <3>1. r \in HsStates
        BY <1>0, <1>1 DEF HsStates
      <3>2. hs' = [hs EXCEPT ![c] = r]
        BY <1>0, <2>3 DEF ReadSessions
      <3> HIDE DEF r
      <3> QED BY <1>0, <3>1, <3>2
    <2>4. /\ Over("none") \in HsStates /\ Over("done") \in HsStates
          /\ [hs[c] EXCEPT !.at = "sending"] \in HsStates
      BY <1>1 DEF Over, HsStates
    <2>5. CASE SendHello(c) \/ SendCatchUp(c) \/ GetRejects(c)
      <3>1. \E r \in {Over("none"), Over("done"), [hs[c] EXCEPT !.at = "sending"]} :
              hs' = [hs EXCEPT ![c] = r]
        BY <1>0, <2>5 DEF SendHello, SendCatchUp, GetRejects
      <3> QED BY <1>0, <2>4, <3>1
    <2>6. CASE HelloSent(c)
      BY <1>0, <2>1, <2>4, <2>6 DEF HelloSent
    <2> QED BY <2>2, <2>3, <2>5, <2>6 DEF Handshake
  <1>5. chan' \in [Conn -> Seq(Frame)]
    <2>1. \/ UNCHANGED chan
          \/ Push(c, "hello", hs[c].rev, hs[c].content)
          \/ Push(c, "event", hs[c].rev, hs[c].content)
          \/ Push(c, "hello_error", 0, 0)
      BY DEF ReceiveHello, Handshake, ReadSessions, SendHello, HelloSent, SendCatchUp, GetRejects,
             FailConnection
    <2>2. hs[c].rev \in Nat /\ hs[c].content \in Nat
      BY <1>1 DEF HsStates
    <2> QED BY <1>0, <2>1, <2>2, PushType
  <1> QED BY <1>2, <1>3, <1>4, <1>5, <1>6 DEF STypeOK, Frame, HsStates, cvars

\* What the client keeps after a frame is well typed.
LEMMA ReceiveTyped ==
  ASSUME STypeOK, NEW c \in Conn, Receive(c)
  PROVE  STypeOK'
  <1>0. /\ chan \in [Conn -> Seq(Frame)] /\ chan[c] \in Seq(Frame) /\ chan[c] # <<>>
        /\ mirror[c] \in [rev : Nat, content : Nat, known : BOOLEAN]
    BY DEF STypeOK, Frame, Receive
  <1> DEFINE m == Head(chan[c])
  <1>1. m \in Frame /\ Tail(chan[c]) \in Seq(Frame)
    BY <1>0, Dropped
  <1>2. Applied(m, mirror[c]) \in [rev : Nat, content : Nat, known : BOOLEAN]
    BY <1>0, <1>1 DEF Applied, Frame
  <1>3. /\ UNCHANGED <<world, svars>>
        /\ \/ mirror' = mirror
           \/ mirror' = [mirror EXCEPT ![c] = Applied(m, mirror[c])]
        /\ \/ chan' = [chan EXCEPT ![c] = Tail(chan[c])]
           \/ chan' = [chan EXCEPT ![c] = <<>>]
        /\ \E st \in {"connected", "disconnected", "failed", "refused"} :
             client' = [client EXCEPT ![c] = st]
    BY DEF Receive, Ending
  <1> HIDE DEF m
  <1>4. chan' \in [Conn -> Seq(Frame)]
    <2>1. <<>> \in Seq(Frame)
      OBVIOUS
    <2> QED BY <1>0, <1>1, <1>3, <2>1
  <1>5. mirror' \in [Conn -> [rev : Nat, content : Nat, known : BOOLEAN]]
    BY <1>2, <1>3 DEF STypeOK
  <1>6. client' \in [Conn -> {"connecting", "connected", "disconnected", "failed", "refused"}]
    BY <1>3 DEF STypeOK
  <1> QED BY <1>3, <1>4, <1>5, <1>6 DEF STypeOK, svars, Frame

\* So is every other step.
LEMMA NextSType == STypeOK /\ [Next]_vars => STypeOK'
  <1> SUFFICES ASSUME STypeOK, [Next]_vars PROVE STypeOK'
    OBVIOUS
  <1>0. chan \in [Conn -> Seq(Frame)]
    BY DEF STypeOK, Frame
  <1>1. ASSUME NEW announced \in BOOLEAN, Change(announced) PROVE STypeOK'
    BY <1>1, MaxWorldType DEF Change, STypeOK, cvars
  <1>2. CASE Close \/ Stopped \/ UNCHANGED vars
    BY <1>2 DEF Close, Stopped, vars, svars, STypeOK, cvars
  <1>3. CASE CloseServerState
    BY <1>3 DEF CloseServerState, STypeOK, Stages, cvars
  <1>4. ASSUME NEW c \in Conn, Accept(c) PROVE STypeOK'
    BY <1>4 DEF Accept, STypeOK, Stages, cvars
  <1>5. ASSUME NEW c \in Conn, FailProtocol(c) PROVE STypeOK'
    <2>1. chan' \in [Conn -> Seq(Frame)]
      BY <1>0, <1>5, PushType DEF FailProtocol, FailConnection
    <2> QED BY <1>5, <2>1 DEF FailProtocol, FailConnection, STypeOK, Stages, cvars, Frame
  <1>6. ASSUME NEW c \in Conn, Disconnect(c) PROVE STypeOK'
    <2>1. chan' \in [Conn -> Seq(Frame)]
      <3>1. <<>> \in Seq(Frame)
        OBVIOUS
      <3> QED BY <1>0, <1>6, <3>1 DEF Disconnect
    <2> QED BY <1>6, <2>1 DEF Disconnect, STypeOK, Stages, Frame
  <1> QED BY <1>1, <1>2, <1>3, <1>4, <1>5, <1>6, PublishTyped, HandshakeTyped, ReceiveTyped DEF Next

\* Type correctness of the server, the channels and the clients.
THEOREM STypeCorrect == Spec => []STypeOK
  BY InitSType, NextSType, PTL DEF Spec

-----------------------------------------------------------------------------
\* Every content that was read, is on its way or was taken over is one the world
\* had: no snapshot tells of a state that never was.
PastInv ==
  /\ cast.content <= world
  /\ \A c \in Conn : hs[c].content <= world
  /\ \A c \in Conn : \A i \in 1..Len(chan[c]) : chan[c][i].content <= world

\* A frame with a content of the past keeps the channels in the past.
LEMMA PushPast ==
  ASSUME STypeOK, PastInv, NEW c \in Conn, NEW kind \in {"hello", "event", "hello_error"},
         NEW rev \in Nat, NEW content \in Nat, content <= world,
         Push(c, kind, rev, content)
  PROVE  \A d \in Conn : \A i \in 1..Len(chan'[d]) : chan'[d][i].content <= world
  <1> DEFINE f == [kind |-> kind, rev |-> rev, content |-> content]
  <1>1. f \in Frame /\ f.content = content
    BY DEF Frame
  <1>2. chan' = [chan EXCEPT ![c] = Append(chan[c], f)] /\ chan \in [Conn -> Seq(Frame)]
    BY DEF Push, STypeOK, Frame
  <1> HIDE DEF f
  <1>3. /\ Len(Append(chan[c], f)) = Len(chan[c]) + 1 /\ Len(chan[c]) \in Nat
        /\ Append(chan[c], f)[Len(chan[c]) + 1] = f
        /\ \A i \in 1..Len(chan[c]) : Append(chan[c], f)[i] = chan[c][i]
    BY <1>1, <1>2, Appended
  <1>4. \A i \in 1..Len(Append(chan[c], f)) : Append(chan[c], f)[i].content <= world
    <2> SUFFICES ASSUME NEW i \in 1..Len(Append(chan[c], f))
                 PROVE  Append(chan[c], f)[i].content <= world
      OBVIOUS
    <2>1. i \in 1..Len(chan[c]) \/ i = Len(chan[c]) + 1
      BY <1>3
    <2> QED BY <1>1, <1>3, <2>1 DEF PastInv
  <1>5. \A d \in Conn : chan'[d] = IF d = c THEN Append(chan[c], f) ELSE chan[d]
    BY <1>2
  <1> QED BY <1>4, <1>5 DEF PastInv

\* What each step of finishHandshake makes of its own state.
LEMMA HandshakeMoves ==
  ASSUME STypeOK, NEW c \in Conn
  PROVE  /\ ReceiveHello(c) => /\ \A d \in Conn \ {c} : hs'[d] = hs[d]
                               /\ hs'[c].at = "get" /\ hs'[c].content = 0
         /\ ReadSessions(c) => /\ \A d \in Conn \ {c} : hs'[d] = hs[d]
                               /\ \/ hs[c].at = "get" /\ hs'[c].at = "got"
                                  \/ hs[c].at = "get2" /\ hs'[c].at = "got2"
                               /\ hs'[c].content = world
         /\ SendHello(c) => /\ \A d \in Conn \ {c} : hs'[d] = hs[d]
                            /\ hs'[c].at = IF closing \/ stage[c] # "handshaking"
                                           THEN "none" ELSE "sending"
                            /\ hs'[c].content \in {0, hs[c].content}
         /\ HelloSent(c) => /\ \A d \in Conn \ {c} : hs'[d] = hs[d]
                            /\ IF stage[c] = "handshaking" THEN hs'[c].at \in {"get2", "done"}
                                                           ELSE hs'[c].at = "none"
                            /\ hs'[c].content \in {0, hs[c].content}
         /\ SendCatchUp(c) => /\ \A d \in Conn \ {c} : hs'[d] = hs[d]
                              /\ hs'[c].at = "done" /\ hs'[c].content = 0
         /\ GetRejects(c) => /\ \A d \in Conn \ {c} : hs'[d] = hs[d]
                             /\ hs'[c].at = IF hs[c].at \in {"get", "got"} THEN "none" ELSE "done"
                             /\ hs[c].at \in {"get", "got", "get2", "got2"}
                             /\ hs'[c].content = 0
  <1>0. /\ revision \in Nat /\ world \in Nat /\ hs \in [Conn -> HsStates] /\ hs[c] \in HsStates
    BY MaxWorldType DEF STypeOK, HsStates
  <1>1. ASSUME NEW r \in HsStates, hs' = [hs EXCEPT ![c] = r]
        PROVE  hs'[c] = r /\ \A d \in Conn \ {c} : hs'[d] = hs[d]
    BY <1>0, <1>1
  <1>2. ASSUME NEW at \in {"none", "done"}, hs' = [hs EXCEPT ![c] = Over(at)]
        PROVE  /\ hs'[c].at = at /\ hs'[c].content = 0
               /\ \A d \in Conn \ {c} : hs'[d] = hs[d]
    <2>1. Over(at) \in HsStates /\ Over(at).at = at /\ Over(at).content = 0
      BY DEF Over, HsStates
    <2> QED BY <1>1, <1>2, <2>1
  <1>3. ASSUME ReceiveHello(c)
        PROVE  /\ hs'[c].at = "get" /\ hs'[c].content = 0
               /\ \A d \in Conn \ {c} : hs'[d] = hs[d]
    BY <1>0, <1>3 DEF ReceiveHello
  <1>4. ASSUME ReadSessions(c)
        PROVE  /\ \/ hs[c].at = "get" /\ hs'[c].at = "got"
                  \/ hs[c].at = "get2" /\ hs'[c].at = "got2"
               /\ hs'[c].content = world
               /\ \A d \in Conn \ {c} : hs'[d] = hs[d]
    <2> DEFINE to == IF hs[c].at = "get" THEN "got" ELSE "got2"
               r == [hs[c] EXCEPT !.at = to, !.content = world]
    <2>1. r \in HsStates /\ r.at = to /\ r.content = world
      BY <1>0 DEF HsStates
    <2>2. hs' = [hs EXCEPT ![c] = r] /\ hs[c].at \in {"get", "get2"}
      BY <1>0, <1>4 DEF ReadSessions
    <2> HIDE DEF r
    <2> QED BY <1>1, <2>1, <2>2
  <1>5. ASSUME HelloSent(c), stage[c] = "handshaking"
        PROVE  /\ hs'[c].at \in {"get2", "done"} /\ hs'[c].content \in {0, hs[c].content}
               /\ \A d \in Conn \ {c} : hs'[d] = hs[d]
    <2>1. /\ AfterHello(c) \in HsStates /\ AfterHello(c).at \in {"get2", "done"}
          /\ AfterHello(c).content \in {0, hs[c].content}
      BY <1>0 DEF AfterHello, Over, HsStates
    <2>2. hs' = [hs EXCEPT ![c] = AfterHello(c)]
      BY <1>5 DEF HelloSent
    <2> QED BY <1>1, <2>1, <2>2
  <1>6. HelloSent(c) /\ stage[c] # "handshaking" => hs' = [hs EXCEPT ![c] = Over("none")]
    BY DEF HelloSent
  <1>7. SendHello(c) /\ (closing \/ stage[c] # "handshaking") => hs' = [hs EXCEPT ![c] = Over("none")]
    BY DEF SendHello
  <1>8. SendCatchUp(c) => hs' = [hs EXCEPT ![c] = Over("done")]
    BY DEF SendCatchUp
  <1>9. ASSUME SendHello(c), ~(closing \/ stage[c] # "handshaking")
        PROVE  /\ hs'[c].at = "sending" /\ hs'[c].content = hs[c].content
               /\ \A d \in Conn \ {c} : hs'[d] = hs[d]
    <2> DEFINE r == [hs[c] EXCEPT !.at = "sending"]
    <2>1. r \in HsStates /\ r.at = "sending" /\ r.content = hs[c].content
      BY <1>0 DEF HsStates
    <2>2. hs' = [hs EXCEPT ![c] = r]
      BY <1>0, <1>9 DEF SendHello
    <2> HIDE DEF r
    <2> QED BY <1>1, <2>1, <2>2
  <1>10. GetRejects(c) =>
           /\ hs' = [hs EXCEPT ![c] = Over(IF hs[c].at \in {"get", "got"} THEN "none" ELSE "done")]
           /\ hs[c].at \in {"get", "got", "get2", "got2"}
    BY DEF GetRejects
  <1> QED BY <1>2, <1>3, <1>4, <1>5, <1>6, <1>7, <1>8, <1>9, <1>10

\* Nothing is ever read before it happened.
LEMMA NextPast == STypeOK /\ PastInv /\ [Next]_vars => PastInv'
  <1> SUFFICES ASSUME STypeOK, PastInv, [Next]_vars PROVE PastInv'
    OBVIOUS
  <1>0. /\ world \in Nat /\ revision \in Nat
        /\ cast \in [at : {"idle", "reading", "sending"}, rev : Nat, content : Nat, to : SUBSET Conn]
        /\ hs \in [Conn -> HsStates] /\ chan \in [Conn -> Seq(Frame)]
    BY MaxWorldType DEF STypeOK, HsStates, Frame
  <1>1. ASSUME NEW announced \in BOOLEAN, Change(announced) PROVE PastInv'
    <2>1. world' = world + 1 /\ UNCHANGED <<cast, hs, chan>>
      BY <1>1 DEF Change
    <2>2. \A c \in Conn : hs[c].content \in Nat
      BY <1>0 DEF HsStates
    <2>3. \A c \in Conn : \A i \in 1..Len(chan[c]) : chan[c][i].content \in Nat
      <3> SUFFICES ASSUME NEW c \in Conn, NEW i \in 1..Len(chan[c])
                   PROVE  chan[c][i].content \in Nat
        OBVIOUS
      <3>1. chan[c][i] \in Frame
        BY <1>0
      <3> QED BY <3>1 DEF Frame
    <2>4. cast.content \in Nat
      BY <1>0
    <2>5. \A n \in Nat : n <= world => n <= world + 1
      BY <1>0
    <2> QED BY <2>1, <2>2, <2>3, <2>4, <2>5 DEF PastInv
  <1>2. CASE Close \/ CloseServerState \/ Stopped \/ UNCHANGED vars
    BY <1>2 DEF Close, CloseServerState, Stopped, vars, svars, PastInv
  <1>3. CASE Broadcast \/ SkipBroadcast
    BY <1>3 DEF Broadcast, SkipBroadcast, PastInv
  <1>4. CASE StartBroadcast
    BY <1>0, <1>4 DEF StartBroadcast, PastInv
  <1>5. CASE ReadBroadcast
    BY <1>0, <1>5 DEF ReadBroadcast, PastInv
  <1>6. CASE SendBroadcast
    <2>1. PICK c \in cast.to : \/ UNCHANGED chan
                               \/ Push(c, "event", cast.rev, cast.content)
      BY <1>6 DEF SendBroadcast
    <2>2. /\ c \in Conn /\ cast.rev \in Nat /\ cast.content \in Nat
      BY <1>0
    <2>3. \A d \in Conn : \A i \in 1..Len(chan'[d]) : chan'[d][i].content <= world
      BY <2>1, <2>2, PushPast DEF PastInv
    <2>4. cast'.content \in {0, cast.content} /\ UNCHANGED <<world, hs>>
      BY <1>0, <1>6 DEF SendBroadcast, NoCast
    <2> QED BY <1>0, <2>3, <2>4 DEF PastInv
  <1>7. CASE BroadcastFails
    BY <1>0, <1>7 DEF BroadcastFails, NoCast, PastInv
  <1>8. ASSUME NEW c \in Conn, Accept(c) PROVE PastInv'
    BY <1>8 DEF Accept, PastInv
  <1>9. ASSUME NEW c \in Conn, ReceiveHello(c) \/ ReadSessions(c) PROVE PastInv'
    <2>1. UNCHANGED <<world, cast, chan>>
      BY <1>9 DEF ReceiveHello, ReadSessions
    <2>2. hs'[c].content \in {0, world} /\ \A d \in Conn \ {c} : hs'[d] = hs[d]
      BY <1>9, HandshakeMoves
    <2>3. \A d \in Conn : hs'[d].content <= world
      BY <1>0, <2>2 DEF PastInv
    <2> QED BY <2>1, <2>3 DEF PastInv
  <1>10. ASSUME NEW c \in Conn, SendHello(c) \/ SendCatchUp(c) PROVE PastInv'
    <2>1. \/ UNCHANGED chan
          \/ Push(c, "hello", hs[c].rev, hs[c].content)
          \/ Push(c, "event", hs[c].rev, hs[c].content)
      BY <1>10 DEF SendHello, SendCatchUp
    <2>2. hs[c].rev \in Nat /\ hs[c].content \in Nat /\ hs[c].content <= world
      BY <1>0 DEF HsStates, PastInv
    <2>3. \A d \in Conn : \A i \in 1..Len(chan'[d]) : chan'[d][i].content <= world
      BY <2>1, <2>2, PushPast DEF PastInv
    <2>4. UNCHANGED <<world, cast>> /\ \A d \in Conn : \/ hs'[d].content = 0
                                                  \/ hs'[d].content = hs[d].content
      BY <1>10, HandshakeMoves DEF SendHello, SendCatchUp
    <2>5. \A d \in Conn : hs'[d].content <= world
      BY <1>0, <2>4, 0 <= world DEF PastInv
    <2> QED BY <2>3, <2>4, <2>5 DEF PastInv
  <1>11. ASSUME NEW c \in Conn, HelloSent(c) PROVE PastInv'
    <2>1. UNCHANGED <<world, cast, chan>> /\ \A d \in Conn : \/ hs'[d].content = 0
                                                  \/ hs'[d].content = hs[d].content
      BY <1>11, HandshakeMoves DEF HelloSent
    <2>2. \A d \in Conn : hs'[d].content <= world
      BY <1>0, <2>1, 0 <= world DEF PastInv
    <2> QED BY <2>1, <2>2 DEF PastInv
  <1>12. ASSUME NEW c \in Conn, FailProtocol(c) \/ GetRejects(c) PROVE PastInv'
    <2>1. \A d \in Conn : \A i \in 1..Len(chan'[d]) : chan'[d][i].content <= world
      <3>1. UNCHANGED chan \/ Push(c, "hello_error", 0, 0)
        BY <1>12 DEF FailProtocol, GetRejects, FailConnection
      <3> QED BY <1>0, <3>1, PushPast DEF PastInv
    <2>2. UNCHANGED <<world, cast>> /\ \A d \in Conn : \/ hs'[d].content = 0
                                                  \/ hs'[d].content = hs[d].content
      BY <1>12, HandshakeMoves DEF FailProtocol, GetRejects
    <2>3. \A d \in Conn : hs'[d].content <= world
      BY <1>0, <2>2, 0 <= world DEF PastInv
    <2> QED BY <2>1, <2>2, <2>3 DEF PastInv
  <1>13. ASSUME NEW c \in Conn, Disconnect(c) \/ Receive(c) PROVE PastInv'
    <2>1. /\ UNCHANGED <<world, cast, hs>>
          /\ \/ chan' = [chan EXCEPT ![c] = <<>>]
             \/ chan[c] # <<>> /\ chan' = [chan EXCEPT ![c] = Tail(chan[c])]
      BY <1>13 DEF Disconnect, Receive, svars
    <2>2. CASE chan' = [chan EXCEPT ![c] = <<>>]
      <3>1. \A d \in Conn : chan'[d] = IF d = c THEN <<>> ELSE chan[d]
        BY <1>0, <2>2
      <3> QED BY <2>1, <3>1 DEF PastInv
    <2>3. CASE chan[c] # <<>> /\ chan' = [chan EXCEPT ![c] = Tail(chan[c])]
      <3>1. /\ Len(Tail(chan[c])) = Len(chan[c]) - 1 /\ Len(chan[c]) \in Nat
            /\ \A i \in 1..Len(chan[c]) - 1 : Tail(chan[c])[i] = chan[c][i + 1]
        BY <1>0, <2>3, Dropped
      <3>2. \A i \in 1..Len(Tail(chan[c])) : Tail(chan[c])[i].content <= world
        BY <3>1 DEF PastInv
      <3>3. \A d \in Conn : chan'[d] = IF d = c THEN Tail(chan[c]) ELSE chan[d]
        BY <1>0, <2>3
      <3> QED BY <2>1, <3>2, <3>3 DEF PastInv
    <2> QED BY <2>1, <2>2, <2>3
  <1> QED BY <1>1, <1>2, <1>3, <1>4, <1>5, <1>6, <1>7, <1>8, <1>9, <1>10, <1>11, <1>12, <1>13
          DEF Next, Publish, Handshake

\* What a client has taken over at any time is PiMirror's copy, and every step maps
\* to a Move, a Learn or a stutter.
THEOREM SnapshotsImplementMirror == Spec => ImplementsMirror
  <1> DEFINE copy(c) == IF mirror[c].known
                        THEN {[rev |-> mirror[c].rev, content |-> mirror[c].content]} ELSE {}
             cs == [c \in Conn |-> copy(c)]
  <1>1. Init => Mirror!MInit
    BY DEF Init, Mirror!MInit, NoCopy
  <1>2. Init => PastInv
    BY DEF Init, PastInv, NoCast, Over
  <1>3. STypeOK /\ PastInv /\ [Next]_vars => [Mirror!MNext]_<<world, cs>>
    <2> SUFFICES ASSUME STypeOK, PastInv, Next PROVE Mirror!MNext \/ UNCHANGED <<world, cs>>
      BY DEF vars, cvars
    <2>1. ASSUME NEW announced \in BOOLEAN, Change(announced) PROVE Mirror!MNext
      BY <2>1 DEF Change, cvars, Mirror!MNext, Mirror!Move
    <2>2. ASSUME NEW c \in Conn, Receive(c), mirror' = [mirror EXCEPT ![c] = Applied(Head(chan[c]), @)],
                 ~IsOlder(Head(chan[c]), mirror[c])
          PROVE  Mirror!MNext
      <3> DEFINE m == Head(chan[c])
      <3>1. m \in Frame /\ m = chan[c][1] /\ 1 \in 1..Len(chan[c])
        <4>1. chan[c] \in Seq(Frame) /\ chan[c] # <<>>
          BY <2>2 DEF STypeOK, Frame, Receive
        <4> QED BY <4>1, Dropped
      <3>2. m.rev \in Nat /\ m.content <= world
        BY <3>1 DEF PastInv, Frame
      <3>3. world' = world
        BY <2>2 DEF Receive
      <3> HIDE DEF m
      <3>4. mirror'[c] = [rev |-> m.rev, content |-> m.content, known |-> TRUE]
            /\ \A d \in Conn \ {c} : mirror'[d] = mirror[d]
        BY <2>2 DEF STypeOK, Applied, m
      <3>5. mirror[c].known => mirror[c].rev <= m.rev
        <4>1. mirror[c].known \in BOOLEAN /\ mirror[c].rev \in Nat
          BY DEF STypeOK
        <4> QED BY <2>2, <3>2, <4>1 DEF IsOlder, m
      <3>6. cs'[c] = {[rev |-> m.rev, content |-> m.content]}
        BY <3>4
      <3>7. cs' = [cs EXCEPT ![c] = cs'[c]]
        BY <3>4
      <3>8. \A new \in cs'[c] : new.content <= world /\ \A old \in cs[c] : old.rev <= new.rev
        BY <3>2, <3>5, <3>6
      <3>9. Mirror!Learn(c)
        BY <3>3, <3>6, <3>7, <3>8 DEF Mirror!Learn
      <3> QED BY <3>9 DEF Mirror!MNext
    <2>3. ASSUME NEW c \in Conn, Receive(c),
                 \/ mirror' = mirror
                 \/ /\ mirror' = [mirror EXCEPT ![c] = Applied(Head(chan[c]), @)]
                    /\ IsOlder(Head(chan[c]), mirror[c])
          PROVE  UNCHANGED <<world, cs>>
      <3>1. mirror' = mirror
        BY <2>3 DEF Applied, STypeOK
      <3> QED BY <2>3, <3>1 DEF Receive
    <2>4. ASSUME NEW c \in Conn, Receive(c) PROVE Mirror!MNext \/ UNCHANGED <<world, cs>>
      <3>1. \/ mirror' = mirror
            \/ mirror' = [mirror EXCEPT ![c] = Applied(Head(chan[c]), @)]
        BY <2>4 DEF Receive
      <3> QED BY <2>2, <2>3, <2>4, <3>1
    <2>5. CASE Publish \/ Close \/ CloseServerState \/ Stopped
      <3>1. world' = world /\ mirror' = mirror
        BY <2>5 DEF Publish, Broadcast, SkipBroadcast, StartBroadcast, ReadBroadcast, BroadcastFails,
                    SendBroadcast, Close, CloseServerState, Stopped, vars, cvars
      <3> QED BY <3>1
    <2>6. ASSUME NEW c \in Conn,
                 \/ Accept(c) \/ ReceiveHello(c) \/ Handshake(c) \/ FailProtocol(c) \/ Disconnect(c)
          PROVE  UNCHANGED <<world, cs>>
      <3>1. world' = world /\ mirror' = mirror
        BY <2>6 DEF Accept, ReceiveHello, Handshake, ReadSessions, SendHello, HelloSent,
                    SendCatchUp, GetRejects, FailProtocol, Disconnect, cvars
      <3> QED BY <3>1
    <2> QED BY <2>1, <2>4, <2>5, <2>6 DEF Next
  <1>4. Spec => []PastInv
    BY <1>2, NextPast, STypeCorrect, PTL DEF Spec
  <1> QED BY <1>1, <1>3, <1>4, STypeCorrect, PTL DEF Spec, ImplementsMirror, Mirror!MSpec

-----------------------------------------------------------------------------
HelloOut(c) == hs[c].at = "sending" \/ HandshakeComplete(c)

\* How far the handshake has come in each stage of the connection: only connections
\* whose hello is out are ready or on a broadcast's list, and before the hello
\* nothing was sent and the client waits.
StageInv ==
  \A c \in Conn :
    /\ stage[c] \in {"none", "awaitingHello"} => hs[c].at = "none"
    /\ stage[c] \in {"none", "awaitingHello", "handshaking"} /\ ~HelloOut(c)
         => chan[c] = <<>> /\ client[c] = "connecting"
    /\ stage[c] = "ready" => HandshakeComplete(c)
    /\ c \in cast.to => HandshakeComplete(c)

\* What is in a channel: the hello at most at its head, which a client that waits for
\* it finds there once it was sent.
FramesInv ==
  \A c \in Conn :
    /\ client[c] = "connecting" /\ HelloOut(c) => chan[c] # <<>>
    /\ client[c] = "connecting" /\ chan[c] # <<>> => chan[c][1].kind # "event"
    /\ client[c] = "connected" /\ chan[c] # <<>> => chan[c][1].kind # "hello"
    /\ \A i \in 2..Len(chan[c]) : chan[c][i].kind # "hello"
    /\ client[c] # "failed"

\* An error on its way, or one that a connected client has read, was sent to a
\* connection the server is letting go.
RefusedInv ==
  \A c \in Conn :
    /\ client[c] = "refused" => stage[c] \in Terminal
    /\ \A i \in 1..Len(chan[c]) : chan[c][i].kind = "hello_error" => stage[c] \in Terminal

OrderInv == StageInv /\ FramesInv

\* A step that touches one handshake and sends nothing keeps the order of frames if
\* the hello of no connection that still waits for it goes out.
LEMMA SilentKeepsFrames ==
  ASSUME FramesInv, UNCHANGED <<chan, client>>, \A c \in Conn : HelloOut(c)' => HelloOut(c)
  PROVE  FramesInv'
  BY DEF FramesInv

\* Sending an event to a client whose hello is out, or the error that ends the
\* connection, keeps the order of frames.
LEMMA PushKeepsFrames ==
  ASSUME STypeOK, FramesInv, NEW c \in Conn, NEW kind \in {"event", "hello_error"},
         NEW rev \in Nat, NEW content \in Nat, Push(c, kind, rev, content), client' = client,
         kind = "event" => HelloOut(c), \A d \in Conn : HelloOut(d)' => HelloOut(d)
  PROVE  FramesInv'
  <1> DEFINE f == [kind |-> kind, rev |-> rev, content |-> content]
             s == Append(chan[c], f)
  <1>1. f \in Frame /\ f.kind = kind
    BY DEF Frame
  <1>2. chan' = [chan EXCEPT ![c] = s] /\ chan \in [Conn -> Seq(Frame)]
    BY DEF Push, STypeOK, Frame
  <1> HIDE DEF f
  <1>3. /\ Len(s) = Len(chan[c]) + 1 /\ Len(chan[c]) \in Nat /\ s # <<>>
        /\ s[Len(chan[c]) + 1] = f
        /\ \A i \in 1..Len(chan[c]) : s[i] = chan[c][i]
    BY <1>1, <1>2, Appended
  <1>4. chan[c] = <<>> <=> Len(chan[c]) = 0
    BY <1>2
  <1> HIDE DEF s
  <1>5. \A i \in 2..Len(s) : s[i].kind # "hello"
    <2> SUFFICES ASSUME NEW i \in 2..Len(s) PROVE s[i].kind # "hello"
      OBVIOUS
    <2>1. (i \in 1..Len(chan[c]) /\ i \in 2..Len(chan[c])) \/ i = Len(chan[c]) + 1
      BY <1>3
    <2> QED BY <1>1, <1>3, <2>1 DEF FramesInv
  <1>6. s[1] = IF chan[c] = <<>> THEN f ELSE chan[c][1]
    BY <1>3, <1>4
  <1>7. \A d \in Conn : chan'[d] = IF d = c THEN s ELSE chan[d]
    BY <1>2
  <1>8. chan[c] = <<>> => /\ client[c] = "connecting" => kind = "hello_error"
                          /\ kind # "hello"
    BY DEF FramesInv
  <1> QED BY <1>1, <1>3, <1>5, <1>6, <1>7, <1>8 DEF FramesInv

\* Nothing before the hello, and no second one.
LEMMA NextOrder == STypeOK /\ OrderInv /\ [Next]_vars => OrderInv'
  <1> SUFFICES ASSUME STypeOK, StageInv, FramesInv, [Next]_vars PROVE StageInv' /\ FramesInv'
    BY DEF OrderInv
  <1>0. /\ cast \in [at : {"idle", "reading", "sending"}, rev : Nat, content : Nat, to : SUBSET Conn]
        /\ hs \in [Conn -> HsStates] /\ chan \in [Conn -> Seq(Frame)] /\ stage \in [Conn -> Stages]
        /\ client \in [Conn -> {"connecting", "connected", "disconnected", "failed", "refused"}]
    BY DEF STypeOK, HsStates, Frame
  <1>1. CASE \/ \E announced \in BOOLEAN : Change(announced)
             \/ Close \/ Stopped \/ Broadcast \/ SkipBroadcast \/ UNCHANGED vars
    <2>1. UNCHANGED <<cast, hs, stage, chan, client>>
      BY <1>1 DEF Change, Close, Stopped, Broadcast, SkipBroadcast, vars, svars, cvars
    <2> QED BY <2>1 DEF StageInv, FramesInv, HelloOut, HandshakeComplete
  <1>2. CASE CloseServerState
    <2>1. UNCHANGED <<cast, hs, chan, client>>
          /\ \A c \in Conn : stage'[c] = stage[c] \/ stage'[c] = "closing"
      BY <1>2 DEF CloseServerState, cvars
    <2> QED BY <2>1 DEF StageInv, FramesInv, HelloOut, HandshakeComplete
  <1>3. CASE StartBroadcast \/ ReadBroadcast \/ BroadcastFails
    <2>1. UNCHANGED <<hs, stage, chan, client>>
      BY <1>3 DEF StartBroadcast, ReadBroadcast, BroadcastFails, cvars
    <2>2. \A c \in cast'.to : c \in cast.to \/ stage[c] = "ready"
      <3>1. CASE StartBroadcast
        BY <3>1 DEF StartBroadcast, ReadyConnections
      <3>2. CASE ReadBroadcast
        BY <1>0, <3>2 DEF ReadBroadcast
      <3>3. CASE BroadcastFails
        BY <3>3 DEF BroadcastFails, NoCast
      <3> QED BY <1>3, <3>1, <3>2, <3>3
    <2> QED BY <2>1, <2>2 DEF StageInv, FramesInv, HelloOut, HandshakeComplete
  <1>4. CASE SendBroadcast
    <2>1. PICK c \in cast.to : /\ \/ UNCHANGED chan
                                  \/ Push(c, "event", cast.rev, cast.content)
                               /\ cast' = IF cast.to = {c} THEN NoCast
                                          ELSE [cast EXCEPT !.to = @ \ {c}]
      BY <1>4 DEF SendBroadcast
    <2>2. /\ c \in Conn /\ cast.rev \in Nat /\ cast.content \in Nat
          /\ cast'.to = cast.to \ {c} /\ UNCHANGED <<hs, stage, client>>
      BY <1>0, <1>4, <2>1 DEF SendBroadcast, NoCast, cvars
    <2>3. HandshakeComplete(c) /\ HelloOut(c)
      BY <2>1, <2>2 DEF StageInv, HelloOut
    <2>4. FramesInv'
      <3>1. \A d \in Conn : HelloOut(d)' => HelloOut(d)
        BY <2>2 DEF HelloOut, HandshakeComplete
      <3> QED BY <2>1, <2>2, <2>3, <3>1, PushKeepsFrames, SilentKeepsFrames
    <2>5. \A d \in Conn : ~HelloOut(d) => chan'[d] = chan[d]
      BY <1>0, <2>1, <2>3 DEF Push
    <2> QED BY <2>2, <2>4, <2>5 DEF StageInv, HelloOut, HandshakeComplete
  <1>5. ASSUME NEW c \in Conn, Accept(c) PROVE StageInv' /\ FramesInv'
    BY <1>0, <1>5 DEF Accept, StageInv, FramesInv, HelloOut, HandshakeComplete, cvars
  <1>6. ASSUME NEW c \in Conn, ReceiveHello(c) PROVE StageInv' /\ FramesInv'
    <2>1. /\ stage[c] = "awaitingHello" /\ stage' = [stage EXCEPT ![c] = "handshaking"]
          /\ UNCHANGED <<cast, chan, client>>
      BY <1>6 DEF ReceiveHello, cvars
    <2>2. hs'[c].at = "get" /\ \A d \in Conn \ {c} : hs'[d] = hs[d]
      BY <1>6, HandshakeMoves
    <2> QED BY <1>0, <2>1, <2>2 DEF StageInv, FramesInv, HelloOut, HandshakeComplete
  <1>7. ASSUME NEW c \in Conn, ReadSessions(c) PROVE StageInv' /\ FramesInv'
    <2>1. UNCHANGED <<cast, chan, client, stage>>
      BY <1>7 DEF ReadSessions, cvars
    <2>2. /\ \/ hs[c].at = "get" /\ hs'[c].at = "got"
             \/ hs[c].at = "get2" /\ hs'[c].at = "got2"
          /\ \A d \in Conn \ {c} : hs'[d] = hs[d]
      BY <1>7, HandshakeMoves
    <2> QED BY <1>0, <2>1, <2>2 DEF StageInv, FramesInv, HelloOut, HandshakeComplete
  <1>8. ASSUME NEW c \in Conn, SendHello(c) PROVE StageInv' /\ FramesInv'
    <2>1. hs[c].at = "got" /\ ~HelloOut(c) /\ UNCHANGED <<cast, client, stage>>
      BY <1>8 DEF SendHello, cvars, HelloOut, HandshakeComplete
    <2>2. /\ hs'[c].at = IF closing \/ stage[c] # "handshaking" THEN "none" ELSE "sending"
          /\ \A d \in Conn \ {c} : hs'[d] = hs[d]
      BY <1>8, HandshakeMoves
    <2>3. CASE closing \/ stage[c] # "handshaking"
      <3>1. UNCHANGED chan
        BY <1>8, <2>3 DEF SendHello
      <3> QED BY <2>1, <2>2, <2>3, <3>1 DEF StageInv, FramesInv, HelloOut, HandshakeComplete
    <2>4. CASE ~closing /\ stage[c] = "handshaking"
      <3> DEFINE f == [kind |-> "hello", rev |-> hs[c].rev, content |-> hs[c].content]
      <3>1. chan[c] = <<>> /\ client[c] = "connecting"
        BY <2>1, <2>4 DEF StageInv
      <3>2. chan' = [chan EXCEPT ![c] = Append(chan[c], f)]
        BY <1>8, <2>4 DEF SendHello, Push
      <3>3. f \in Frame /\ f.kind = "hello"
        BY <1>0 DEF HsStates, Frame
      <3> HIDE DEF f
      <3>4. chan'[c] = <<f>> /\ \A d \in Conn \ {c} : chan'[d] = chan[d]
        BY <1>0, <3>1, <3>2
      <3>5. chan'[c] # <<>> /\ chan'[c][1].kind = "hello" /\ Len(chan'[c]) = 1
        BY <3>3, <3>4
      <3>6. FramesInv'
        <4>1. \A i \in 2..Len(chan'[c]) : FALSE
          BY <3>5
        <4> QED BY <2>1, <2>2, <3>1, <3>4, <3>5, <4>1 DEF FramesInv, HelloOut, HandshakeComplete
      <3>7. StageInv'
        BY <2>1, <2>2, <2>4, <3>4 DEF StageInv, HelloOut, HandshakeComplete
      <3> QED BY <3>6, <3>7
    <2> QED BY <2>3, <2>4
  <1>9. ASSUME NEW c \in Conn, HelloSent(c) PROVE StageInv' /\ FramesInv'
    <2>1. /\ hs[c].at = "sending" /\ UNCHANGED <<cast, chan, client>>
          /\ stage' = IF stage[c] = "handshaking" THEN [stage EXCEPT ![c] = "ready"] ELSE stage
      BY <1>9 DEF HelloSent, cvars
    <2>2. /\ IF stage[c] = "handshaking" THEN hs'[c].at \in {"get2", "done"} ELSE hs'[c].at = "none"
          /\ \A d \in Conn \ {c} : hs'[d] = hs[d]
      BY <1>9, HandshakeMoves
    <2>3. FramesInv'
      BY <2>1, <2>2, SilentKeepsFrames DEF HelloOut, HandshakeComplete
    <2>4. StageInv'
      BY <1>0, <2>1, <2>2 DEF StageInv, HelloOut, HandshakeComplete, Stages
    <2> QED BY <2>3, <2>4
  <1>10. ASSUME NEW c \in Conn, SendCatchUp(c) PROVE StageInv' /\ FramesInv'
    <2>1. /\ hs[c].at = "got2" /\ UNCHANGED <<cast, client, stage>>
          /\ UNCHANGED chan \/ Push(c, "event", hs[c].rev, hs[c].content)
      BY <1>10 DEF SendCatchUp, cvars
    <2>2. hs'[c].at = "done" /\ \A d \in Conn \ {c} : hs'[d] = hs[d]
      BY <1>10, HandshakeMoves
    <2>3. hs[c].rev \in Nat /\ hs[c].content \in Nat /\ HelloOut(c)
      BY <1>0, <2>1 DEF HsStates, HelloOut, HandshakeComplete
    <2>4. \A d \in Conn : HelloOut(d)' => HelloOut(d)
      BY <2>2, <2>3 DEF HelloOut, HandshakeComplete
    <2>5. FramesInv'
      BY <2>1, <2>3, <2>4, PushKeepsFrames, SilentKeepsFrames
    <2>6. \A d \in Conn \ {c} : chan'[d] = chan[d]
      BY <1>0, <2>1 DEF Push
    <2>7. StageInv'
      BY <2>1, <2>2, <2>6 DEF StageInv, HelloOut, HandshakeComplete
    <2> QED BY <2>5, <2>7
  <1>11. ASSUME NEW c \in Conn, FailProtocol(c) PROVE StageInv' /\ FramesInv'
    <2>1. /\ stage' = [stage EXCEPT ![c] = "closing"] /\ UNCHANGED <<cast, hs, client>>
          /\ Push(c, "hello_error", 0, 0)
      BY <1>11 DEF FailProtocol, FailConnection, cvars
    <2>2. FramesInv'
      <3>1. \A d \in Conn : HelloOut(d)' => HelloOut(d)
        BY <2>1 DEF HelloOut, HandshakeComplete
      <3> QED BY <2>1, <3>1, PushKeepsFrames
    <2>3. \A d \in Conn \ {c} : chan'[d] = chan[d]
      BY <1>0, <2>1 DEF Push
    <2> QED BY <1>0, <2>1, <2>2, <2>3 DEF StageInv, HelloOut, HandshakeComplete
  <1>12. ASSUME NEW c \in Conn, Disconnect(c) PROVE StageInv' /\ FramesInv'
    <2>1. /\ stage' = [stage EXCEPT ![c] = "closed"] /\ UNCHANGED <<cast, hs>>
          /\ chan' = [chan EXCEPT ![c] = <<>>]
          /\ client' = [client EXCEPT ![c] = IF @ \in {"failed", "refused"} THEN @ ELSE "disconnected"]
      BY <1>12 DEF Disconnect
    <2>2. chan'[c] = <<>> /\ Len(chan'[c]) = 0 /\ \A d \in Conn \ {c} : chan'[d] = chan[d]
      BY <1>0, <2>1
    <2>3. client'[c] \in {"disconnected", "refused"} /\ \A d \in Conn \ {c} : client'[d] = client[d]
      BY <1>0, <2>1 DEF FramesInv
    <2>4. FramesInv'
      <3>1. \A i \in 2..Len(chan'[c]) : FALSE
        BY <2>2
      <3> QED BY <2>1, <2>2, <2>3, <3>1 DEF FramesInv, HelloOut, HandshakeComplete
    <2>5. StageInv'
      BY <1>0, <2>1, <2>2, <2>3 DEF StageInv, HelloOut, HandshakeComplete
    <2> QED BY <2>4, <2>5
  <1>13. ASSUME NEW c \in Conn, Receive(c) PROVE StageInv' /\ FramesInv'
    <2> DEFINE s == chan[c]
    <2>1. /\ s # <<>> /\ client[c] \in {"connecting", "connected"} /\ s \in Seq(Frame)
      BY <1>0, <1>13 DEF Receive
    <2>2. /\ Tail(s) \in Seq(Frame) /\ Head(s) = s[1] /\ s[1] \in Frame
          /\ Len(Tail(s)) = Len(s) - 1 /\ Len(s) \in Nat /\ Len(s) >= 1
          /\ \A i \in 1..Len(s) - 1 : Tail(s)[i] = s[i + 1]
      BY <2>1, Dropped
    <2>3. s[1].kind \in {"hello", "event", "hello_error"}
      BY <2>2 DEF Frame
    <2>4. s[1].kind # "hello_error" => ((client[c] = "connecting") <=> s[1].kind = "hello")
      BY <2>1, <2>3 DEF FramesInv
    <2>5. UNCHANGED <<cast, hs, stage>>
      BY <1>13 DEF Receive, svars
    <2>6. CASE s[1].kind = "hello_error"
      <3>1. chan' = [chan EXCEPT ![c] = <<>>] /\ client' = [client EXCEPT ![c] = Ending(c, "hello_error")]
        BY <1>13, <2>2, <2>6 DEF Receive
      <3>2. /\ chan'[c] = <<>> /\ client'[c] \in {"disconnected", "refused"} /\ Len(chan'[c]) = 0
            /\ \A d \in Conn \ {c} : chan'[d] = chan[d] /\ client'[d] = client[d]
        BY <1>0, <3>1 DEF Ending
      <3>3. \A i \in 2..Len(chan'[c]) : FALSE
        BY <3>2
      <3>4. FramesInv'
        BY <2>5, <3>2, <3>3 DEF FramesInv, HelloOut, HandshakeComplete
      <3>5. StageInv'
        BY <2>1, <2>5, <3>2 DEF StageInv, HelloOut, HandshakeComplete
      <3> QED BY <3>4, <3>5
    <2>7. CASE s[1].kind # "hello_error"
      <3>1. chan' = [chan EXCEPT ![c] = Tail(s)] /\ client' = [client EXCEPT ![c] = "connected"]
        BY <1>13, <2>2, <2>4, <2>7 DEF Receive
      <3>2. /\ chan'[c] = Tail(s) /\ client'[c] = "connected"
            /\ \A d \in Conn \ {c} : chan'[d] = chan[d] /\ client'[d] = client[d]
        BY <1>0, <3>1
      <3>3. \A i \in 1..Len(Tail(s)) : Tail(s)[i].kind # "hello"
        BY <2>2 DEF FramesInv
      <3>4. Tail(s) # <<>> => 1 \in 1..Len(Tail(s))
        BY <2>2
      <3>5. \A i \in 2..Len(Tail(s)) : i \in 1..Len(Tail(s))
        BY <2>2
      <3>6. FramesInv'
        <4>1. \A i \in 2..Len(chan'[c]) : chan'[c][i].kind # "hello"
          BY <3>2, <3>3, <3>5
        <4>2. chan'[c] # <<>> => chan'[c][1].kind # "hello"
          BY <3>2, <3>3, <3>4
        <4> HIDE DEF s
        <4> QED BY <2>5, <3>2, <4>1, <4>2 DEF FramesInv, HelloOut, HandshakeComplete
      <3>7. StageInv'
        BY <2>1, <2>5, <3>2 DEF StageInv, HelloOut, HandshakeComplete
      <3> QED BY <3>6, <3>7
    <2> QED BY <2>6, <2>7
  <1>14. ASSUME NEW c \in Conn, GetRejects(c) PROVE StageInv' /\ FramesInv'
    <2>1. /\ hs[c].at \in {"get", "got", "get2", "got2"}
          /\ hs'[c].at = IF hs[c].at \in {"get", "got"} THEN "none" ELSE "done"
          /\ \A d \in Conn \ {c} : hs'[d] = hs[d]
      BY <1>14, HandshakeMoves
    <2>2. UNCHANGED <<cast, client>>
      BY <1>14 DEF GetRejects, cvars
    <2>3. \A d \in Conn : HelloOut(d)' <=> HelloOut(d)
      BY <2>1 DEF HelloOut, HandshakeComplete
    <2>4. \A d \in Conn : HandshakeComplete(d)' <=> HandshakeComplete(d)
      BY <2>1 DEF HandshakeComplete
    <2>5. CASE UNCHANGED <<stage, chan>>
      <3>1. FramesInv'
        BY <2>2, <2>3, <2>5, SilentKeepsFrames
      <3>2. stage[c] \notin {"none", "awaitingHello"}
        BY <2>1 DEF StageInv
      <3> QED BY <2>1, <2>2, <2>3, <2>4, <2>5, <3>1, <3>2 DEF StageInv
    <2>6. CASE stage' = [stage EXCEPT ![c] = "closing"] /\ Push(c, "hello_error", 0, 0)
      <3>1. FramesInv'
        BY <2>2, <2>3, <2>6, PushKeepsFrames
      <3>2. \A d \in Conn \ {c} : chan'[d] = chan[d]
        BY <1>0, <2>6 DEF Push
      <3> QED BY <1>0, <2>1, <2>2, <2>3, <2>4, <2>6, <3>1, <3>2 DEF StageInv
    <2> QED BY <1>14, <2>5, <2>6 DEF GetRejects, FailConnection
  <1> QED BY <1>1, <1>2, <1>3, <1>4, <1>5, <1>6, <1>7, <1>8, <1>9, <1>10, <1>11, <1>12, <1>13, <1>14
          DEF Next, Publish, Handshake

\* A channel to which a frame is added: an error only on a connection that is going.
LEMMA PushKeepsRefused ==
  ASSUME STypeOK, RefusedInv, NEW c \in Conn, NEW kind \in {"hello", "event", "hello_error"},
         NEW rev \in Nat, NEW content \in Nat, Push(c, kind, rev, content), client' = client,
         kind = "hello_error" => stage'[c] \in Terminal,
         \A d \in Conn : stage[d] \in Terminal => stage'[d] \in Terminal
  PROVE  RefusedInv'
  <1> DEFINE f == [kind |-> kind, rev |-> rev, content |-> content]
             s == Append(chan[c], f)
  <1>1. f \in Frame /\ f.kind = kind
    BY DEF Frame
  <1>2. chan' = [chan EXCEPT ![c] = s] /\ chan \in [Conn -> Seq(Frame)]
    BY DEF Push, STypeOK, Frame
  <1> HIDE DEF f
  <1>3. /\ Len(s) = Len(chan[c]) + 1 /\ Len(chan[c]) \in Nat
        /\ s[Len(chan[c]) + 1] = f
        /\ \A i \in 1..Len(chan[c]) : s[i] = chan[c][i]
    BY <1>1, <1>2, Appended
  <1> HIDE DEF s
  <1>4. \A i \in 1..Len(s) : s[i].kind = "hello_error" => stage'[c] \in Terminal
    <2> SUFFICES ASSUME NEW i \in 1..Len(s), s[i].kind = "hello_error"
                 PROVE  stage'[c] \in Terminal
      OBVIOUS
    <2>1. i \in 1..Len(chan[c]) \/ i = Len(chan[c]) + 1
      BY <1>3
    <2> QED BY <1>1, <1>3, <2>1 DEF RefusedInv
  <1>5. \A d \in Conn : chan'[d] = IF d = c THEN s ELSE chan[d]
    BY <1>2
  <1> QED BY <1>4, <1>5 DEF RefusedInv

\* The error is the end of a connection, from failProtocol on.
LEMMA NextRefused == STypeOK /\ RefusedInv /\ [Next]_vars => RefusedInv'
  <1> SUFFICES ASSUME STypeOK, RefusedInv, [Next]_vars PROVE RefusedInv'
    OBVIOUS
  <1>0. /\ hs \in [Conn -> HsStates] /\ chan \in [Conn -> Seq(Frame)] /\ stage \in [Conn -> Stages]
        /\ client \in [Conn -> {"connecting", "connected", "disconnected", "failed", "refused"}]
        /\ cast.rev \in Nat /\ cast.content \in Nat /\ cast.to \subseteq Conn
    BY DEF STypeOK, HsStates, Frame
  <1>1. CASE \/ \E announced \in BOOLEAN : Change(announced)
             \/ Close \/ Stopped \/ Broadcast \/ SkipBroadcast \/ StartBroadcast \/ ReadBroadcast
             \/ BroadcastFails \/ UNCHANGED vars
    <2>1. UNCHANGED <<stage, chan, client>>
      BY <1>1 DEF Change, Close, Stopped, Broadcast, SkipBroadcast, StartBroadcast, ReadBroadcast,
                  BroadcastFails, vars, svars, cvars
    <2> QED BY <2>1 DEF RefusedInv
  <1>2. CASE CloseServerState
    <2>1. /\ UNCHANGED <<chan, client>>
          /\ \A c \in Conn : stage'[c] = stage[c] \/ stage'[c] = "closing"
      BY <1>2 DEF CloseServerState, cvars
    <2> QED BY <2>1 DEF RefusedInv, Terminal
  <1>3. CASE SendBroadcast
    <2>1. PICK c \in cast.to : UNCHANGED chan \/ Push(c, "event", cast.rev, cast.content)
      BY <1>3 DEF SendBroadcast
    <2>2. UNCHANGED <<stage, client>> /\ c \in Conn
      BY <1>0, <1>3 DEF SendBroadcast, cvars
    <2>3. CASE UNCHANGED chan
      BY <2>2, <2>3 DEF RefusedInv
    <2> QED BY <1>0, <2>1, <2>2, <2>3, PushKeepsRefused
  <1>4. ASSUME NEW c \in Conn, Accept(c) \/ ReceiveHello(c) \/ ReadSessions(c) \/ HelloSent(c)
        PROVE  RefusedInv'
    <2>1. /\ UNCHANGED <<chan, client>>
          /\ \A d \in Conn : stage[d] \in Terminal => stage'[d] = stage[d]
      BY <1>0, <1>4 DEF Accept, ReceiveHello, ReadSessions, HelloSent, cvars, Terminal
    <2> QED BY <2>1 DEF RefusedInv
  <1>5. ASSUME NEW c \in Conn, SendHello(c) \/ SendCatchUp(c) PROVE RefusedInv'
    <2>1. /\ UNCHANGED <<stage, client>>
          /\ \/ UNCHANGED chan
             \/ Push(c, "hello", hs[c].rev, hs[c].content)
             \/ Push(c, "event", hs[c].rev, hs[c].content)
      BY <1>5 DEF SendHello, SendCatchUp, cvars
    <2>2. hs[c].rev \in Nat /\ hs[c].content \in Nat
      BY <1>0 DEF HsStates
    <2>3. CASE UNCHANGED chan
      BY <2>1, <2>3 DEF RefusedInv
    <2> QED BY <2>1, <2>2, <2>3, PushKeepsRefused
  <1>6. ASSUME NEW c \in Conn, FailProtocol(c) \/ GetRejects(c) PROVE RefusedInv'
    <2>1. /\ UNCHANGED client
          /\ \/ UNCHANGED <<stage, chan>>
             \/ stage' = [stage EXCEPT ![c] = "closing"] /\ Push(c, "hello_error", 0, 0)
      BY <1>6 DEF FailProtocol, GetRejects, FailConnection, cvars
    <2>2. CASE UNCHANGED <<stage, chan>>
      BY <2>1, <2>2 DEF RefusedInv
    <2>3. CASE stage' = [stage EXCEPT ![c] = "closing"] /\ Push(c, "hello_error", 0, 0)
      <3>1. /\ stage'[c] \in Terminal
            /\ \A d \in Conn : stage[d] \in Terminal => stage'[d] \in Terminal
        BY <1>0, <2>3 DEF Terminal
      <3> QED BY <2>1, <2>3, <3>1, PushKeepsRefused
    <2> QED BY <2>1, <2>2, <2>3
  <1>7. ASSUME NEW c \in Conn, Disconnect(c) PROVE RefusedInv'
    <2>1. /\ stage'[c] = "closed" /\ \A d \in Conn \ {c} :
                stage'[d] = stage[d] /\ client'[d] = client[d] /\ chan'[d] = chan[d]
      BY <1>0, <1>7 DEF Disconnect
    <2> QED BY <2>1 DEF RefusedInv, Terminal
  <1>8. ASSUME NEW c \in Conn, Receive(c) PROVE RefusedInv'
    <2>1. /\ chan[c] # <<>> /\ chan[c] \in Seq(Frame) /\ UNCHANGED stage
      BY <1>0, <1>8 DEF Receive, svars
    <2>2. /\ Head(chan[c]) = chan[c][1] /\ 1 \in 1..Len(chan[c]) /\ Len(chan[c]) \in Nat
          /\ Len(Tail(chan[c])) = Len(chan[c]) - 1
          /\ \A i \in 1..Len(chan[c]) - 1 : Tail(chan[c])[i] = chan[c][i + 1]
      BY <2>1, Dropped
    <2>3. /\ chan'[c] = Tail(chan[c]) \/ chan'[c] = <<>>
          /\ client'[c] = "refused" => chan[c][1].kind = "hello_error"
          /\ \A d \in Conn \ {c} : chan'[d] = chan[d] /\ client'[d] = client[d]
      BY <1>0, <1>8, <2>2 DEF Receive, Ending
    <2>4. \A i \in 1..Len(Tail(chan[c])) : Tail(chan[c])[i].kind = "hello_error"
                                            => stage[c] \in Terminal
      BY <2>2 DEF RefusedInv
    <2>5. client'[c] = "refused" => stage[c] \in Terminal
      BY <2>2, <2>3 DEF RefusedInv
    <2>6. \A i \in 1..Len(chan'[c]) : chan'[c][i].kind = "hello_error" => stage[c] \in Terminal
      <3>1. CASE chan'[c] = <<>>
        <4>1. Len(chan'[c]) = 0
          BY <3>1
        <4> QED BY <4>1
      <3> QED BY <2>3, <2>4, <3>1
    <2> QED BY <2>1, <2>3, <2>5, <2>6 DEF RefusedInv
  <1> QED BY <1>1, <1>2, <1>3, <1>4, <1>5, <1>6, <1>7, <1>8 DEF Next, Publish, Handshake

\* No client ever drops the connection over the order of frames: the hello comes
\* first and once, although broadcasts run while handshakes are suspended, and what
\* makes a connected client fail is an error sent to a connection that is going.
THEOREM HelloComesFirst == Spec => []HelloFirst
  <1>1. Init => OrderInv /\ RefusedInv
    BY DEF Init, OrderInv, StageInv, FramesInv, RefusedInv, HelloOut, HandshakeComplete, NoCast, Over
  <1>2. OrderInv /\ RefusedInv => HelloFirst
    BY DEF OrderInv, FramesInv, RefusedInv, HelloFirst
  <1> QED BY <1>1, <1>2, NextOrder, NextRefused, STypeCorrect, PTL DEF Spec
=============================================================================
