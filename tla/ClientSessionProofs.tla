------------------------ MODULE ClientSessionProofs ------------------------
(***************************************************************************)
(* SessionInv is an invariant of ClientSession, for any peers, any page    *)
(* and any bound on the generations, and so is what follows from it.       *)
(***************************************************************************)
EXTENDS ClientSession, TLAPS

USE PageAssumption, MaxGenAssumption

LEMMA InitInv == Init => SessionInv
  BY DEF Init, SessionInv, ClientTypeOK, BoundedSession, DirectsBelong, ServiceBelongs,
         EngagedService, StoreMatchesPhase, OnCourse, ShownInTurn, ConnectedThroughOwnTransport, InitialClient,
         NoService, Service, NoDirect, Clients, Services, DirectTransports, Gens, Phases,
         Verifications, Roles, NoRef

(* Every way a session ends: x is the client just before resetSession.     *)
LEMMA ResetInv ==
  ASSUME SessionInv, me.gen < MaxGen,
         NEW x \in Clients, me' = Reset(x),
         x.gen = me.gen, x.svcGen = me.svcGen, x.ready = me.ready,
         ~me.ready => x.svc.st = "none",
         x.svc.st \in {"dialing", "answering", "rejected", "up"} => x.svc.peer # NoPeer,
         direct' \in [Gens -> DirectTransports],
         \A g \in Gens : /\ direct'[g].kind = direct[g].kind
                         /\ direct'[g].st \in {direct[g].st, "over"},
         unsent' \subseteq unsent, UNCHANGED astray
  PROVE  SessionInv'
<1> USE DEF Gens
<1>1. /\ me \in Clients /\ me.gen \in 1 .. MaxGen /\ me.gen + 1 \in Gens
      /\ direct \in [Gens -> DirectTransports] /\ unsent \subseteq Gens
      /\ astray \subseteq Gens /\ astray' = astray
      /\ me.svcGen \in Gens /\ me.svcGen <= me.gen
  BY DEF SessionInv, ClientTypeOK, ServiceBelongs, Clients
<1>2. /\ me' \in Clients
      /\ me'.gen = me.gen + 1 /\ me'.phase = "idle" /\ me'.peer = NoPeer
      /\ me'.to = NoPeer /\ me'.incoming = NoPeer /\ me'.isConnected = FALSE
      /\ me'.device = NoPeer
      /\ me'.svcGen = me.svcGen /\ me'.svc = x.svc /\ me'.ready = me.ready
  BY <1>1 DEF Reset, Clients, Phases, Verifications
<1>3. direct'[me'.gen].kind = "none" /\ direct'[me'.gen].st = "over"
  BY <1>1, <1>2 DEF SessionInv, DirectsBelong, OnCourse
<1>4. ClientTypeOK'
  BY <1>1, <1>2 DEF ClientTypeOK
<1>5. BoundedSession'
  <2>1. MaxGen \notin unsent'
    BY <1>1 DEF SessionInv, BoundedSession
  <2>2. me'.svcGen # MaxGen
    BY <1>1, <1>2
  <2> QED
    BY <2>1, <2>2, <1>2 DEF BoundedSession
<1>6. DirectsBelong'
  <2>1. ASSUME NEW g \in Gens
        PROVE  /\ g > me'.gen => direct'[g].kind = "none"
               /\ direct'[g].kind = "none" => direct'[g].st = "over"
    BY <1>1, <1>2 DEF SessionInv, DirectsBelong, OnCourse
  <2> QED
    BY <2>1, <1>3 DEF DirectsBelong, OnCourse
<1>7. ServiceBelongs'
  <2>1. me'.svcGen <= me'.gen /\ me'.svcGen # me'.gen
    BY <1>1, <1>2 DEF SessionInv, ServiceBelongs, OnCourse, Clients
  <2> QED
    BY <2>1, <1>2 DEF ServiceBelongs, EngagedService
<1>8. StoreMatchesPhase' /\ ConnectedThroughOwnTransport'
  BY <1>2 DEF StoreMatchesPhase, OnCourse, ShownInTurn, ConnectedThroughOwnTransport
<1> QED
  BY <1>4, <1>5, <1>6, <1>7, <1>8 DEF SessionInv

(* What every proof of a step begins with.                                 *)
LEMMA Typing ==
  ASSUME SessionInv
  PROVE  /\ me \in Clients /\ me.gen \in Gens /\ me.svc \in Services
         /\ direct \in [Gens -> DirectTransports] /\ unsent \subseteq Gens
         /\ astray \subseteq Gens
         /\ me.svc.st \in {"dialing", "answering", "rejected", "up"}
                => me.svc.peer # NoPeer
         /\ \A g \in Gens : direct[g] \in DirectTransports
         /\ me.phase # "idle" => me.gen < MaxGen
  BY DEF SessionInv, ClientTypeOK, Clients, Gens, BoundedSession, ServiceBelongs, EngagedService

(* A transport that is over. *)
LEMMA EndedFacts ==
  ASSUME NEW t \in DirectTransports
  PROVE  /\ Ended(t) \in DirectTransports
         /\ Ended(t).kind = t.kind /\ Ended(t).st = "over"
  BY DEF Ended, NoDirect, DirectTransports, Roles, Verifications

(* The user, and the signals, that end a session.                          *)
LEMMA SignalEndsInv ==
  ASSUME SessionInv,
         \/ DeclineRequest \/ CancelRequest
         \/ \E p \in Peers : DeclineArrives(p) \/ PeerLeaves(p)
  PROVE  SessionInv'
<1>1. UNCHANGED <<direct, unsent, astray>> /\ (me' = Reset(me) \/ me' = me)
  BY DEF DeclineRequest, CancelRequest, DeclineArrives, PeerLeaves, OnDecline, OnCancel,
         OnDeclined, OnPeerLost
<1>2. CASE me' = me
  BY <1>1, <1>2 DEF SessionInv, ClientTypeOK, BoundedSession, DirectsBelong,
         ServiceBelongs, EngagedService, StoreMatchesPhase, OnCourse, ShownInTurn, ConnectedThroughOwnTransport,
         DirectIsUp, ServiceIsUp
<1>3. CASE me' # me
  <2>1. me.phase # "idle"
    BY <1>3, Typing DEF DeclineRequest, CancelRequest, DeclineArrives, PeerLeaves,
         OnDecline, OnCancel, OnDeclined, OnPeerLost, SessionInv, StoreMatchesPhase, OnCourse, ShownInTurn
  <2> QED
    BY <1>1, <1>3, <2>1, Typing, ResetInv DEF SessionInv, ServiceBelongs, OnCourse
<1> QED
  BY <1>2, <1>3

LEMMA SendRejectedInv ==
  ASSUME SessionInv, NEW g \in Gens, SendRejected(g)
  PROVE  SessionInv'
<1>1. CASE g = me.gen
  <2>1. me.gen < MaxGen
    BY <1>1, Typing DEF SendRejected, SessionInv, BoundedSession, Gens
  <2> QED
    BY <1>1, <2>1, Typing, ResetInv DEF SendRejected, OnSendRejected, SessionInv,
         ServiceBelongs, OnCourse
<1>2. CASE g # me.gen
  BY <1>2 DEF SendRejected, OnSendRejected, SessionInv, ClientTypeOK, BoundedSession,
         DirectsBelong, ServiceBelongs, EngagedService, StoreMatchesPhase, OnCourse, ShownInTurn,
         ConnectedThroughOwnTransport, DirectIsUp, ServiceIsUp
<1> QED
  BY <1>1, <1>2

(* disconnect(), whoever calls it; closing is the set of transports that   *)
(* are over after the step.                                                *)
LEMMA DisconnectInv ==
  ASSUME SessionInv, me.phase # "idle", me' = OnDisconnect(me), UNCHANGED <<unsent, astray>>,
         direct' \in [Gens -> DirectTransports],
         \A g \in Gens : /\ direct'[g].kind = direct[g].kind
                         /\ direct'[g].st \in {direct[g].st, "over"}
  PROVE  SessionInv'
<1> DEFINE fd == IF me.wtRef # NoRef \/ me.wsRef # NoRef THEN NoRef ELSE me.fileDirect
           s == NoService
           x == [me EXCEPT !.svc = s, !.fileRtc = FALSE, !.wtRef = NoRef, !.wsRef = NoRef,
                           !.fileDirect = fd]
<1>1. me' = Reset(x)
  BY DEF OnDisconnect
<1>2. /\ x \in Clients /\ x.gen = me.gen /\ x.svcGen = me.svcGen
      /\ x.ready = me.ready /\ x.svc.st = "none"
  <2>1. s \in Services /\ s.st = "none"
    BY DEF NoService, Service, Services, Verifications
  <2>2. NoRef \in 0 .. MaxGen /\ fd \in 0 .. MaxGen
    BY Typing DEF NoRef, Clients
  <2> HIDE DEF fd, s
  <2> QED
    BY <2>1, <2>2, Typing, ZenonT(60) DEF Clients
<1>3. me.gen < MaxGen /\ unsent' \subseteq unsent
  BY Typing
<1> HIDE DEF x
<1> QED
  BY <1>1, <1>2, <1>3, ResetInv

LEMMA UserDisconnectInv ==
  ASSUME SessionInv, Disconnect
  PROVE  SessionInv'
<1>1. /\ direct' \in [Gens -> DirectTransports]
      /\ \A g \in Gens : /\ direct'[g].kind = direct[g].kind
                         /\ direct'[g].st \in {direct[g].st, "over"}
  BY Typing, EndedFacts DEF Disconnect, HangUp
<1> QED
  BY <1>1, DisconnectInv DEF Disconnect, HangUp
-----------------------------------------------------------------------------
(* Steps that leave the client alone: a transport of another generation    *)
(* went on, or ended, without it.                                          *)
LEMMA StaleInv ==
  ASSUME SessionInv, me' = me, UNCHANGED <<unsent, astray>>,
         direct' \in [Gens -> DirectTransports],
         direct'[me.gen] = direct[me.gen],
         \A g \in Gens : /\ direct'[g].kind = direct[g].kind
                         /\ direct[g].kind = "none" => direct'[g].st = "over"
  PROVE  SessionInv'
  BY Typing DEF SessionInv, ClientTypeOK, BoundedSession, DirectsBelong, ServiceBelongs,
         EngagedService, StoreMatchesPhase, OnCourse, ShownInTurn, ConnectedThroughOwnTransport, DirectIsUp,
         ServiceIsUp

(* Steps that touch only the trust shown and what transports reported.     *)
SameButTrust ==
    /\ me' \in Clients
    /\ me'.phase = me.phase /\ me'.gen = me.gen /\ me'.peer = me.peer
    /\ me'.to = me.to /\ me'.incoming = me.incoming
    /\ me'.isConnected = me.isConnected /\ me'.device = me.device
    /\ me'.ready = me.ready /\ me'.svcGen = me.svcGen /\ me'.wsRef = me.wsRef
    /\ me'.wtRef = me.wtRef /\ me'.fileDirect = me.fileDirect
    /\ me'.fileRtc = me.fileRtc
    /\ me'.svc.st = me.svc.st /\ me'.svc.peer = me.svc.peer

LEMMA ReportInv ==
  ASSUME SessionInv, SameButTrust, UNCHANGED <<unsent, astray>>,
         direct' \in [Gens -> DirectTransports],
         \A g \in Gens : /\ direct'[g].kind = direct[g].kind
                         /\ direct'[g].st = direct[g].st
                         /\ direct'[g].peer = direct[g].peer
  PROVE  SessionInv'
  BY Typing DEF SameButTrust, SessionInv, ClientTypeOK, BoundedSession, DirectsBelong,
         ServiceBelongs, EngagedService, StoreMatchesPhase, OnCourse, ShownInTurn, ConnectedThroughOwnTransport,
         DirectIsUp, ServiceIsUp

LEMMA VerificationSame ==
  ASSUME me \in Clients, NEW v \in Verifications, NEW w \in Verifications
  PROVE  /\ me' = OnVerification(me, v) => SameButTrust
         /\ me' = [OnVerification(me, v) EXCEPT !.svc.report = w] => SameButTrust
<1>1. CASE me.svcGen = me.gen
  <2> DEFINE r == [me.svc EXCEPT !.report = w]
  <2>1. me.svc \in Services /\ r \in Services /\ r.st = me.svc.st /\ r.peer = me.svc.peer
    BY DEF Clients, Services
  <2>2. me' = [me EXCEPT !.verification = v] => SameButTrust
    BY DEF SameButTrust, Clients
  <2>3. [OnVerification(me, v) EXCEPT !.svc.report = w]
          = [me EXCEPT !.verification = v, !.svc = r]
    BY <1>1 DEF OnVerification, Clients
  <2> HIDE DEF r
  <2>4. me' = [me EXCEPT !.verification = v, !.svc = r] => SameButTrust
    BY <2>1, ZenonT(60) DEF SameButTrust, Clients
  <2> QED
    BY <1>1, <2>2, <2>3, <2>4 DEF OnVerification
<1>2. CASE me.svcGen # me.gen
  BY <1>2 DEF OnVerification, SameButTrust, Clients, Services
<1> QED
  BY <1>1, <1>2

LEMMA ReportsInv ==
  ASSUME SessionInv, ServiceReports \/ MarkVerified \/ \E g \in Gens : DirectReports(g)
  PROVE  SessionInv'
<1>1. "verified" \in Verifications
  BY DEF Verifications
<1>2. SameButTrust /\ UNCHANGED <<unsent, astray>>
  <2>1. ASSUME ServiceReports PROVE SameButTrust
    <3>1. PICK v \in Verifications :
             me' = [OnVerification(me, v)
                       EXCEPT !.svc.report = IF me.svcGen = me.gen THEN v ELSE @]
      BY <2>1 DEF ServiceReports
    <3>2. PICK w \in Verifications : w = IF me.svcGen = me.gen THEN v ELSE me.svc.report
      BY Typing DEF Services
    <3>3. OnVerification(me, v).svc = me.svc
      BY Typing DEF OnVerification, Clients
    <3>4. me' = [OnVerification(me, v) EXCEPT !.svc.report = w]
      BY <3>1, <3>2, <3>3
    <3> QED BY <3>4, Typing, VerificationSame
  <2> QED
    BY <1>1, <2>1, Typing, VerificationSame DEF ServiceReports, MarkVerified, DirectReports
<1>3. direct' = direct \/ \E g \in Gens, v \in Verifications :
                             direct' = [direct EXCEPT ![g].report = v]
  <2>2. ASSUME NEW g \in Gens, DirectReports(g)
        PROVE  \E v \in Verifications : direct' = [direct EXCEPT ![g].report = v]
    <3>1. PICK v \in Verifications :
             direct' = [direct EXCEPT ![g].report = IF g = me.gen THEN v ELSE @]
      BY <2>2 DEF DirectReports
    <3>2. direct[g].report \in Verifications
      BY Typing DEF DirectTransports
    <3> QED BY <3>1, <3>2
  <2>1. (IF me.wsRef # NoRef THEN me.wsRef ELSE me.wtRef) \in Gens \cup {NoRef}
    BY Typing DEF Clients, Gens, NoRef
  <2> QED
    BY <1>1, <2>1, <2>2 DEF ServiceReports, MarkVerified
<1>4. /\ direct' \in [Gens -> DirectTransports]
      /\ \A h \in Gens : /\ direct'[h].kind = direct[h].kind
                         /\ direct'[h].st = direct[h].st
                         /\ direct'[h].peer = direct[h].peer
  BY <1>3, Typing DEF DirectTransports
<1> QED
  BY <1>2, <1>4, ReportInv

-----------------------------------------------------------------------------
(* Transports that end, or fail.                                           *)
LEMMA DirectRejectedInv ==
  ASSUME SessionInv, NEW g \in Gens, DirectRejected(g)
  PROVE  SessionInv'
<1>1. /\ direct' \in [Gens -> DirectTransports]
      /\ \A h \in Gens : /\ direct'[h].kind = direct[h].kind
                         /\ direct'[h].st \in {direct[h].st, "over"}
  BY Typing, EndedFacts DEF DirectRejected
<1>2. CASE g = me.gen
  <2>1. me.gen < MaxGen /\ me' = Reset(me)
    BY <1>2, Typing DEF DirectRejected, OnDirectRejected, SessionInv, DirectsBelong, OnCourse
  <2> QED
    BY <1>1, <2>1, Typing, ResetInv DEF DirectRejected, SessionInv, ServiceBelongs, OnCourse
<1>3. CASE g # me.gen
  <2>1. me' = me /\ UNCHANGED <<unsent, astray>> /\ direct'[me.gen] = direct[me.gen]
    BY <1>3, Typing DEF DirectRejected, OnDirectRejected
  <2>2. \A h \in Gens : direct[h].kind = "none" => direct'[h].st = "over"
    BY <1>1 DEF SessionInv, DirectsBelong, OnCourse
  <2> QED
    BY <1>1, <2>1, <2>2, StaleInv
<1> QED
  BY <1>2, <1>3

LEMMA FailsInv ==
  ASSUME SessionInv, ServiceFails \/ \E g \in Gens : DirectFails(g)
  PROVE  SessionInv'
<1>1. /\ me.gen < MaxGen /\ me' = Reset(me) /\ UNCHANGED <<unsent, astray>>
      /\ direct' \in [Gens -> DirectTransports]
      /\ \A h \in Gens : /\ direct'[h].kind = direct[h].kind
                         /\ direct'[h].st \in {direct[h].st, "over"}
  BY Typing, EndedFacts DEF ServiceFails, DirectFails, OnError
<1> QED
  BY <1>1, Typing, ResetInv DEF SessionInv, ServiceBelongs, OnCourse

LEMMA DirectClosesInv ==
  ASSUME SessionInv, NEW g \in Gens, DirectCloses(g)
  PROVE  SessionInv'
<1> DEFINE acts == direct[g].role = "responder" \/ me.wtRef # NoRef
<1>1. /\ direct' \in [Gens -> DirectTransports] /\ UNCHANGED <<unsent, astray>>
      /\ \A h \in Gens : /\ direct'[h].kind = direct[h].kind
                         /\ direct'[h].st \in {direct[h].st, "over"}
      /\ \A h \in Gens : direct[h].kind = "none" => direct'[h].st = "over"
  BY Typing, EndedFacts DEF DirectCloses, SessionInv, DirectsBelong, OnCourse
<1>2. CASE acts /\ me.phase # "idle"
  BY <1>1, <1>2, DisconnectInv DEF DirectCloses
<1>3. CASE ~(acts /\ me.phase # "idle")
  <2>1. me' = me /\ \A h \in Gens \ {g} : direct'[h] = direct[h]
    <3>1. CASE ~acts
      BY <3>1, Typing DEF DirectCloses
    <3>2. CASE me.phase = "idle"
      <4>1. HungUp(me) \notin Gens /\ OnDisconnect(me) = me
        BY <3>2 DEF HungUp, OnDisconnect, NoRef, Gens
      <4> QED
        BY <4>1, Typing DEF DirectCloses
    <3> QED
      BY <1>3, <3>1, <3>2
  <2>2. g # me.gen
    <3>1. ASSUME g = me.gen PROVE FALSE
      <4>1. me.wtRef = me.gen /\ me.phase # "idle"
        BY <3>1, Typing DEF DirectCloses, SessionInv, DirectsBelong, OnCourse
      <4> QED
        BY <1>3, <4>1, Typing DEF NoRef, Gens
    <3> QED
      BY <3>1
  <2> QED
    BY <1>1, <2>1, <2>2, Typing, StaleInv
<1> QED
  BY <1>2, <1>3

(* The service reports an end, or its connect() fails.                     *)
LEMMA ServiceEndsInv ==
  ASSUME SessionInv, ServiceEnds \/ DialRejected
  PROVE  SessionInv'
<1>1. /\ me.svc.st \in {"dialing", "answering", "up", "rejected"}
      /\ UNCHANGED <<direct, unsent, astray>>
  BY DEF ServiceEnds, DialRejected
<1>2. CASE me.svcGen = me.gen /\ me' # [me EXCEPT !.svc.st = "rejected", !.to = NoPeer]
  <2>1. PICK x : /\ x \in {[me EXCEPT !.svc.st = "over", !.fileRtc = FALSE],
                           [me EXCEPT !.svc.st = "rejected", !.to = NoPeer]}
                 /\ me' = Reset(x)
    BY <1>2, Typing DEF ServiceEnds, DialRejected, OnServiceEnded, OnDialRejected, Clients
  <2>2. /\ x \in Clients /\ x.gen = me.gen /\ x.svcGen = me.svcGen /\ x.ready = me.ready
    <3>1. /\ [me.svc EXCEPT !.st = "over"] \in Services
          /\ [me.svc EXCEPT !.st = "rejected"] \in Services
      BY Typing DEF Services
    <3> QED
      BY <2>1, <3>1, Typing, ZenonT(60) DEF Clients
  <2>3. me.gen < MaxGen /\ me.ready
    BY <1>1, <1>2, Typing DEF SessionInv, ServiceBelongs, BoundedSession, Gens
  <2>4. \A g \in Gens : /\ direct'[g].kind = direct[g].kind
                        /\ direct'[g].st \in {direct[g].st, "over"}
    BY <1>1
  <2>5. x.svc.peer # NoPeer
    BY <1>1, <2>1, Typing DEF Clients, Services
  <2> QED
    BY <1>1, <2>1, <2>2, <2>3, <2>4, <2>5, Typing, ResetInv, ZenonT(60)
<1>3. CASE \/ me.svcGen = me.gen /\ me' = [me EXCEPT !.svc.st = "rejected", !.to = NoPeer]
           \/ me.svcGen # me.gen
  <2>1. PICK st \in {"over", "rejected"}, t \in {me.to, NoPeer} :
           /\ me' = [me EXCEPT !.svc = [me.svc EXCEPT !.st = st], !.to = t]
           /\ me.svcGen = me.gen => st = "rejected" /\ me.svc.st = "dialing"
           /\ me.svcGen # me.gen => t = me.to
    <3>1. CASE me.svcGen = me.gen
      <4>1. me'.gen = me.gen /\ me.gen + 1 # me.gen
        <5>1. me'.gen = me.gen
          BY <1>3, <3>1, Typing DEF Clients
        <5>2. me.gen \in Nat
          BY Typing DEF Gens
        <5> QED
          BY <5>1, <5>2
      <4>2. ~ServiceEnds
        BY <3>1, <4>1, Typing DEF ServiceEnds, OnServiceEnded, Reset, Clients
      <4> QED
        BY <1>3, <3>1, <4>2 DEF DialRejected
    <3>2. CASE me.svcGen # me.gen
      BY <1>3, <3>2, Typing DEF ServiceEnds, DialRejected, OnServiceEnded, OnDialRejected,
         Clients
    <3> QED
      BY <3>1, <3>2
  <2>2. /\ [me.svc EXCEPT !.st = st] \in Services
        /\ [me.svc EXCEPT !.st = st].peer = me.svc.peer
        /\ [me.svc EXCEPT !.st = st].st = st
    BY Typing DEF Services
  <2>3. /\ me' \in Clients /\ me'.phase = me.phase /\ me'.gen = me.gen /\ me'.peer = me.peer
        /\ me'.to = t /\ me'.incoming = me.incoming
        /\ me'.isConnected = me.isConnected /\ me'.device = me.device
        /\ me'.ready = me.ready /\ me'.svcGen = me.svcGen /\ me'.wsRef = me.wsRef
        /\ me'.wtRef = me.wtRef /\ me'.fileDirect = me.fileDirect
        /\ me'.fileRtc = me.fileRtc
        /\ me'.svc.st = st /\ me'.svc.peer = me.svc.peer
    BY <2>1, <2>2, Typing DEF Clients
  <2> QED
    BY <1>1, <2>1, <2>3, Typing DEF SessionInv, ClientTypeOK, BoundedSession,
       DirectsBelong, ServiceBelongs, EngagedService, StoreMatchesPhase, OnCourse, ShownInTurn,
       ConnectedThroughOwnTransport, DirectIsUp, ServiceIsUp
<1> QED
  BY <1>2, <1>3
-----------------------------------------------------------------------------
(* Steps that begin a session, or take one further.                        *)
LEMMA SelectPeerInv ==
  ASSUME SessionInv, NEW p \in Peers, me.phase = "idle", SelectPeer(p)
  PROVE  SessionInv'
<1>1. /\ me.gen < MaxGen /\ UNCHANGED <<direct, astray>>
      /\ unsent' \subseteq unsent \cup {me.gen}
  BY DEF SelectPeer
<1>3. /\ me' \in Clients /\ me'.phase = "requesting" /\ me'.gen = me.gen
      /\ me'.peer = p /\ me'.to = p /\ me'.incoming = NoPeer
      /\ me'.isConnected = me.isConnected /\ me'.device = me.device
      /\ me'.ready = me.ready /\ me'.svc = me.svc /\ me'.svcGen = me.svcGen
      /\ me'.wsRef = me.wsRef /\ me'.wtRef = me.wtRef
      /\ me'.fileDirect = me.fileDirect /\ me'.fileRtc = me.fileRtc
  BY Typing DEF SelectPeer, OnSelectPeer, Clients, Phases, SessionInv, StoreMatchesPhase, OnCourse, ShownInTurn
<1>4. me.gen \in Gens /\ MaxGen # me.gen /\ me.gen \in Nat
  BY <1>1, Typing DEF Gens
<1> QED
  BY <1>1, <1>3, <1>4, Typing DEF SessionInv, ClientTypeOK, BoundedSession,
       DirectsBelong, ServiceBelongs, EngagedService, StoreMatchesPhase, OnCourse, ShownInTurn,
       ConnectedThroughOwnTransport, DirectIsUp, ServiceIsUp

LEMMA RequestArrivesInv ==
  ASSUME SessionInv, NEW p \in Peers, me.phase = "idle", RequestArrives(p)
  PROVE  SessionInv'
<1>1. /\ me.gen < MaxGen /\ UNCHANGED <<direct, astray>>
      /\ unsent' \subseteq unsent \cup {me.gen}
  BY DEF RequestArrives
<1>2. PICK k \in {"ws", "wt", "rtc"} :
        me' = [me EXCEPT !.phase = "incoming_request", !.peer = p, !.incoming = p,
                         !.pending = k]
  BY DEF RequestArrives, OnRequest, Route
<1>3. /\ me' \in Clients /\ me'.phase = "incoming_request" /\ me'.gen = me.gen
      /\ me'.peer = p /\ me'.to = NoPeer /\ me'.incoming = p
      /\ me'.isConnected = me.isConnected /\ me'.device = me.device
      /\ me'.ready = me.ready /\ me'.svc = me.svc /\ me'.svcGen = me.svcGen
      /\ me'.wsRef = me.wsRef /\ me'.wtRef = me.wtRef
      /\ me'.fileDirect = me.fileDirect /\ me'.fileRtc = me.fileRtc
  BY <1>2, Typing DEF Clients, Phases, SessionInv, StoreMatchesPhase, OnCourse, ShownInTurn
<1>4. me.gen \in Gens /\ MaxGen # me.gen /\ me.gen \in Nat
  BY <1>1, Typing DEF Gens
<1> QED
  BY <1>1, <1>3, <1>4, Typing DEF SessionInv, ClientTypeOK, BoundedSession,
       DirectsBelong, ServiceBelongs, EngagedService, StoreMatchesPhase, OnCourse, ShownInTurn,
       ConnectedThroughOwnTransport, DirectIsUp, ServiceIsUp

LEMMA IdentityLoadsInv ==
  ASSUME SessionInv, IdentityLoads
  PROVE  SessionInv'
<1> DEFINE r == Service("ready", NoPeer, FALSE)
<1>1. r \in Services /\ r.st = "ready" /\ r.peer = NoPeer
  BY Typing DEF Service, Services, Verifications, Clients
<1>2. me' = [me EXCEPT !.ready = TRUE, !.svc = r, !.svcGen = me.gen, !.fileRtc = FALSE]
  BY Typing DEF IdentityLoads, OnIdentity, FreshService, Clients
<1> HIDE DEF r
<1>3. /\ me' \in Clients /\ me'.phase = me.phase /\ me'.gen = me.gen
      /\ me'.peer = me.peer /\ me'.to = me.to /\ me'.incoming = me.incoming
      /\ me'.isConnected = me.isConnected /\ me'.device = me.device
      /\ me'.ready = TRUE /\ me'.svc = r /\ me'.svcGen = me.gen
      /\ me'.wsRef = me.wsRef /\ me'.wtRef = me.wtRef
      /\ me'.fileDirect = me.fileDirect /\ me'.fileRtc = FALSE
  BY <1>1, <1>2, Typing DEF Clients
<1>4. ~me.ready /\ me.svc.st = "none" /\ UNCHANGED <<direct, unsent, astray>>
  BY DEF IdentityLoads, SessionInv, ServiceBelongs, OnCourse
<1>5. ServiceBelongs'
  BY <1>1, <1>3, <1>4, Typing DEF SessionInv, ServiceBelongs, EngagedService, DirectsBelong, OnCourse,
     Gens
<1> QED
  BY <1>1, <1>3, <1>4, <1>5, Typing DEF SessionInv, ClientTypeOK, BoundedSession,
       DirectsBelong, StoreMatchesPhase, OnCourse, ShownInTurn, ConnectedThroughOwnTransport, DirectIsUp,
       ServiceIsUp

LEMMA ServiceAnswersInv ==
  ASSUME SessionInv, NEW p \in Peers, ServiceAnswers(p)
  PROVE  SessionInv'
<1> DEFINE r == [me.svc EXCEPT !.st = "answering", !.peer = p]
<1>1. r \in Services /\ r.st = "answering" /\ r.peer = p /\ p # NoPeer
  BY Typing DEF Services
<1>2. me' = [me EXCEPT !.svc = r]
  BY Typing DEF ServiceAnswers, OnOffer, Clients
<1> HIDE DEF r
<1>3. /\ me' \in Clients /\ me'.phase = me.phase /\ me'.gen = me.gen
      /\ me'.peer = me.peer /\ me'.to = me.to /\ me'.incoming = me.incoming
      /\ me'.isConnected = me.isConnected /\ me'.device = me.device
      /\ me'.ready = me.ready /\ me'.svc = r /\ me'.svcGen = me.svcGen
      /\ me'.wsRef = me.wsRef /\ me'.wtRef = me.wtRef
      /\ me'.fileDirect = me.fileDirect /\ me'.fileRtc = me.fileRtc
  BY <1>1, <1>2, Typing DEF Clients
<1>4. /\ me.svc.st = "ready" /\ me.svcGen < MaxGen /\ UNCHANGED <<direct, unsent>>
      /\ astray' \in {astray, astray \cup {me.gen}}
  BY DEF ServiceAnswers
<1>5. OnCourse' => /\ OnCourse
                   /\ me.svcGen = me.gen => /\ me.phase = "connecting" /\ me.peer = p
                                            /\ direct[me.gen].st = "over"
  BY <1>3, Typing DEF ServiceAnswers, OnCourse, Awaits, SessionInv, DirectsBelong
<1>6. ClientTypeOK' /\ BoundedSession'
  <2>1. me.svcGen # MaxGen
    BY <1>4, Typing DEF Clients, Gens
  <2> QED
    BY <1>3, <1>4, <2>1, Typing DEF SessionInv, ClientTypeOK, BoundedSession
<1>7. DirectsBelong'
  BY <1>3, <1>4, <1>5, Typing DEF SessionInv, DirectsBelong
<1>8. ServiceBelongs'
  BY <1>1, <1>3, <1>4, <1>5, Typing DEF SessionInv, ServiceBelongs, EngagedService
<1>9. StoreMatchesPhase' /\ ConnectedThroughOwnTransport'
  BY <1>1, <1>3, <1>4, <1>5 DEF SessionInv, StoreMatchesPhase, ShownInTurn,
     ConnectedThroughOwnTransport, DirectIsUp, ServiceIsUp
<1> QED
  BY <1>6, <1>7, <1>8, <1>9 DEF SessionInv

LEMMA ServiceConnectedInv ==
  ASSUME SessionInv, ServiceConnected
  PROVE  SessionInv'
<1> DEFINE r == [me.svc EXCEPT !.st = "up"]
<1>1. r \in Services /\ r.st = "up" /\ r.peer = me.svc.peer
  BY Typing DEF Services
<1>2. me.svc.st \in {"dialing", "answering"} /\ UNCHANGED <<direct, unsent, astray>>
  BY DEF ServiceConnected
<1>3. CASE me.svcGen # me.gen
  <2>1. me' = [me EXCEPT !.svc = r]
    BY <1>3 DEF ServiceConnected, OnServiceConnected
  <2> HIDE DEF r
  <2>2. /\ me' \in Clients /\ me'.phase = me.phase /\ me'.gen = me.gen
      /\ me'.peer = me.peer /\ me'.to = me.to /\ me'.incoming = me.incoming
      /\ me'.isConnected = me.isConnected /\ me'.device = me.device
      /\ me'.ready = me.ready /\ me'.svc = r /\ me'.svcGen = me.svcGen
      /\ me'.wsRef = me.wsRef /\ me'.wtRef = me.wtRef
      /\ me'.fileDirect = me.fileDirect /\ me'.fileRtc = me.fileRtc
    BY <1>1, <2>1, Typing DEF Clients
  <2> QED
    BY <1>1, <1>2, <1>3, <2>2, Typing DEF SessionInv, ClientTypeOK, BoundedSession,
       DirectsBelong, ServiceBelongs, EngagedService, StoreMatchesPhase, OnCourse, ShownInTurn,
       ConnectedThroughOwnTransport, DirectIsUp, ServiceIsUp
<1>4. CASE me.svcGen = me.gen
  <2>1. /\ me.svc.peer \in Peers
        /\ OnCourse => me.phase = "connecting" /\ me.svc.peer = me.peer
    BY <1>2, <1>4, Typing DEF SessionInv, ServiceBelongs, EngagedService, Services
  <2>2. PICK d \in {me.svc.peer, NoPeer} : me' = OnServiceConnected(me, d)
    BY DEF ServiceConnected
  <2>5. PICK ph \in Phases :
          ph = IF me.phase = "connecting" THEN "connected" ELSE me.phase
    BY Typing DEF Phases, Clients
  <2>3. me' = [me EXCEPT !.phase = ph, !.isConnected = TRUE, !.device = d,
                         !.to = NoPeer, !.incoming = NoPeer, !.svc = r, !.fileRtc = TRUE]
    BY <1>4, <2>2, <2>5, Typing DEF OnServiceConnected, ShowConnected, MarkConnected, Clients
  <2> HIDE DEF r
  <2>6. d \in Peers \cup {NoPeer}
    BY <2>1
  <2>4. /\ me' \in Clients /\ me'.phase = ph /\ me'.gen = me.gen
      /\ me'.peer = me.peer /\ me'.to = NoPeer /\ me'.incoming = NoPeer
      /\ me'.isConnected = TRUE /\ me'.device = d /\ me'.ready = me.ready
      /\ me'.svc = r /\ me'.svcGen = me.svcGen /\ me'.wsRef = me.wsRef
      /\ me'.wtRef = me.wtRef /\ me'.fileDirect = me.fileDirect
      /\ me'.fileRtc = TRUE
    BY <1>1, <2>3, <2>6, Typing, ZenonT(60) DEF Clients
  <2> QED
    BY <1>1, <1>2, <1>4, <2>1, <2>4, <2>5, Typing, SMTT(30) DEF SessionInv, ClientTypeOK, BoundedSession,
       DirectsBelong, ServiceBelongs, EngagedService, StoreMatchesPhase, OnCourse, ShownInTurn,
       ConnectedThroughOwnTransport, DirectIsUp, ServiceIsUp
<1> QED
  BY <1>3, <1>4

(* A request, ours or theirs, is accepted for a direct transport.          *)
LEMMA DirectBeginsInv ==
  ASSUME SessionInv, me.phase \in {"requesting", "incoming_request"}, UNCHANGED <<unsent, astray>>,
         NEW k \in {"ws", "wt"}, NEW role \in Roles, NEW t \in {"ws", "wt", "rtc"},
         NEW ws \in 0 .. MaxGen, NEW wt \in 0 .. MaxGen,
         me.gen = IF k = "ws" THEN ws ELSE wt,
         me' = [me EXCEPT !.phase = "connecting", !.to = me.peer, !.incoming = NoPeer,
                          !.wsRef = ws, !.wtRef = wt, !.pending = t],
         direct' = [direct EXCEPT ![me.gen] = Made(k, me.peer, role)]
  PROVE  SessionInv'
<1>1. /\ me' \in Clients /\ me'.phase = "connecting" /\ me'.gen = me.gen
      /\ me'.peer = me.peer /\ me'.to = me.peer /\ me'.incoming = NoPeer
      /\ me'.isConnected = me.isConnected /\ me'.device = me.device
      /\ me'.ready = me.ready /\ me'.svc = me.svc /\ me'.svcGen = me.svcGen
      /\ me'.wsRef = ws /\ me'.wtRef = wt
      /\ me'.fileDirect = me.fileDirect /\ me'.fileRtc = me.fileRtc
  BY Typing DEF Clients, Phases
<1>2. Made(k, me.peer, role) \in DirectTransports
  BY Typing DEF Made, DirectTransports, Clients, Verifications
<1>3. /\ direct' \in [Gens -> DirectTransports]
      /\ \A h \in Gens : h # me.gen => direct'[h] = direct[h]
      /\ direct'[me.gen].kind = k /\ direct'[me.gen].peer = me.peer
      /\ direct'[me.gen].st = "opening"
  BY <1>2, Typing DEF Made
<1>4. me.gen \in Nat /\ me.gen # MaxGen
  BY Typing DEF Gens
<1>5. DirectsBelong'
  <2>1. ASSUME NEW h \in Gens
        PROVE  /\ h > me'.gen => direct'[h].kind = "none"
               /\ direct'[h].kind = "none" => direct'[h].st = "over"
    BY <1>1, <1>3, <1>4, Typing DEF SessionInv, DirectsBelong, OnCourse, Gens
  <2>2. OnCourse /\ me.svcGen = me.gen => me.svc.st \in {"none", "ready"}
    BY Typing DEF SessionInv, ServiceBelongs, EngagedService, Services
  <2>3. OnCourse' => OnCourse
    BY <1>1 DEF OnCourse
  <2> QED
    BY <1>1, <1>3, <2>1, <2>2, <2>3 DEF DirectsBelong
<1>6. ServiceBelongs'
  BY <1>1, <1>3, Typing DEF SessionInv, ServiceBelongs, OnCourse, EngagedService
<1> QED
  BY <1>1, <1>3, <1>4, <1>5, <1>6, Typing DEF SessionInv, ClientTypeOK, BoundedSession,
     StoreMatchesPhase, OnCourse, ShownInTurn, ConnectedThroughOwnTransport

(* A client with another service.                                          *)
WithService(c, r, sg, fr) == [c EXCEPT !.svc = r, !.svcGen = sg, !.fileRtc = fr]

LEMMA ServiceFields ==
  ASSUME NEW c \in Clients, NEW r \in Services, NEW sg \in Gens, NEW fr \in BOOLEAN
  PROVE  LET d == WithService(c, r, sg, fr)
         IN  /\ d \in Clients /\ d.svc = r /\ d.svcGen = sg /\ d.phase = c.phase
             /\ d.gen = c.gen /\ d.peer = c.peer /\ d.to = c.to
             /\ d.incoming = c.incoming /\ d.isConnected = c.isConnected
             /\ d.device = c.device /\ d.ready = c.ready /\ d.wsRef = c.wsRef
             /\ d.wtRef = c.wtRef /\ d.fileDirect = c.fileDirect /\ d.fileRtc = fr
  BY ZenonT(60) DEF Clients, WithService

(* A request is accepted for WebRTC: the service may be missing, listen or *)
(* dial.                                                                   *)
LEMMA ServiceBeginsInv ==
  ASSUME SessionInv, me.phase \in {"requesting", "incoming_request"},
         UNCHANGED <<direct, unsent, astray>>, NEW t \in {"ws", "wt", "rtc"},
         NEW r \in Services,
         IF me.ready THEN \/ r.st = "ready" /\ r.peer = NoPeer
                          \/ r.st = "dialing" /\ r.peer = me.peer
                     ELSE r = me.svc,
         ~me.ready => me.svc.st = "none",
         NEW sg \in Gens, sg = IF me.ready THEN me.gen ELSE me.svcGen, NEW fr \in BOOLEAN,
         me' = WithService([me EXCEPT !.phase = "connecting", !.to = me.peer,
                                      !.incoming = NoPeer, !.pending = t],
                           r, sg, fr)
  PROVE  SessionInv'
<1> DEFINE c == [me EXCEPT !.phase = "connecting", !.to = me.peer, !.incoming = NoPeer,
                           !.pending = t]
<1>0. /\ c \in Clients /\ c.phase = "connecting" /\ c.gen = me.gen
      /\ c.peer = me.peer /\ c.to = me.peer /\ c.incoming = NoPeer
      /\ c.isConnected = me.isConnected /\ c.device = me.device
      /\ c.ready = me.ready /\ c.wsRef = me.wsRef /\ c.wtRef = me.wtRef
      /\ c.fileDirect = me.fileDirect
      /\ me' = WithService(c, r, sg, fr)
  <2>1. me.peer \in Peers \cup {NoPeer}
    BY Typing DEF Clients
  <2> QED
    BY <2>1, Typing, ZenonT(60) DEF Clients, Phases
<1> HIDE DEF c
<1>1. /\ me' \in Clients /\ me'.phase = "connecting" /\ me'.gen = me.gen
      /\ me'.peer = me.peer /\ me'.to = me.peer /\ me'.incoming = NoPeer
      /\ me'.isConnected = me.isConnected /\ me'.device = me.device
      /\ me'.ready = me.ready /\ me'.svc = r /\ me'.svcGen = sg
      /\ me'.wsRef = me.wsRef /\ me'.wtRef = me.wtRef
      /\ me'.fileDirect = me.fileDirect
  BY <1>0, ServiceFields
<1>2. me.gen \in Nat /\ me.gen # MaxGen
  BY Typing DEF Gens
<1>3. direct[me.gen].kind = "none" /\ direct[me.gen].st = "over" /\ me.peer # NoPeer
  BY Typing DEF SessionInv, DirectsBelong, StoreMatchesPhase, OnCourse, ShownInTurn
<1>4. ~me.ready => r.st = "none" /\ r = me.svc
  BY DEF SessionInv, ServiceBelongs
<1>5. ServiceBelongs'
  BY <1>1, <1>3, <1>4, Typing DEF SessionInv, ServiceBelongs, OnCourse, EngagedService, Gens
<1> QED
  BY <1>1, <1>2, <1>3, <1>5, Typing, SMTT(20) DEF SessionInv, ClientTypeOK, BoundedSession,
     DirectsBelong, StoreMatchesPhase, OnCourse, ShownInTurn, ConnectedThroughOwnTransport

LEMMA AcceptRequestInv ==
  ASSUME SessionInv, AcceptRequest
  PROVE  SessionInv'
<1>1. /\ me.phase = "incoming_request" /\ me.incoming = me.peer /\ me.incoming # NoPeer
      /\ UNCHANGED <<unsent, astray>>
  BY DEF AcceptRequest, SessionInv, StoreMatchesPhase, OnCourse, ShownInTurn
<1>2. CASE me.pending # "rtc"
  <2>1. me.pending \in {"ws", "wt"} /\ "responder" \in Roles
    BY <1>2, Typing DEF Clients, Roles
  <2> DEFINE ws == IF me.pending = "ws" THEN me.gen ELSE me.wsRef
             wt == IF me.pending = "wt" THEN me.gen ELSE me.wtRef
  <2>2. me' = [me EXCEPT !.phase = "connecting", !.to = me.peer, !.incoming = NoPeer,
                         !.wsRef = ws, !.wtRef = wt, !.pending = "rtc"]
    BY <1>1, <1>2, Typing DEF AcceptRequest, OnAccept, Attempt, BeginConnecting, Clients
  <2>3. direct' = [direct EXCEPT ![me.gen] = Made(me.pending, me.peer, "responder")]
    BY <1>1, <1>2 DEF AcceptRequest
  <2>4. /\ ws \in 0 .. MaxGen /\ wt \in 0 .. MaxGen
        /\ me.gen = IF me.pending = "ws" THEN ws ELSE wt
    BY <2>1, Typing DEF Clients, Gens
  <2> HIDE DEF ws, wt
  <2> QED
    BY <1>1, <2>1, <2>2, <2>3, <2>4, DirectBeginsInv
<1>3. CASE me.pending = "rtc"
  <2> DEFINE r == IF me.ready THEN Service("ready", NoPeer, FALSE)
                  ELSE me.svc
             sg == IF me.ready THEN me.gen ELSE me.svcGen
             fr == IF me.ready THEN FALSE ELSE me.fileRtc
  <2>1. /\ r \in Services /\ sg \in Gens /\ fr \in BOOLEAN
        /\ sg = IF me.ready THEN me.gen ELSE me.svcGen
        /\ IF me.ready THEN \/ r.st = "ready" /\ r.peer = NoPeer
                            \/ r.st = "dialing" /\ r.peer = me.peer
                       ELSE r = me.svc
    BY Typing DEF Service, Services, Verifications, Clients
  <2>2. me' = WithService([me EXCEPT !.phase = "connecting", !.to = me.peer,
                                     !.incoming = NoPeer, !.pending = "rtc"], r, sg, fr)
    BY <1>1, <1>3, Typing, ZenonT(60) DEF AcceptRequest, OnAccept, Attempt,
       BeginConnecting, FreshService, Clients, WithService
  <2>3. UNCHANGED direct /\ (~me.ready => me.svc.st = "none")
    BY <1>3 DEF AcceptRequest, SessionInv, ServiceBelongs, OnCourse
  <2> HIDE DEF r, sg, fr
  <2> QED
    BY <1>1, <2>1, <2>2, <2>3, ServiceBeginsInv
<1> QED
  BY <1>2, <1>3

LEMMA AcceptArrivesInv ==
  ASSUME SessionInv, NEW p \in Peers, AcceptArrives(p)
  PROVE  SessionInv'
<1>1. PICK urls \in SUBSET Urls :
         /\ me' = OnAccepted(me, p, urls)
         /\ direct' = IF me'.phase = "connecting" /\ me.phase # "connecting"
                         /\ Route(urls) # "rtc"
                      THEN [direct EXCEPT ![me.gen] = Made(Route(urls), p, "requester")]
                      ELSE direct
  BY DEF AcceptArrives
<1>2. UNCHANGED <<unsent, astray>> /\ Route(urls) \in {"ws", "wt", "rtc"}
  BY DEF AcceptArrives, Route
<1>3. CASE ~(me.phase = "requesting" /\ me.to = p)
  <2>1. me' = me /\ direct' = direct
    BY <1>1, <1>3 DEF OnAccepted
  <2> QED
    BY <1>2, <2>1, Typing, StaleInv DEF SessionInv, DirectsBelong, OnCourse
<1>4. CASE /\ me.phase = "requesting" /\ me.to = p
           /\ Route(urls) # "rtc"
  <2>1. p = me.peer /\ "requester" \in Roles /\ Route(urls) \in {"ws", "wt"}
    BY <1>2, <1>4 DEF SessionInv, StoreMatchesPhase, OnCourse, ShownInTurn, Roles
  <2>2. me.incoming = NoPeer
    BY <1>4 DEF SessionInv, StoreMatchesPhase, OnCourse, ShownInTurn
  <2> DEFINE ws == IF Route(urls) = "ws" THEN me.gen ELSE me.wsRef
             wt == IF Route(urls) = "wt" THEN me.gen ELSE me.wtRef
  <2>3. me' = [me EXCEPT !.phase = "connecting", !.to = me.peer, !.incoming = NoPeer,
                         !.wsRef = ws, !.wtRef = wt, !.pending = me.pending]
    BY <1>1, <1>4, <2>1, <2>2, Typing, ZenonT(60) DEF OnAccepted, Attempt,
       BeginConnecting, Clients
  <2>4. direct' = [direct EXCEPT ![me.gen] = Made(Route(urls), me.peer, "requester")]
    <3>1. me'.phase = "connecting"
      BY <2>3, Typing DEF Clients
    <3> QED
      BY <1>1, <1>4, <2>1, <3>1
  <2>5. /\ me.pending \in {"ws", "wt", "rtc"}
        /\ ws \in 0 .. MaxGen /\ wt \in 0 .. MaxGen
        /\ me.gen = IF Route(urls) = "ws" THEN ws ELSE wt
    BY <2>1, Typing DEF Clients, Gens
  <2> HIDE DEF ws, wt
  <2> QED
    BY <1>2, <1>4, <2>1, <2>3, <2>4, <2>5, DirectBeginsInv
<1>5. CASE /\ me.phase = "requesting" /\ me.to = p
           /\ Route(urls) = "rtc"
  <2> DEFINE r == IF me.ready THEN Service("dialing", me.peer, FALSE)
                  ELSE me.svc
             sg == IF me.ready THEN me.gen ELSE me.svcGen
             fr == IF me.ready THEN FALSE ELSE me.fileRtc
  <2>1. /\ p = me.peer /\ me.incoming = NoPeer
        /\ UNCHANGED direct /\ (~me.ready => me.svc.st = "none")
    BY <1>1, <1>5 DEF SessionInv, StoreMatchesPhase, OnCourse, ShownInTurn, ServiceBelongs
  <2>2. /\ r \in Services /\ sg \in Gens /\ fr \in BOOLEAN
        /\ sg = IF me.ready THEN me.gen ELSE me.svcGen
        /\ IF me.ready THEN \/ r.st = "ready" /\ r.peer = NoPeer
                            \/ r.st = "dialing" /\ r.peer = me.peer
                       ELSE r = me.svc
    BY Typing DEF Service, Services, Verifications, Clients
  <2>3. me' = WithService([me EXCEPT !.phase = "connecting", !.to = me.peer,
                                     !.incoming = NoPeer, !.pending = me.pending], r, sg, fr)
    <3>1. CASE me.ready
      <4> DEFINE b == [me EXCEPT !.phase = "connecting"]
                 f == [b EXCEPT !.svc = Service("ready", NoPeer, FALSE), !.svcGen = me.gen,
                                !.fileRtc = FALSE]
      <4>1. Attempt(me, "rtc") = b /\ b \in Clients /\ b.ready /\ b.gen = me.gen
        BY <1>5, <3>1, Typing DEF Attempt, BeginConnecting, Clients, Phases
      <4>2. me' = [f EXCEPT !.svc = Service("dialing", p, FALSE)]
        BY <1>1, <1>5, <3>1, <4>1 DEF OnAccepted, Dial, FreshService
      <4>3. me' = [b EXCEPT !.svc = Service("dialing", p, FALSE), !.svcGen = me.gen,
                            !.fileRtc = FALSE]
        BY <4>1, <4>2 DEF Clients
      <4> QED
        BY <1>5, <2>1, <3>1, <4>3, Typing, ZenonT(60) DEF Clients, WithService
    <3>2. CASE ~me.ready
      BY <1>1, <1>5, <2>1, <3>2, Typing, ZenonT(60) DEF OnAccepted, Attempt, BeginConnecting,
         Dial, Clients, WithService
    <3> QED
      BY <3>1, <3>2
  <2>4. me.pending \in {"ws", "wt", "rtc"}
    BY Typing DEF Clients
  <2> HIDE DEF r, sg, fr
  <2> QED
    BY <1>2, <1>5, <2>1, <2>2, <2>3, <2>4, ServiceBeginsInv
<1> QED
  BY <1>3, <1>4, <1>5
-----------------------------------------------------------------------------
(* The promise of a direct transport is fulfilled.                         *)
LEMMA DirectConnectedInv ==
  ASSUME SessionInv, NEW g \in Gens, DirectConnected(g)
  PROVE  SessionInv'
<1>1. /\ direct' \in [Gens -> DirectTransports] /\ UNCHANGED <<unsent, astray>>
      /\ \A h \in Gens : /\ direct'[h].kind = direct[h].kind
                         /\ direct'[h].peer = direct[h].peer
                         /\ h # g => direct'[h] = direct[h]
      /\ direct'[g].st = "up" /\ direct[g].st = "opening"
  BY Typing DEF DirectConnected, DirectTransports
<1>2. \A h \in Gens : direct[h].kind = "none" => direct'[h].st = "over"
  BY <1>1 DEF SessionInv, DirectsBelong, OnCourse
<1>3. CASE g # me.gen
  <2>1. me' = me
    BY <1>3 DEF DirectConnected, OnDirectConnected
  <2> QED
    BY <1>1, <1>2, <1>3, <2>1, Typing, StaleInv
<1>4. CASE g = me.gen
  <2>1. /\ me.phase \in {"connecting", "connected"} /\ direct[me.gen].peer = me.peer
        /\ OnCourse => me.phase = "connecting"
        /\ me.gen = IF direct[me.gen].kind = "ws" THEN me.wsRef ELSE me.wtRef
        /\ direct[me.gen].kind # "none"
    BY <1>1, <1>4 DEF SessionInv, DirectsBelong, OnCourse
  <2>2. PICK d \in {me.peer, NoPeer} : me' = OnDirectConnected(me, me.gen, me.gen, d)
    BY <1>4, <2>1 DEF DirectConnected
  <2>3. me' = [me EXCEPT !.phase = "connected", !.isConnected = TRUE, !.device = d,
                         !.to = NoPeer, !.incoming = NoPeer, !.fileDirect = me.gen]
    BY <2>1, <2>2, Typing DEF OnDirectConnected, ShowConnected, MarkConnected, Clients
  <2>4. me.gen \in 0 .. MaxGen /\ me.peer # NoPeer
    BY <2>1, Typing DEF Gens, SessionInv, StoreMatchesPhase, OnCourse, ShownInTurn
  <2>5. /\ me' \in Clients /\ me'.phase = "connected" /\ me'.gen = me.gen
        /\ me'.peer = me.peer /\ me'.to = NoPeer /\ me'.incoming = NoPeer
        /\ me'.isConnected = TRUE /\ me'.device = d /\ me'.ready = me.ready
        /\ me'.svc = me.svc /\ me'.svcGen = me.svcGen /\ me'.wsRef = me.wsRef
        /\ me'.wtRef = me.wtRef /\ me'.fileDirect = me.gen
    BY <2>3, <2>4, Typing DEF Clients, Phases
  <2>6. ServiceBelongs'
    BY <1>1, <1>4, <2>1, <2>5, Typing DEF SessionInv, ServiceBelongs, EngagedService,
       DirectsBelong, OnCourse, Services
  <2>7. DirectsBelong'
    BY <1>1, <1>2, <1>4, <2>1, <2>5, Typing DEF SessionInv, DirectsBelong, OnCourse
  <2> QED
    BY <1>1, <1>4, <2>1, <2>4, <2>5, <2>6, <2>7, Typing DEF SessionInv, ClientTypeOK,
       BoundedSession, StoreMatchesPhase, OnCourse, ShownInTurn, ConnectedThroughOwnTransport, DirectIsUp
<1> QED
  BY <1>3, <1>4

LEMMA DirectUnavailableInv ==
  ASSUME SessionInv, NEW g \in Gens, DirectUnavailable(g)
  PROVE  SessionInv'
<1>1. /\ direct' \in [Gens -> DirectTransports] /\ UNCHANGED <<unsent, astray>>
      /\ \A h \in Gens : /\ direct'[h].kind = direct[h].kind
                         /\ direct'[h].st \in {direct[h].st, "over"}
                         /\ h # g => direct'[h] = direct[h]
      /\ direct'[g].st = "over" /\ direct[g].st = "opening"
  BY Typing, EndedFacts DEF DirectUnavailable
<1>2. \A h \in Gens : direct[h].kind = "none" => direct'[h].st = "over"
  BY <1>1 DEF SessionInv, DirectsBelong, OnCourse
<1>3. CASE g # me.gen
  <2>1. me' = me
    BY <1>3 DEF DirectUnavailable, OnDirectUnavailable
  <2> QED
    BY <1>1, <1>2, <1>3, <2>1, Typing, StaleInv
<1>4. ASSUME g = me.gen
      PROVE  /\ me.phase \in {"connecting", "connected"}
             /\ OnCourse => me.phase = "connecting"
             /\ direct[me.gen].peer = me.peer
             /\ direct[me.gen].kind # "none" /\ me.peer # NoPeer /\ me.gen < MaxGen
             /\ me.incoming = NoPeer
  BY <1>1, <1>4, Typing DEF SessionInv, DirectsBelong, StoreMatchesPhase, OnCourse, ShownInTurn, ServiceBelongs
<1>5. CASE g = me.gen /\ direct[g].role # "requester"
  <2>1. me' = Reset(me)
    BY <1>5 DEF DirectUnavailable, OnDirectUnavailable
  <2> QED
    BY <1>1, <1>4, <1>5, <2>1, Typing, ResetInv DEF SessionInv, ServiceBelongs, OnCourse
<1>6. CASE g = me.gen /\ direct[g].role = "requester"
  <2> DEFINE c == [me EXCEPT !.to = NoPeer]
  <2>1. /\ c \in Clients /\ c.phase = me.phase /\ c.gen = me.gen
        /\ c.peer = me.peer /\ c.to = NoPeer /\ c.incoming = NoPeer
        /\ c.isConnected = me.isConnected /\ c.device = me.device
        /\ c.ready = me.ready /\ c.svc = me.svc /\ c.svcGen = me.svcGen
        /\ c.wsRef = me.wsRef /\ c.wtRef = me.wtRef
    BY <1>4, <1>6, Typing DEF Clients
  <2>2. me' = Dial(c, me.peer, TRUE)
    BY <1>4, <1>6 DEF DirectUnavailable, OnDirectUnavailable
  <2> HIDE DEF c
  <2>3. DirectsBelong' /\ ClientTypeOK' /\ ServiceBelongs' /\ me'.gen = me.gen
        /\ me'.phase = me.phase /\ me'.peer = me.peer /\ me'.to = NoPeer
        /\ me'.incoming = NoPeer /\ me'.isConnected = me.isConnected
        /\ me'.device = me.device /\ (me'.svcGen # MaxGen \/ me'.svc.st = "none")
    <3>1. CASE ~me.ready
      <4>1. me' = c
        BY <2>1, <2>2, <3>1 DEF Dial
      <4>2. DirectsBelong'
        BY <1>1, <1>2, <1>4, <1>6, <2>1, <4>1, Typing DEF SessionInv, DirectsBelong, OnCourse
      <4>3. ServiceBelongs'
        BY <1>1, <1>4, <1>6, <2>1, <4>1, Typing DEF SessionInv, ServiceBelongs, OnCourse, EngagedService
      <4>4. me'.svc.st = "none"
        BY <2>1, <3>1, <4>1 DEF SessionInv, ServiceBelongs
      <4> QED
        BY <1>1, <2>1, <4>1, <4>2, <4>3, <4>4, Typing DEF ClientTypeOK
    <3>2. CASE me.ready
      <4> DEFINE r == Service("dialing", me.peer, TRUE)
                 fr == FALSE
      <4>1. fr \in BOOLEAN /\ r \in Services /\ r.st = "dialing" /\ r.peer = me.peer
        BY Typing DEF Service, Services, Verifications, Clients
      <4>2. me' = WithService(c, r, me.gen, fr)
        BY <2>1, <2>2, <3>2 DEF Dial, FreshService, WithService, Clients
      <4> HIDE DEF r, fr
      <4>3. /\ me' \in Clients /\ me'.svc = r /\ me'.svcGen = me.gen
            /\ me'.phase = me.phase /\ me'.gen = me.gen /\ me'.peer = me.peer
            /\ me'.to = NoPeer /\ me'.incoming = NoPeer /\ me'.wsRef = me.wsRef
            /\ me'.isConnected = me.isConnected /\ me'.device = me.device
            /\ me'.ready = me.ready /\ me'.wtRef = me.wtRef
        <5>1. me.gen \in Gens
          BY Typing
        <5> DEFINE d == WithService(c, r, me.gen, fr)
        <5>2. /\ d \in Clients /\ d.svc = r /\ d.svcGen = me.gen /\ d.phase = c.phase
              /\ d.gen = c.gen /\ d.peer = c.peer /\ d.to = c.to
              /\ d.incoming = c.incoming /\ d.isConnected = c.isConnected
              /\ d.device = c.device /\ d.ready = c.ready /\ d.wsRef = c.wsRef
              /\ d.wtRef = c.wtRef
          BY <2>1, <4>1, <5>1, ServiceFields
        <5> HIDE DEF d
        <5>3. me' = d
          BY <4>2 DEF d
        <5> QED
          BY <2>1, <5>2, <5>3
      <4>4. DirectsBelong'
        BY <1>1, <1>2, <1>4, <1>6, <4>3, Typing DEF SessionInv, DirectsBelong, OnCourse
      <4>5. ServiceBelongs'
        BY <1>1, <1>4, <1>6, <3>2, <4>1, <4>3, Typing DEF ServiceBelongs, OnCourse, EngagedService, Gens
      <4>6. me.gen # MaxGen
        BY <1>4, <1>6, Typing DEF Gens
      <4> QED
        BY <1>1, <4>3, <4>4, <4>5, <4>6, Typing DEF ClientTypeOK
    <3> QED
      BY <3>1, <3>2
  <2> QED
    BY <1>1, <1>4, <1>6, <2>3, Typing DEF SessionInv, BoundedSession, StoreMatchesPhase, OnCourse, ShownInTurn,
       ConnectedThroughOwnTransport
<1> QED
  BY <1>3, <1>5, <1>6

-----------------------------------------------------------------------------
LEMMA SessionStep == SessionInv /\ [Next]_vars => SessionInv'
<1> SUFFICES ASSUME SessionInv, [Next]_vars PROVE SessionInv'
  OBVIOUS
<1>1. CASE User
  <2>1. ASSUME NEW p \in Peers, SelectPeer(p) PROVE SessionInv'
    BY <2>1, SelectPeerInv DEF SelectPeer
  <2> QED
    BY <1>1, <2>1, AcceptRequestInv, SignalEndsInv, UserDisconnectInv, ReportsInv DEF User
<1>2. CASE Others
  <2>1. ASSUME NEW p \in Peers, RequestArrives(p) PROVE SessionInv'
    <3>1. CASE me.phase = "idle"
      BY <2>1, <3>1, RequestArrivesInv
    <3>2. CASE me.phase # "idle"
      <4>1. me' = me /\ UNCHANGED <<direct, unsent, astray>>
        BY <2>1, <3>2 DEF RequestArrives, OnRequest
      <4> QED
        BY <4>1, Typing, StaleInv DEF SessionInv, DirectsBelong, OnCourse
    <3> QED
      BY <3>1, <3>2
  <2> QED
    BY <1>2, <2>1, AcceptArrivesInv, SignalEndsInv DEF Others
<1>3. CASE Callbacks
  <2>1. ASSUME NEW g \in Gens, SendRejected(g) \/ Settles(g) \/ DirectCloses(g)
        PROVE  SessionInv'
    BY <2>1, SendRejectedInv, DirectConnectedInv, DirectRejectedInv, DirectUnavailableInv,
       DirectClosesInv DEF Settles
  <2>2. ASSUME NEW p \in Peers, ServiceAnswers(p) PROVE SessionInv'
    BY <2>2, ServiceAnswersInv
  <2> QED
    BY <1>3, <2>1, <2>2, IdentityLoadsInv, FailsInv, ReportsInv, ServiceConnectedInv,
       ServiceEndsInv DEF Callbacks
<1>4. CASE UNCHANGED vars
  BY <1>4, Typing, StaleInv DEF vars, SessionInv, DirectsBelong, OnCourse
<1> QED
  BY <1>1, <1>2, <1>3, <1>4 DEF Next

(* Whatever the user does and whenever the other devices and the           *)
(* transports answer, the whole invariant of the client holds.             *)
THEOREM SessionInvariant == Spec => []SessionInv
  BY InitInv, SessionStep, PTL DEF Spec

(* The store always shows the phase the session is in, and its peer.       *)
THEOREM StoreIsExact == Spec => []StoreMatchesPhase
<1>1. SessionInv => StoreMatchesPhase
  BY DEF SessionInv
<1> QED
  BY <1>1, SessionInvariant, PTL

(* Who is shown as connected is connected through a transport that this    *)
(* session made, never through a late one of a session before.             *)
THEOREM ConnectedIsOwn == Spec => []ConnectedThroughOwnTransport
<1>1. SessionInv => ConnectedThroughOwnTransport
  BY DEF SessionInv
<1> QED
  BY <1>1, SessionInvariant, PTL

-----------------------------------------------------------------------------
(* Two consequences, for any peers, page and bound: the trust that is shown *)
(* in a client that never connected to a desktop is its present service's  *)
(* word, and who waits for another device can cancel, but for the two      *)
(* states the property names.  Both are inductive once SessionInv is known *)
(* and a service that was never connected has reported nothing.            *)
NoDirects == \A g \in Gens : direct[g].kind = "none"

Unconnected == {"none", "ready", "dialing", "answering", "rejected"}

ReportIsFresh ==
    OnCourse /\ NoDirects /\ me.svcGen = me.gen /\ me.svc.st \in Unconnected
        => me.svc.report = "legacy"

TrustOK == RtcTrustIsExact /\ ReportIsFresh /\ WaitingCanBeCancelled

TrustInv == SessionInv /\ TrustOK

KindsKept == \A g \in Gens : direct'[g].kind = direct[g].kind

(* Without direct transports none of their callbacks comes. *)
LEMMA NoDirectsFacts ==
    ASSUME SessionInv, NoDirects
    PROVE  /\ \A g \in Gens : direct[g].st = "over"
           /\ OnCourse /\ me.isConnected => me.svc.st = "up" /\ me.svcGen = me.gen
<1>1. \A g \in Gens : direct[g].st = "over"
  BY DEF SessionInv, DirectsBelong, OnCourse, NoDirects
<1>2. me.gen \in Gens
  BY Typing
<1> QED BY <1>1, <1>2 DEF SessionInv, ConnectedThroughOwnTransport, OnCourse, DirectIsUp, ServiceIsUp

(* The session is over: what it trusted goes with it, and nobody waits.    *)
LEMMA EndedTrust ==
    ASSUME TrustInv,
           /\ me'.phase = "idle" /\ me'.gen = me.gen + 1 /\ me'.verification = "legacy"
           /\ me'.svcGen = me.svcGen
    PROVE  TrustOK'
<1> USE DEF TrustInv
<1>1. me.gen \in Nat /\ me.svcGen <= me.gen /\ me.svcGen \in Nat
  BY Typing DEF SessionInv, ServiceBelongs, OnCourse, Gens, Clients
<1>2. RtcTrustIsExact'
  BY <1>1 DEF RtcTrustIsExact
<1>3. ReportIsFresh'
  BY <1>1 DEF ReportIsFresh
<1>4. WaitingCanBeCancelled'
  BY DEF WaitingCanBeCancelled, OnCourse
<1> QED BY <1>2, <1>3, <1>4 DEF TrustOK

(* The service of the session was led astray: nothing is claimed of it.    *)
LEMMA StrayTrust == ASSUME me'.gen \in astray' PROVE TrustOK'
  BY DEF TrustOK, RtcTrustIsExact, ReportIsFresh, WaitingCanBeCancelled, OnCourse

(* The session goes on with the service it has. *)
LEMMA SameServiceTrust ==
    ASSUME TrustInv, UNCHANGED astray,
           \A g \in Gens : direct'[g].kind = "none" => direct[g].kind = "none",
           /\ me'.gen = me.gen /\ me'.svcGen = me.svcGen /\ me'.svc = me.svc
           /\ NoDirects => me'.verification = me.verification,
           \/ me'.phase \notin {"requesting", "connecting"}
           \/ me'.to # NoPeer
           \/ me'.phase = me.phase /\ me'.to = me.to /\ KindsKept
    PROVE  TrustOK'
<1> USE DEF TrustInv
<1>1. RtcTrustIsExact'
  BY DEF TrustOK, RtcTrustIsExact, OnCourse, NoDirects
<1>2. ReportIsFresh'
  BY DEF TrustOK, ReportIsFresh, OnCourse, NoDirects
<1>3. WaitingCanBeCancelled'
  BY Typing DEF TrustOK, WaitingCanBeCancelled, OnCourse, KindsKept
<1> QED BY <1>1, <1>2, <1>3 DEF TrustOK

(* A service that was not up is given up for a new one, which has reported *)
(* nothing.                                                                *)
LEMMA FreshServiceTrust ==
    ASSUME TrustInv, KindsKept, UNCHANGED astray,
           OnCourse => ~ (me.svc.st = "up" /\ me.svcGen = me.gen),
           /\ me'.gen = me.gen /\ me'.svcGen = me.gen
           /\ me'.verification = me.verification
           /\ me'.svc.st \in {"ready", "dialing"} /\ me'.svc.report = "legacy",
           \/ me'.phase \notin {"requesting", "connecting"}
           \/ me'.to # NoPeer
           \/ direct[me.gen].kind = "wt"
           \/ /\ me'.svc.st = "ready" /\ me.svc.st = "none"
              /\ me'.phase = me.phase /\ me'.to = me.to
    PROVE  TrustOK'
<1> USE DEF TrustInv
<1>1. RtcTrustIsExact'
  BY DEF TrustOK, RtcTrustIsExact, OnCourse, KindsKept
<1>2. ReportIsFresh'
  BY DEF ReportIsFresh, OnCourse
<1>3. WaitingCanBeCancelled'
  BY Typing DEF TrustOK, WaitingCanBeCancelled, OnCourse, KindsKept
<1> QED BY <1>1, <1>2, <1>3 DEF TrustOK

(* What a reset leaves. *)
LEMMA ResetLeaves ==
    ASSUME NEW c \in Clients
    PROVE  /\ Reset(c).phase = "idle" /\ Reset(c).gen = c.gen + 1
           /\ Reset(c).verification = "legacy"
           /\ Reset(c).svc = c.svc /\ Reset(c).svcGen = c.svcGen
  BY DEF Reset, Clients

LEMMA ResetTrust == ASSUME TrustInv, me' = Reset(me) PROVE TrustOK'
<1>1. me \in Clients
  BY Typing DEF TrustInv
<1> QED BY <1>1, ResetLeaves, EndedTrust

(* disconnect() also drops the service. *)
LEMMA HangUpTrust ==
    ASSUME TrustInv, me.phase # "idle", me' = OnDisconnect(me)
    PROVE  TrustOK'
<1> DEFINE f == IF me.wtRef # NoRef \/ me.wsRef # NoRef THEN NoRef ELSE me.fileDirect
           c == [me EXCEPT !.svc = NoService, !.fileRtc = FALSE,
                           !.wtRef = NoRef, !.wsRef = NoRef, !.fileDirect = f]
<1>1. me' = Reset(c)
  BY DEF OnDisconnect
<1>2. me \in Clients /\ f \in 0 .. MaxGen /\ NoRef \in 0 .. MaxGen
  BY Typing, MaxGenAssumption DEF TrustInv, Clients, NoRef
<1> HIDE DEF f
<1>3. NoService \in Services
  BY DEF NoService, Service, Services, Verifications
<1>4. c \in Clients
  BY <1>2, <1>3 DEF Clients
<1>5. c.gen = me.gen /\ c.svc = NoService /\ c.svcGen = me.svcGen
  BY <1>2 DEF Clients
<1> HIDE DEF c
<1> QED BY <1>1, <1>3, <1>4, <1>5, ResetLeaves, EndedTrust

-----------------------------------------------------------------------------
(* The user. *)
LEMMA UserTrust == ASSUME TrustInv, SessionInv', User PROVE TrustOK'
<1> USE DEF TrustInv
<1>0. astray' = astray
  BY DEF User, SelectPeer, AcceptRequest, DeclineRequest, CancelRequest, Disconnect, HangUp,
     MarkVerified
<1>1. ASSUME NEW p \in Peers, SelectPeer(p) PROVE TrustOK'
  <2>1. me' = [me EXCEPT !.phase = "requesting", !.peer = p, !.to = p]
    BY <1>1 DEF SelectPeer, OnSelectPeer
  <2>2. /\ me'.gen = me.gen /\ me'.svcGen = me.svcGen /\ me'.svc = me.svc
        /\ me'.verification = me.verification /\ me'.to = p
    BY <2>1, Typing DEF Clients
  <2> QED BY <1>0, <1>1, <2>2, SameServiceTrust, PageAssumption DEF SelectPeer
<1>2. CASE AcceptRequest
  <2>1. me.phase = "incoming_request" /\ me.incoming = me.peer /\ me.incoming # NoPeer
    BY <1>2 DEF AcceptRequest, SessionInv, StoreMatchesPhase, OnCourse, ShownInTurn
  <2>2. CASE me.pending # "rtc"
    <3>1. /\ me'.gen = me.gen /\ me'.svcGen = me.svcGen /\ me'.svc = me.svc
          /\ me'.verification = me.verification /\ me'.to = me.incoming
      BY <1>2, <2>1, <2>2, Typing, ZenonT(60)
      DEF AcceptRequest, OnAccept, Attempt, BeginConnecting, Clients
    <3>2. \A g \in Gens : direct'[g].kind = "none" => direct[g].kind = "none"
      <4>1. direct' = [direct EXCEPT ![me.gen] = Made(me.pending, me.incoming, "responder")]
        BY <1>2, <2>2 DEF AcceptRequest
      <4>2. Made(me.pending, me.incoming, "responder").kind # "none"
        BY Typing DEF Made, Clients
      <4> QED BY <4>1, <4>2, Typing
    <3> QED BY <1>0, <2>1, <3>1, <3>2, SameServiceTrust
  <2>3. CASE me.pending = "rtc" /\ ~me.ready
    <3>1. /\ me'.gen = me.gen /\ me'.svcGen = me.svcGen /\ me'.svc = me.svc
          /\ me'.verification = me.verification /\ me'.to = me.incoming
      BY <1>2, <2>1, <2>3, Typing, ZenonT(60)
      DEF AcceptRequest, OnAccept, Attempt, BeginConnecting, FreshService, Clients
    <3>2. direct' = direct
      BY <1>2, <2>3 DEF AcceptRequest
    <3> QED BY <1>0, <2>1, <3>1, <3>2, SameServiceTrust
  <2>4. CASE me.pending = "rtc" /\ me.ready
    <3>1. /\ me'.gen = me.gen /\ me'.svcGen = me.gen
          /\ me'.svc = Service("ready", NoPeer, FALSE)
          /\ me'.verification = me.verification /\ me'.to = me.incoming
      BY <1>2, <2>1, <2>4, Typing, ZenonT(60)
      DEF AcceptRequest, OnAccept, Attempt, BeginConnecting, FreshService, Clients
    <3>2. direct' = direct
      BY <1>2, <2>4 DEF AcceptRequest
    <3>3. OnCourse => ~ (me.svc.st = "up" /\ me.svcGen = me.gen)
      BY <2>1 DEF SessionInv, ServiceBelongs, OnCourse
    <3>4. me'.svc.st = "ready" /\ me'.svc.report = "legacy"
      BY <3>1 DEF Service
    <3> QED BY <1>0, <2>1, <3>1, <3>2, <3>3, <3>4, FreshServiceTrust DEF KindsKept
  <2> QED BY <2>2, <2>3, <2>4
<1>3. CASE DeclineRequest \/ CancelRequest
  BY <1>3, ResetTrust DEF DeclineRequest, CancelRequest, OnDecline, OnCancel, KindsKept
<1>4. CASE Disconnect
  <2>1. me' = OnDisconnect(me) /\ me.phase # "idle" /\ KindsKept
    BY <1>4, Typing, EndedFacts DEF Disconnect, HangUp, KindsKept
  <2> QED BY <2>1, HangUpTrust
<1>5. CASE MarkVerified
  <2>1. direct' \in [Gens -> DirectTransports] /\ KindsKept
    BY <1>5, Typing DEF MarkVerified, KindsKept, DirectTransports, Verifications
  <2>2. OnCourse => me.phase = "connected"
    BY <1>5 DEF MarkVerified, SessionInv, StoreMatchesPhase, OnCourse, ShownInTurn
  <2>5. CASE ~OnCourse
    <3>1. me'.gen = me.gen
      BY <1>5, Typing DEF MarkVerified, OnVerification, Clients, Services
    <3> QED BY <1>0, <2>5, <3>1, StrayTrust DEF OnCourse
  <2>3. CASE OnCourse /\ NoDirects
    <3>1. me.svc.st = "up" /\ me.svcGen = me.gen
      BY <1>5, <2>3, NoDirectsFacts DEF MarkVerified
    <3>2. \A g \in 0 .. MaxGen : g # NoRef => direct[g].st # "up"
      BY <2>3, NoDirectsFacts DEF Gens, NoRef
    <3>3. me' = [OnVerification(me, "verified") EXCEPT !.svc.report = "verified"]
      BY <1>5, <3>2, Typing DEF MarkVerified, Clients
    <3>4. /\ me'.verification = "verified" /\ me'.svc.report = "verified"
          /\ me'.gen = me.gen /\ me'.svcGen = me.svcGen /\ me'.svc.st = "up"
          /\ me'.phase = me.phase
      BY <3>1, <3>3, Typing DEF OnVerification, Clients, Services
    <3> QED BY <1>0, <2>2, <2>3, <3>1, <3>4 DEF OnCourse, TrustOK, RtcTrustIsExact, ReportIsFresh,
          WaitingCanBeCancelled, Unconnected
  <2>4. CASE OnCourse /\ ~NoDirects
    <3>1. me'.phase = me.phase
      BY <1>5, Typing DEF MarkVerified, OnVerification, Clients, Services
    <3>2. ~ NoDirects'
      BY <2>1, <2>4 DEF NoDirects, KindsKept
    <3> QED BY <2>2, <2>4, <3>1, <3>2 DEF TrustOK, RtcTrustIsExact, ReportIsFresh,
          WaitingCanBeCancelled, NoDirects
  <2> QED BY <2>3, <2>4, <2>5
<1> QED BY <1>1, <1>2, <1>3, <1>4, <1>5 DEF User

-----------------------------------------------------------------------------
(* The other devices. *)
LEMMA OthersTrust == ASSUME TrustInv, Others PROVE TrustOK'
<1> USE DEF TrustInv
<1>0. astray' = astray
  BY DEF Others, RequestArrives, AcceptArrives, DeclineArrives, PeerLeaves
<1>1. ASSUME NEW p \in Peers, RequestArrives(p) PROVE TrustOK'
  <2>1. UNCHANGED direct
    BY <1>1 DEF RequestArrives
  <2>2. CASE me' = me
    BY <1>0, <2>1, <2>2, SameServiceTrust DEF KindsKept
  <2>3. CASE me' # me
    <3>1. PICK urls \in SUBSET Urls : me' = OnRequest(me, p, urls)
      BY <1>1 DEF RequestArrives
    <3>2. me' = [me EXCEPT !.phase = "incoming_request", !.peer = p, !.incoming = p,
                           !.pending = Route(urls)]
      BY <2>3, <3>1 DEF OnRequest
    <3>3. /\ me'.gen = me.gen /\ me'.svcGen = me.svcGen /\ me'.svc = me.svc
          /\ me'.verification = me.verification /\ me'.phase = "incoming_request"
      BY <3>2, Typing DEF Clients
    <3> QED BY <1>0, <2>1, <3>3, SameServiceTrust
  <2> QED BY <2>2, <2>3
<1>2. ASSUME NEW p \in Peers, AcceptArrives(p) PROVE TrustOK'
  <2>1. PICK urls \in SUBSET Urls :
          /\ me' = OnAccepted(me, p, urls)
          /\ direct' = IF me'.phase = "connecting" /\ me.phase # "connecting"
                          /\ Route(urls) # "rtc"
                       THEN [direct EXCEPT ![me.gen] = Made(Route(urls), p, "requester")]
                       ELSE direct
    BY <1>2 DEF AcceptArrives
  <2>2. \A g \in Gens : direct'[g].kind = "none" => direct[g].kind = "none"
    <3>1. Route(urls) # "rtc" => Made(Route(urls), p, "requester").kind # "none"
      BY DEF Made, Route
    <3> QED BY <2>1, <3>1, Typing
  <2>3. CASE ~ (me.phase = "requesting" /\ me.to = p)
    <3>1. me' = me /\ direct' = direct
      BY <2>1, <2>3 DEF OnAccepted
    <3> QED BY <1>0, <3>1, SameServiceTrust DEF KindsKept
  <2>4. CASE me.phase = "requesting" /\ me.to = p
             /\ (Route(urls) # "rtc" \/ ~me.ready)
    <3>1. /\ me'.gen = me.gen /\ me'.svcGen = me.svcGen /\ me'.svc = me.svc
          /\ me'.verification = me.verification /\ me'.to = p
      BY <2>1, <2>4, Typing, ZenonT(60) DEF OnAccepted, Attempt, BeginConnecting, Dial, Clients
    <3> QED BY <1>0, <2>2, <3>1, SameServiceTrust, PageAssumption
  <2>5. CASE me.phase = "requesting" /\ me.to = p /\ Route(urls) = "rtc" /\ me.ready
    <3> DEFINE b == [me EXCEPT !.phase = "connecting"]
               f == [b EXCEPT !.svc = Service("ready", NoPeer, FALSE), !.svcGen = me.gen,
                              !.fileRtc = FALSE]
    <3>1. Attempt(me, "rtc") = b /\ b \in Clients /\ b.ready /\ b.gen = me.gen
          /\ b.verification = me.verification /\ b.to = p
      BY <2>5, Typing DEF Attempt, BeginConnecting, Clients, Phases
    <3>2. me' = [f EXCEPT !.svc = Service("dialing", p, FALSE)]
      BY <2>1, <2>5, <3>1 DEF OnAccepted, Dial, FreshService
    <3>3. me' = [b EXCEPT !.svc = Service("dialing", p, FALSE), !.svcGen = me.gen,
                          !.fileRtc = FALSE]
      BY <3>1, <3>2 DEF Clients
    <3> HIDE DEF b
    <3>4. /\ me'.gen = me.gen /\ me'.svcGen = me.gen
          /\ me'.svc = Service("dialing", p, FALSE)
          /\ me'.verification = me.verification /\ me'.to = p
      BY <3>1, <3>3 DEF Clients
    <3>5. me'.svc.st = "dialing" /\ me'.svc.report = "legacy"
      BY <3>4 DEF Service
    <3>6. OnCourse => ~ (me.svc.st = "up" /\ me.svcGen = me.gen)
      BY <2>5 DEF SessionInv, ServiceBelongs, OnCourse
    <3> QED BY <1>0, <2>1, <2>5, <3>4, <3>5, <3>6, FreshServiceTrust, PageAssumption DEF KindsKept
  <2> QED BY <2>3, <2>4, <2>5
<1>3. ASSUME NEW p \in Peers, DeclineArrives(p) \/ PeerLeaves(p) PROVE TrustOK'
  <2>1. (me' = me \/ me' = Reset(me)) /\ UNCHANGED direct
    BY <1>3 DEF DeclineArrives, PeerLeaves, OnPeerLost, OnDeclined
  <2> QED BY <1>0, <2>1, ResetTrust, SameServiceTrust DEF KindsKept
<1> QED BY <1>1, <1>2, <1>3 DEF Others

-----------------------------------------------------------------------------
(* The callbacks of direct transports: none comes without such a transport, *)
(* so that only the waiting is at stake.                                   *)
LEMMA DirectTrust ==
    ASSUME TrustInv, SessionInv', KindsKept, ~NoDirects, UNCHANGED astray,
           \/ me'.phase \notin {"requesting", "connecting"}
           \/ me'.to # NoPeer
           \/ /\ me'.phase = me.phase /\ me'.to = me.to /\ me'.gen = me.gen
              /\ me'.svcGen = me.svcGen /\ me'.svc = me.svc
    PROVE  TrustOK'
<1> USE DEF TrustInv
<1>1. RtcTrustIsExact' /\ ReportIsFresh'
  BY DEF RtcTrustIsExact, ReportIsFresh, NoDirects, KindsKept
<1>2. WaitingCanBeCancelled'
  BY Typing DEF TrustOK, WaitingCanBeCancelled, OnCourse, KindsKept
<1> QED BY <1>1, <1>2 DEF TrustOK

LEMMA DirectCallbackTrust ==
    ASSUME TrustInv, SessionInv', NEW g \in Gens,
           Settles(g) \/ DirectFails(g) \/ DirectCloses(g) \/ DirectReports(g)
    PROVE  TrustOK'
<1> USE DEF TrustInv
<1>1. KindsKept /\ UNCHANGED astray
  BY Typing, EndedFacts DEF Settles, DirectConnected, DirectRejected, DirectUnavailable, DirectFails,
     DirectCloses, DirectReports, KindsKept, DirectTransports
<1>2. ~NoDirects
  BY NoDirectsFacts DEF Settles, DirectConnected, DirectRejected, DirectUnavailable,
     DirectFails, DirectCloses, DirectReports
<1>3. CASE DirectConnected(g)
  <2>1. CASE g # me.gen
    <3>1. me' = me
      BY <1>3, <2>1 DEF DirectConnected, OnDirectConnected
    <3> QED BY <1>1, <1>2, <3>1, DirectTrust
  <2>2. CASE g = me.gen
    <3>1. me.phase \in {"connecting", "connected"}
      BY <1>3, <2>2 DEF DirectConnected, SessionInv, DirectsBelong
    <3>2. me'.phase = "connected"
      BY <1>3, <2>2, <3>1, Typing
      DEF DirectConnected, OnDirectConnected, ShowConnected, MarkConnected, Clients
    <3> QED BY <1>1, <1>2, <3>2, DirectTrust
  <2> QED BY <2>1, <2>2
<1>4. CASE DirectRejected(g) \/ DirectFails(g)
  <2>1. me' = me \/ me' = Reset(me)
    BY <1>4 DEF DirectRejected, OnDirectRejected, DirectFails, OnError
  <2> QED BY <1>1, <1>2, <2>1, DirectTrust, ResetTrust
<1>5. CASE DirectUnavailable(g)
  <2>1. CASE g # me.gen \/ direct[g].role # "requester"
    <3>1. me' = me \/ me' = Reset(me)
      BY <1>5, <2>1 DEF DirectUnavailable, OnDirectUnavailable
    <3> QED BY <1>1, <1>2, <3>1, DirectTrust, ResetTrust
  <2>2. CASE g = me.gen /\ direct[g].role = "requester"
    <3> DEFINE c == [me EXCEPT !.to = NoPeer]
    <3>1. me' = Dial(c, direct[g].peer, TRUE)
      BY <1>5, <2>2 DEF DirectUnavailable, OnDirectUnavailable
    <3>2. /\ c \in Clients /\ c.gen = me.gen /\ c.ready = me.ready /\ c.svc = me.svc
          /\ c.verification = me.verification /\ c.svcGen = me.svcGen
      BY Typing DEF Clients
    <3> HIDE DEF c
    <3>3. direct[me.gen].kind = "wt"
      BY <1>5, <2>2 DEF DirectUnavailable
    <3>4. OnCourse => ~ (me.svc.st = "up" /\ me.svcGen = me.gen)
      BY <1>5, <2>2 DEF DirectUnavailable, SessionInv, DirectsBelong, OnCourse
    <3>5. CASE me.ready
      <4>1. me' = [FreshService(c) EXCEPT
                      !.svc = Service("dialing", direct[g].peer, TRUE)]
        BY <3>1, <3>2, <3>5 DEF Dial
      <4>2. /\ me'.gen = me.gen /\ me'.svcGen = me.gen
            /\ me'.svc = Service("dialing", direct[g].peer, TRUE)
            /\ me'.verification = me.verification
        BY <3>2, <3>5, <4>1 DEF FreshService, Clients
      <4>3. me'.svc.st = "dialing" /\ me'.svc.report = "legacy"
        BY <4>2 DEF Service
      <4> QED BY <1>1, <3>3, <3>4, <4>2, <4>3, FreshServiceTrust
    <3>6. CASE ~me.ready
      <4>1. me' = c
        BY <3>1, <3>2, <3>6 DEF Dial
      <4>2. me.svc.st = "none"
        BY <3>6 DEF SessionInv, ServiceBelongs, OnCourse
      <4>3. RtcTrustIsExact' /\ ReportIsFresh'
        BY <1>1, <1>2 DEF RtcTrustIsExact, OnCourse, ReportIsFresh, NoDirects, KindsKept
      <4>4. WaitingCanBeCancelled'
        BY <1>1, <3>2, <3>3, <4>1, <4>2, Typing DEF WaitingCanBeCancelled, OnCourse, KindsKept
      <4> QED BY <4>3, <4>4 DEF TrustOK
    <3> QED BY <3>5, <3>6
  <2> QED BY <2>1, <2>2
<1>6. CASE DirectCloses(g)
  <2>1. me' = me \/ (me' = OnDisconnect(me) /\ me.phase # "idle")
    BY <1>6 DEF DirectCloses, OnDisconnect
  <2> QED BY <1>1, <1>2, <2>1, DirectTrust, HangUpTrust
<1>7. CASE DirectReports(g)
  <2>1. /\ me'.phase = me.phase /\ me'.to = me.to /\ me'.gen = me.gen
        /\ me'.svcGen = me.svcGen /\ me'.svc = me.svc
    BY <1>7, Typing DEF DirectReports, OnVerification, Clients
  <2> QED BY <1>1, <1>2, <2>1, DirectTrust
<1> QED BY <1>3, <1>4, <1>5, <1>6, <1>7 DEF Settles

-----------------------------------------------------------------------------
(* The callbacks of the service, and the other promises. *)
LEMMA PromiseTrust ==
    ASSUME TrustInv, IdentityLoads \/ \E g \in Gens : SendRejected(g)
    PROVE  TrustOK'
<1> USE DEF TrustInv
<1>1. CASE IdentityLoads
  <2> DEFINE r == [me EXCEPT !.ready = TRUE]
  <2>1. me' = FreshService(r) /\ UNCHANGED <<direct, astray>> /\ ~me.ready
    BY <1>1 DEF IdentityLoads, OnIdentity
  <2>2. /\ r \in Clients /\ r.ready = TRUE /\ r.gen = me.gen /\ r.phase = me.phase
        /\ r.to = me.to /\ r.verification = me.verification
    BY Typing DEF Clients
  <2> HIDE DEF r
  <2>3. /\ me'.gen = me.gen /\ me'.svcGen = me.gen /\ me'.phase = me.phase /\ me'.to = me.to
        /\ me'.svc = Service("ready", NoPeer, FALSE)
        /\ me'.verification = me.verification
    BY <2>1, <2>2 DEF FreshService, Clients
  <2>4. me'.svc.st = "ready" /\ me'.svc.report = "legacy"
    BY <2>3 DEF Service
  <2>5. me.svc.st = "none"
    BY <2>1 DEF SessionInv, ServiceBelongs, OnCourse
  <2> QED BY <2>1, <2>3, <2>4, <2>5, FreshServiceTrust DEF KindsKept
<1>2. ASSUME NEW g \in Gens, SendRejected(g) PROVE TrustOK'
  BY <1>2, ResetTrust, SameServiceTrust DEF SendRejected, OnSendRejected, KindsKept
<1> QED BY <1>1, <1>2

LEMMA ServiceTrust ==
    ASSUME TrustInv,
           \/ \E p \in Peers : ServiceAnswers(p)
           \/ ServiceConnected \/ ServiceEnds \/ ServiceFails
           \/ ServiceReports \/ DialRejected
    PROVE  TrustOK'
<1> USE DEF TrustInv
<1>1. /\ KindsKept
      /\ ServiceConnected \/ ServiceEnds \/ ServiceFails \/ ServiceReports \/ DialRejected
            => UNCHANGED astray
  BY DEF ServiceAnswers, ServiceConnected, ServiceEnds, ServiceFails, ServiceReports,
     DialRejected, KindsKept
<1>2. ASSUME NEW p \in Peers, ServiceAnswers(p) PROVE TrustOK'
  <2>1. /\ me' = [me EXCEPT !.svc.st = "answering", !.svc.peer = p]
        /\ me.svc.st = "ready"
    BY <1>2 DEF ServiceAnswers, OnOffer
  <2>2. /\ me'.gen = me.gen /\ me'.svcGen = me.svcGen /\ me'.phase = me.phase
        /\ me'.to = me.to /\ me'.verification = me.verification
        /\ me'.svc.st = "answering" /\ me'.svc.report = me.svc.report
    BY <2>1, Typing DEF Clients, Services
  <2>3. CASE me'.gen \in astray'
    BY <2>3, StrayTrust
  <2>4. CASE me'.gen \notin astray'
    <3>1. OnCourse
      BY <1>2, <2>2, <2>4 DEF ServiceAnswers, OnCourse
    <3> QED BY <1>1, <2>1, <2>2, <3>1, Typing DEF TrustOK, RtcTrustIsExact, ReportIsFresh,
          NoDirects, WaitingCanBeCancelled, KindsKept, Unconnected
  <2> QED BY <2>3, <2>4
<1>3. CASE ServiceConnected
  <2>1. me.svc.st \in {"dialing", "answering"} /\ UNCHANGED astray
    BY <1>3 DEF ServiceConnected
  <2>4. CASE ~OnCourse
    <3>1. me'.gen = me.gen
      BY <1>3, Typing
      DEF ServiceConnected, OnServiceConnected, ShowConnected, MarkConnected, Clients, Services
    <3> QED BY <2>1, <2>4, <3>1, StrayTrust DEF OnCourse
  <2>2. CASE OnCourse /\ me.svcGen = me.gen
    <3>1. me.phase = "connecting"
      BY <2>1, <2>2 DEF SessionInv, ServiceBelongs, OnCourse, EngagedService
    <3>2. PICK d \in {me.svc.peer, NoPeer} :
             me' = [ShowConnected(me, d) EXCEPT !.svc.st = "up", !.fileRtc = TRUE]
      BY <1>3, <2>2 DEF ServiceConnected, OnServiceConnected
    <3>3. /\ me'.gen = me.gen /\ me'.svcGen = me.svcGen /\ me'.phase = "connected"
          /\ me'.verification = me.verification
          /\ me'.svc.st = "up" /\ me'.svc.report = me.svc.report
      <4>1. me.svc.peer \in Peers \cup {NoPeer}
        BY Typing DEF Services
      <4> QED BY <3>1, <3>2, <4>1, Typing DEF ShowConnected, MarkConnected, Clients, Services
    <3> QED BY <1>1, <2>1, <2>2, <3>3 DEF TrustOK, RtcTrustIsExact, OnCourse, ReportIsFresh, NoDirects,
          WaitingCanBeCancelled, KindsKept, Unconnected
  <2>3. CASE me.svcGen # me.gen
    <3>1. me' = [me EXCEPT !.svc.st = "up"]
      BY <1>3, <2>3 DEF ServiceConnected, OnServiceConnected
    <3>2. /\ me'.gen = me.gen /\ me'.svcGen = me.svcGen /\ me'.phase = me.phase
          /\ me'.to = me.to /\ me'.verification = me.verification /\ me'.svc.st = "up"
      BY <3>1, Typing DEF Clients, Services
    <3> QED BY <1>1, <2>1, <2>3, <3>2, Typing DEF TrustOK, RtcTrustIsExact, OnCourse, ReportIsFresh,
          NoDirects, WaitingCanBeCancelled, KindsKept, Unconnected
  <2> QED BY <2>2, <2>3, <2>4
<1>4. CASE ServiceEnds
  <2> DEFINE over == [me EXCEPT !.svc.st = "over"]
             c == [over EXCEPT !.fileRtc = FALSE]
  <2>1. /\ over \in Clients /\ over.gen = me.gen /\ over.svcGen = me.svcGen
        /\ over.phase = me.phase /\ over.to = me.to
        /\ over.verification = me.verification
        /\ over.svc.st = "over" /\ over.svc.report = me.svc.report
    BY Typing DEF Clients, Services
  <2>2. me' = IF me.svcGen = me.gen THEN Reset(c) ELSE over
    BY <1>4 DEF ServiceEnds, OnServiceEnded
  <2> HIDE DEF over
  <2>3. c \in Clients /\ c.gen = over.gen /\ c.svc = over.svc /\ c.svcGen = over.svcGen
    BY <2>1 DEF Clients
  <2> HIDE DEF c
  <2>4. CASE me.svcGen = me.gen
    BY <1>1, <2>1, <2>2, <2>3, <2>4, ResetLeaves, EndedTrust
  <2>5. CASE me.svcGen # me.gen
    <3>1. me' = over
      BY <2>2, <2>5
    <3> QED BY <1>1, <1>4, <2>1, <2>5, <3>1, Typing DEF TrustOK, RtcTrustIsExact, OnCourse, ReportIsFresh,
          NoDirects, WaitingCanBeCancelled, KindsKept, Unconnected
  <2> QED BY <2>4, <2>5
<1>5. CASE ServiceFails
  BY <1>1, <1>5, ResetTrust DEF ServiceFails, OnError
<1>6. CASE ServiceReports
  <2>1. PICK v \in Verifications :
           me' = [OnVerification(me, v)
                     EXCEPT !.svc.report = IF me.svcGen = me.gen THEN v ELSE @]
    BY <1>6 DEF ServiceReports
  <2>2. /\ me'.gen = me.gen /\ me'.svcGen = me.svcGen /\ me'.phase = me.phase
        /\ me'.to = me.to /\ me'.svc.st = me.svc.st
        /\ me.svcGen = me.gen => me'.svc.report = v
        /\ me'.verification = IF me.svcGen = me.gen THEN v ELSE me.verification
        /\ me'.svc.fallback = me.svc.fallback
    BY <2>1, Typing DEF OnVerification, Clients, Services
  <2>3. me.svc.st = "up"
    BY <1>6 DEF ServiceReports
  <2> QED BY <1>1, <1>6, <2>2, <2>3, Typing DEF TrustOK, RtcTrustIsExact, OnCourse, ReportIsFresh, NoDirects,
        WaitingCanBeCancelled, KindsKept, Unconnected
<1>7. CASE DialRejected
  <2> DEFINE r == [me EXCEPT !.svc.st = "rejected"]
             shown == [r EXCEPT !.to = NoPeer]
  <2>1. me.svc.st = "dialing"
    BY <1>7 DEF DialRejected
  <2>2. /\ r \in Clients /\ r.gen = me.gen /\ r.svcGen = me.svcGen /\ r.phase = me.phase
        /\ r.to = me.to /\ r.verification = me.verification
        /\ r.svc.st = "rejected" /\ r.svc.report = me.svc.report
        /\ r.svc.fallback = me.svc.fallback
    BY Typing DEF Clients, Services
  <2>3. \/ me' = r /\ me.svcGen # me.gen
        \/ me' = Reset(shown)
        \/ me' = shown /\ me.svcGen = me.gen /\ ~me.svc.fallback
    BY <1>7 DEF DialRejected, OnDialRejected
  <2> HIDE DEF r
  <2>4. /\ shown \in Clients /\ shown.gen = r.gen /\ shown.svcGen = r.svcGen
        /\ shown.svc = r.svc /\ shown.verification = r.verification
    BY <2>2 DEF Clients
  <2> HIDE DEF shown
  <2>5. CASE me' = Reset(shown)
    BY <1>1, <2>1, <2>2, <2>4, <2>5, ResetLeaves, EndedTrust DEF Unconnected
  <2>6. CASE me' = r /\ me.svcGen # me.gen
    BY <1>1, <1>7, <2>1, <2>2, <2>6, Typing DEF TrustOK, RtcTrustIsExact, OnCourse, ReportIsFresh, NoDirects,
       WaitingCanBeCancelled, KindsKept, Unconnected
  <2>7. CASE me' = shown /\ me.svcGen = me.gen /\ ~me.svc.fallback
    BY <1>1, <1>7, <2>1, <2>2, <2>4, <2>7, Typing DEF TrustOK, RtcTrustIsExact, OnCourse, ReportIsFresh,
       NoDirects, WaitingCanBeCancelled, KindsKept, Unconnected
  <2> QED BY <2>3, <2>5, <2>6, <2>7
<1> QED BY <1>2, <1>3, <1>4, <1>5, <1>6, <1>7

-----------------------------------------------------------------------------
LEMMA TrustInit == Init => TrustInv
<1> SUFFICES ASSUME Init PROVE TrustInv
  OBVIOUS
<1>1. me.phase = "idle" /\ me.verification = "legacy"
      /\ me.svc.st = "none" /\ me.svc.report = "legacy"
  BY DEF Init, InitialClient, NoService, Service
<1> QED BY <1>1, InitInv DEF TrustInv, TrustOK, RtcTrustIsExact, OnCourse, ReportIsFresh,
      WaitingCanBeCancelled

LEMMA TrustStep == TrustInv /\ [Next]_vars => TrustInv'
<1> SUFFICES ASSUME TrustInv, [Next]_vars PROVE TrustInv'
  OBVIOUS
<1>1. SessionInv'
  BY SessionStep DEF TrustInv
<1>2. CASE UNCHANGED vars
  BY <1>1, <1>2, SameServiceTrust DEF vars, KindsKept, TrustInv
<1>3. CASE User
  BY <1>1, <1>3, UserTrust DEF TrustInv
<1>4. CASE Others
  BY <1>1, <1>4, OthersTrust DEF TrustInv
<1>5. CASE Callbacks
  BY <1>1, <1>5, PromiseTrust, ServiceTrust, DirectCallbackTrust DEF Callbacks, TrustInv
<1> QED BY <1>2, <1>3, <1>4, <1>5 DEF Next

(* The invariant of trust and waiting holds along every run of the client. *)
THEOREM TrustInvariant == Spec => []TrustInv
  BY TrustInit, TrustStep, PTL DEF Spec

(* A client that never connected to a desktop shows the trust its present  *)
(* service reported, and none of a session before.                         *)
THEOREM TrustIsThePresentOne == Spec => []RtcTrustIsExact
<1>1. TrustInv => RtcTrustIsExact
  BY DEF TrustInv, TrustOK
<1> QED BY <1>1, TrustInvariant, PTL

(* Who waits can cancel, but for the two states named. *)
THEOREM WaitingEndsByTheUser == Spec => []WaitingCanBeCancelled
<1>1. TrustInv => WaitingCanBeCancelled
  BY DEF TrustInv, TrustOK
<1> QED BY <1>1, TrustInvariant, PTL
=============================================================================
