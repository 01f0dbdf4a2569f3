---------------------------- MODULE ClientSession ----------------------------
(***************************************************************************)
(* One browser client among other devices: the user, the signals of the    *)
(* others, and the callbacks of every transport it ever made, in any order *)
(* and as late as they like.  A direct transport (WebSocket or WebTransport *)
(* to a desktop) lives on after the session that made it was reset, unless *)
(* disconnect() hung it up; the WebRTC service lives until it is retired.  *)
(*                                                                         *)
(* The service is made without a word about whom it should hear, and what  *)
(* the SDK turns away is not in these sources: here it takes the first     *)
(* offer that reaches it, of any device, early, late or unasked.  astray   *)
(* names the generations whose own service took one that their session was *)
(* not waiting for.                                                        *)
(*                                                                         *)
(* MaxGen bounds the generations: from MaxGen on no session is begun, no   *)
(* service made then is offered a connection and no transport reports an   *)
(* error.  Whatever is under way can still end.                            *)
(***************************************************************************)
EXTENDS PeerConnection

CONSTANT MaxGen

ASSUME MaxGenAssumption == MaxGen \in Nat \ {0}

VARIABLES
    me,       \* the client
    direct,   \* the direct transport made in each generation
    unsent,   \* generations whose request could not be sent; the promise is unsettled
    astray    \* history: generations whose own service took a stray offer

vars == <<me, direct, unsent, astray>>

Gens == 1 .. MaxGen

Roles == {"requester", "responder"}

NoDirect == [kind |-> "none", peer |-> NoPeer, role |-> "requester",
             st |-> "over", report |-> "legacy"]

Made(kind, p, role) == [kind |-> kind, peer |-> p, role |-> role,
                        st |-> "opening", report |-> "legacy"]

\* What is over can do nothing more; its kind tells how the session was begun.
Ended(t) == [NoDirect EXCEPT !.kind = t.kind]

Init == /\ me = InitialClient
        /\ direct = [g \in Gens |-> NoDirect]
        /\ unsent = {}
        /\ astray = {}

-----------------------------------------------------------------------------
(* The user.                                                               *)

SelectPeer(p) ==
    /\ me.phase = "idle"
    /\ me.gen < MaxGen
    /\ me' = OnSelectPeer(me, p)
    /\ unsent' \in {unsent, unsent \cup {me.gen}}
    /\ UNCHANGED <<direct, astray>>

AcceptRequest ==
    /\ me.incoming # NoPeer
    /\ me' = OnAccept(me)
    /\ direct' = IF me.pending = "rtc" THEN direct
                 ELSE [direct EXCEPT ![me.gen] = Made(me.pending, me.incoming, "responder")]
    /\ UNCHANGED <<unsent, astray>>

DeclineRequest ==
    /\ me.incoming # NoPeer
    /\ me' = OnDecline(me)
    /\ UNCHANGED <<direct, unsent, astray>>

CancelRequest ==
    /\ me.to # NoPeer
    /\ me' = OnCancel(me)
    /\ UNCHANGED <<direct, unsent, astray>>

\* disconnect() as a whole: the hung-up transport reports nothing more.
HangUp ==
    /\ me' = OnDisconnect(me)
    /\ direct' = [g \in Gens |-> IF g = HungUp(me) THEN Ended(direct[g])
                                 ELSE direct[g]]
    /\ UNCHANGED <<unsent, astray>>

Disconnect == me.phase # "idle" /\ HangUp

-----------------------------------------------------------------------------
(* The other devices.  Nobody accepts a request that was not sent.         *)

RequestArrives(p) ==
    /\ me.gen < MaxGen
    /\ \E urls \in SUBSET Urls : me' = OnRequest(me, p, urls)
    /\ UNCHANGED <<direct, unsent, astray>>

AcceptArrives(p) ==
    /\ me.gen \notin unsent
    /\ \E urls \in SUBSET Urls :
          /\ me' = OnAccepted(me, p, urls)
          /\ direct' = IF me'.phase = "connecting" /\ me.phase # "connecting"
                          /\ Route(urls) # "rtc"
                       THEN [direct EXCEPT ![me.gen] = Made(Route(urls), p, "requester")]
                       ELSE direct
    /\ UNCHANGED <<unsent, astray>>

DeclineArrives(p) == me' = OnDeclined(me, p) /\ UNCHANGED <<direct, unsent, astray>>

PeerLeaves(p) == me' = OnPeerLost(me, p) /\ UNCHANGED <<direct, unsent, astray>>

-----------------------------------------------------------------------------
(* Promises and callbacks.  The peer list may or may not hold the peer.    *)

IdentityLoads ==
    /\ ~me.ready
    /\ me' = OnIdentity(me)
    /\ UNCHANGED <<direct, unsent, astray>>

SendRejected(g) ==
    /\ g \in unsent
    /\ me' = OnSendRejected(me, g)
    /\ unsent' = unsent \ {g}
    /\ UNCHANGED <<direct, astray>>

DirectConnected(g) ==
    /\ direct[g].st = "opening"
    /\ \E d \in {direct[g].peer, NoPeer} :
          LET ref == IF direct[g].kind = "ws" THEN me.wsRef ELSE me.wtRef
          IN  me' = OnDirectConnected(me, g, ref, d)
    /\ direct' = [direct EXCEPT ![g].st = "up"]
    /\ UNCHANGED <<unsent, astray>>

DirectRejected(g) ==
    /\ direct[g].st = "opening"
    /\ me' = OnDirectRejected(me, g)
    /\ direct' = [direct EXCEPT ![g] = Ended(@)]
    /\ UNCHANGED <<unsent, astray>>

DirectUnavailable(g) ==
    /\ direct[g].kind = "wt"
    /\ direct[g].st = "opening"
    /\ me' = OnDirectUnavailable(me, g, direct[g].role, direct[g].peer)
    /\ direct' = [direct EXCEPT ![g] = Ended(@)]
    /\ UNCHANGED <<unsent, astray>>

\* onError, for good or (a failed transfer) with the transport still up.
DirectFails(g) ==
    /\ me.gen < MaxGen
    /\ direct[g].st # "over"
    /\ me' = OnError(me)
    /\ \/ direct' = [direct EXCEPT ![g] = Ended(@)]
       \/ direct[g].st = "up" /\ UNCHANGED direct
    /\ UNCHANGED <<unsent, astray>>

\* onDisconnect of a WebTransport.  On the requester's side it returns when the
\* reference was cleared; else it disconnects, whichever session there is by now.
DirectCloses(g) ==
    /\ direct[g].kind = "wt"
    /\ direct[g].st = "up"
    /\ LET acts == direct[g].role = "responder" \/ me.wtRef # NoRef
       IN  /\ me' = IF acts THEN OnDisconnect(me) ELSE me
           /\ direct' = [h \in Gens |-> IF h = g \/ (acts /\ h = HungUp(me))
                                        THEN Ended(direct[h])
                                        ELSE direct[h]]
    /\ UNCHANGED <<unsent, astray>>

\* The last report is remembered of the transports of the present session.
DirectReports(g) ==
    /\ direct[g].st # "over"
    /\ \E v \in Verifications \ {"legacy"} :
          /\ me' = OnVerification(me, v)
          /\ direct' = [direct EXCEPT ![g].report = IF g = me.gen THEN v ELSE @]
    /\ UNCHANGED <<unsent, astray>>

\* The session has accepted a request of p over WebRTC, or goes on with p that way.
Awaits(p) == me.phase = "connecting" /\ me.peer = p /\ direct[me.gen].kind = "none"

\* An offer of p reaches a listening service.
ServiceAnswers(p) ==
    /\ me.svc.st = "ready"
    /\ me.svcGen < MaxGen
    /\ me' = OnOffer(me, p)
    /\ astray' = IF me.svcGen = me.gen /\ ~Awaits(p) THEN astray \cup {me.gen} ELSE astray
    /\ UNCHANGED <<direct, unsent>>

ServiceConnected ==
    /\ me.svc.st \in {"dialing", "answering"}
    /\ \E d \in {me.svc.peer, NoPeer} : me' = OnServiceConnected(me, d)
    /\ UNCHANGED <<direct, unsent, astray>>

ServiceEnds ==
    /\ me.svc.st \in {"dialing", "answering", "up", "rejected"}
    /\ me' = OnServiceEnded(me)
    /\ UNCHANGED <<direct, unsent, astray>>

ServiceFails ==
    /\ me.gen < MaxGen
    /\ me.svc.st \in {"dialing", "answering", "up"}
    /\ me' = OnError(me)
    /\ UNCHANGED <<direct, unsent, astray>>

ServiceReports ==
    /\ me.svc.st = "up"
    /\ \E v \in Verifications \ {"legacy"} :
          me' = [OnVerification(me, v)
                    EXCEPT !.svc.report = IF me.svcGen = me.gen THEN v ELSE @]
    /\ UNCHANGED <<direct, unsent, astray>>

\* onMarkVerified: the first reference that is set gets the user's word, and its
\* transport, if still up, reports it back.
MarkVerified ==
    /\ me.isConnected
    /\ LET g == IF me.wsRef # NoRef THEN me.wsRef ELSE me.wtRef
       IN  \/ /\ g # NoRef
              /\ direct[g].st = "up"
              /\ me' = OnVerification(me, "verified")
              /\ direct' = [direct EXCEPT ![g].report = "verified"]
           \/ /\ g = NoRef
              /\ me' = [OnVerification(me, "verified") EXCEPT !.svc.report = "verified"]
              /\ UNCHANGED direct
    /\ UNCHANGED <<unsent, astray>>

DialRejected ==
    /\ me.svc.st = "dialing"
    /\ \E isWebRTCError \in BOOLEAN : me' = OnDialRejected(me, isWebRTCError)
    /\ UNCHANGED <<direct, unsent, astray>>

-----------------------------------------------------------------------------
User == \/ \E p \in Peers : SelectPeer(p)
        \/ AcceptRequest \/ DeclineRequest \/ CancelRequest \/ Disconnect
        \/ MarkVerified

Others == \E p \in Peers : \/ RequestArrives(p) \/ AcceptArrives(p)
                           \/ DeclineArrives(p) \/ PeerLeaves(p)

Settles(g) == DirectConnected(g) \/ DirectRejected(g) \/ DirectUnavailable(g)

Callbacks == \/ IdentityLoads
             \/ \E g \in Gens : \/ SendRejected(g) \/ Settles(g) \/ DirectFails(g)
                                \/ DirectCloses(g) \/ DirectReports(g)
             \/ \E p \in Peers : ServiceAnswers(p)
             \/ ServiceConnected \/ ServiceEnds \/ ServiceFails
             \/ ServiceReports \/ DialRejected

Next == User \/ Others \/ Callbacks

Spec == Init /\ [][Next]_vars

\* Direct transports connect with a timeout (wsConnectTimeout, connectTimeout), so
\* their promises settle.  Nothing else is owed.
FairSpec == Spec /\ \A g \in Gens : WF_vars(Settles(g))

-----------------------------------------------------------------------------
(* What the session relies on.                                             *)

Services == [st : {"none", "ready", "dialing", "answering", "up", "rejected", "over"},
             peer : Peers \cup {NoPeer}, fallback : BOOLEAN, report : Verifications]

Clients == [phase : Phases, gen : 1 .. MaxGen, peer : Peers \cup {NoPeer},
            verification : Verifications, to : Peers \cup {NoPeer},
            incoming : Peers \cup {NoPeer}, isConnected : BOOLEAN,
            device : Peers \cup {NoPeer}, ready : BOOLEAN, pending : {"ws", "wt", "rtc"},
            svc : Services, svcGen : Gens, wsRef : 0 .. MaxGen, wtRef : 0 .. MaxGen,
            fileDirect : 0 .. MaxGen, fileRtc : BOOLEAN]

DirectTransports == [kind : {"none", "ws", "wt"}, peer : Peers \cup {NoPeer},
                     role : Roles, st : {"opening", "up", "over"},
                     report : Verifications]

\* Every value is of its kind, and references name generations.
ClientTypeOK == /\ me \in Clients
                /\ direct \in [Gens -> DirectTransports]
                /\ unsent \subseteq Gens
                /\ astray \subseteq Gens

\* The service of this session took no offer but one the session was waiting for.
OnCourse == me.gen \notin astray

\* Nobody is shown out of turn, whatever offer the service took.
ShownInTurn ==
    /\ me.phase = "idle" <=> me.peer = NoPeer
    /\ me.incoming # NoPeer => me.phase = "incoming_request" /\ me.incoming = me.peer
    /\ me.to # NoPeer => me.phase \in {"requesting", "connecting"} /\ me.to = me.peer
    /\ me.phase = "connected" => me.isConnected

\* What the store shows is what the session is in: a request is shown exactly while
\* it waits, a connection exactly while there is one, both for the session's peer.
\* After a stray offer that holds of whom the store shows as waiting, not of whom it
\* leaves out.
StoreMatchesPhase ==
    /\ ShownInTurn
    /\ OnCourse => /\ me.phase = "incoming_request" => me.incoming = me.peer
                   /\ me.phase = "requesting" => me.to = me.peer
                   /\ me.isConnected => me.phase = "connected"
                   /\ me.device # NoPeer => me.isConnected /\ me.device = me.peer

\* A transport of this generation that is up, to the peer of the session.
DirectIsUp == /\ direct[me.gen].st = "up"
              /\ direct[me.gen].peer = me.peer
              /\ me.fileDirect = me.gen

ServiceIsUp == /\ me.svc.st = "up"
               /\ me.svcGen = me.gen
               /\ me.svc.peer = me.peer
               /\ me.fileRtc

\* Whoever is shown as connected is connected, through a transport made for this
\* very session: no transport of a session that was cancelled, declined or lost
\* takes over a later one, however late it connects, or is offered a connection.
ConnectedThroughOwnTransport == OnCourse /\ me.isConnected => DirectIsUp \/ ServiceIsUp

\* Nothing is begun at the bound.
BoundedSession == /\ me.gen = MaxGen => me.phase = "idle"
                  /\ me.svcGen = MaxGen => me.svc.st \in {"none", "ready"}
                  /\ MaxGen \notin unsent

\* A direct transport is made by a session under way; while it opens, the session
\* waits for it alone, and the reference to it is kept as long as it lives.
DirectsBelong ==
    /\ \A g \in Gens : /\ g > me.gen => direct[g].kind = "none"
                       /\ direct[g].kind = "none" => direct[g].st = "over"
    /\ direct[me.gen].kind # "none" =>
          me.phase \in {"connecting", "connected"}
    /\ direct[me.gen].st # "over" =>
          /\ direct[me.gen].peer = me.peer
          /\ me.gen = IF direct[me.gen].kind = "ws" THEN me.wsRef ELSE me.wtRef
    /\ OnCourse /\ direct[me.gen].st = "opening" =>
          /\ me.phase = "connecting"
          /\ me.svcGen = me.gen => me.svc.st \in {"none", "ready"}

\* The service works at a connection to a peer.
EngagedService == me.svc.st \in {"dialing", "answering", "rejected"}

\* The service of this generation is engaged with the session's peer, or not at all.
ServiceBelongs ==
    /\ me.svcGen <= me.gen
    /\ ~me.ready => me.svc.st = "none"
    /\ EngagedService \/ me.svc.st = "up" => me.svc.peer # NoPeer
    /\ me.svcGen = me.gen => me.svc.st # "over"
    /\ OnCourse /\ me.svcGen = me.gen =>
          /\ me.svc.peer # NoPeer => me.svc.peer = me.peer
          /\ EngagedService => me.phase = "connecting" /\ direct[me.gen].st = "over"
          /\ me.svc.st = "up" => me.phase = "connected"

\* All of it together: what each handler of a late callback leans on when it asks for
\* the generation, and what every handler keeps.
SessionInv == /\ ClientTypeOK
              /\ BoundedSession
              /\ DirectsBelong
              /\ ServiceBelongs
              /\ StoreMatchesPhase
              /\ ConnectedThroughOwnTransport

\* As long as no desktop was ever connected to, the trust shown is what the present
\* service reported, and none is inherited from a session before.
RtcTrustIsExact ==
    OnCourse /\ (\A g \in Gens : direct[g].kind = "none")
        => me.verification = IF me.svc.st = "up" /\ me.svcGen = me.gen
                             THEN me.svc.report ELSE "legacy"

\* Who waits for another device can cancel, for the store shows whom it waits for,
\* but for two states: a dial after an unavailable WebTransport, which ends by itself
\* once there is a service for it, and a first dial rejected with another error.
WaitingCanBeCancelled ==
    OnCourse /\ me.phase \in {"requesting", "connecting"} /\ me.to = NoPeer =>
        LET dialed == me.svcGen = me.gen /\ me.svc.st \in {"dialing", "rejected"}
        IN  \/ /\ direct[me.gen].kind = "wt"
               /\ dialed => me.svc.st = "dialing"
            \/ dialed /\ me.svc.st = "rejected" /\ ~me.svc.fallback

\* The session was begun over a direct transport and has not gone on to WebRTC.
InDirectAttempt == /\ me.phase = "connecting"
                   /\ direct[me.gen].kind # "none"
                   /\ ~(me.svcGen = me.gen /\ me.svc.fallback)

\* A direct attempt of a client that has its identity does not leave the session
\* connecting for good: it connects, is reset, or goes on as a WebRTC attempt of its own.
DirectAttemptEnds ==
    me.ready /\ direct[me.gen].st = "opening" ~> ~InDirectAttempt

\* sections/transfer.ts: an unverified peer's transfer is blocked.
UnverifiedIsBlocked ==
    me.isConnected /\ direct[me.gen].st = "up" /\ direct[me.gen].report = "unverified"
        => ~TransferAllowed(me)
=============================================================================
