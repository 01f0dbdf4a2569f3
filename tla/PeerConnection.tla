--------------------------- MODULE PeerConnection ---------------------------
(***************************************************************************)
(* The handlers of web/src/components/peer-connection.ts, as operators     *)
(* from one client's state to its next.  JavaScript runs each of them to   *)
(* its end before the next one starts, so a handler is one step; what may  *)
(* happen between them is said by the modules that use these operators.    *)
(*                                                                         *)
(* A client c is a record.  Its session, kept by localbolt-core:           *)
(*   phase, gen    where the session stands, and how often it was reset    *)
(*   peer          the peer it was begun with                              *)
(*   verification  what the gate of the upload panel looks at              *)
(* Its store, kept by the SDK:                                             *)
(*   to, incoming, isConnected, device                                     *)
(* The variables of the file itself:                                       *)
(*   ready                  identityRef is loaded                          *)
(*   pending                the transport the requester's URLs allow       *)
(*   svc, svcGen            rtcServiceRef and serviceGeneration            *)
(*   wsRef, wtRef           directTransportRef and wtTransportRef          *)
(*   fileDirect, fileRtc    the transports handed to the upload panel      *)
(* At most one direct transport is made in a generation, which therefore   *)
(* names it.  Generations count from 1 here; 0 is a null reference.        *)
(*                                                                         *)
(* Left out: toasts, labels, the device list, the transfer panel.          *)
(***************************************************************************)
EXTENDS Naturals

CONSTANTS
    Peers,       \* codes of the other devices
    NoPeer,      \* null
    SecurePage   \* the page was loaded over https

ASSUME PageAssumption == /\ NoPeer \notin Peers
                         /\ SecurePage \in BOOLEAN

Phases == {"idle", "requesting", "incoming_request", "connecting", "connected"}
Verifications == {"legacy", "unverified", "verified"}
NoRef == 0

-----------------------------------------------------------------------------
(* The session of localbolt-core, as the file and its tests use it.        *)

\* resetSession: a new generation, and a store that shows no session.
BadReset(c) ==
    [c EXCEPT !.phase = "idle", !.peer = NoPeer,
              !.to = NoPeer, !.incoming = NoPeer, !.isConnected = FALSE,
              !.device = NoPeer, !.verification = "legacy"]

Reset(c) ==
    [c EXCEPT !.phase = "idle", !.gen = @ + 1, !.peer = NoPeer,
              !.to = NoPeer, !.incoming = NoPeer, !.isConnected = FALSE,
              !.device = NoPeer, !.verification = "legacy"]

\* beginConnecting refuses unless there is a request.
BeginConnecting(c) ==
    IF c.phase \in {"requesting", "incoming_request"}
    THEN [c EXCEPT !.phase = "connecting"]
    ELSE c

\* markConnected refuses unless the session is connecting.
MarkConnected(c) ==
    IF c.phase = "connecting" THEN [c EXCEPT !.phase = "connected"] ELSE c

\* isTransferAllowed
TransferAllowed(c) == c.isConnected /\ c.verification # "unverified"

-----------------------------------------------------------------------------
(* Transports.  A WebRTC service is "ready" when it listens for an offer,  *)
(* whoever makes it; it is "dialing" after connect(), "answering" once it  *)
(* took an offer, of the peer that getRemotePeerCode then names, "up" when *)
(* it reported a connection, "rejected" when the promise of connect() was; *)
(* "over" once it will report nothing more.                                *)

Service(st, p, isFallback) ==
    [st |-> st, peer |-> p, fallback |-> isFallback, report |-> "legacy"]

NoService == Service("none", NoPeer, FALSE)

\* The URLs a desktop may name.  canUseDirectWs allows ws:// on plain pages and
\* wss:// everywhere; the wt URL stands for URL, hash and a browser with WebTransport.
Urls == {"ws", "wss", "wt"}

Route(urls) ==
    IF "wss" \in urls \/ ("ws" \in urls /\ ~SecurePage) THEN "ws"
    ELSE IF "wt" \in urls THEN "wt" ELSE "rtc"

\* createFreshRtcService retires the old service and makes a new one, of this
\* generation; without an identity it does nothing.  The new one is told of no peer.
FreshService(c) ==
    IF c.ready
    THEN [c EXCEPT !.svc = Service("ready", NoPeer, FALSE), !.svcGen = c.gen,
                   !.fileRtc = FALSE]
    ELSE c

\* A fresh service that dials p at once.
Dial(c, p, isFallback) ==
    IF c.ready
    THEN [FreshService(c) EXCEPT !.svc = Service("dialing", p, isFallback)]
    ELSE c

\* The session goes on over the transport the route names.
Attempt(c, route) ==
    [BeginConnecting(c) EXCEPT !.wsRef = IF route = "ws" THEN c.gen ELSE @,
                               !.wtRef = IF route = "wt" THEN c.gen ELSE @]

\* The store once a transport is connected; d is the peer found in the list.
ShowConnected(c, d) ==
    [MarkConnected(c) EXCEPT !.isConnected = TRUE, !.device = d,
                             !.to = NoPeer, !.incoming = NoPeer]

-----------------------------------------------------------------------------
(* What the user does.                                                     *)

OnSelectPeer(c, p) ==
    IF c.phase = "idle"
    THEN [c EXCEPT !.phase = "requesting", !.peer = p, !.to = p]
    ELSE c

OnAccept(c) ==
    LET p == c.incoming
        a == [Attempt(c, c.pending) EXCEPT !.incoming = NoPeer, !.to = p,
                                           !.pending = "rtc"]
    IN  IF p = NoPeer THEN c
        ELSE IF c.pending = "rtc" THEN FreshService(a) ELSE a

OnDecline(c) == IF c.incoming # NoPeer THEN Reset(c) ELSE c

OnCancel(c) == IF c.to # NoPeer THEN Reset(c) ELSE c

\* disconnect: the WebTransport reference, when there is one, also clears the other.
\* It clears only the ws URL, but pending is read only after a request has set it.
OnDisconnect(c) ==
    LET direct == c.wtRef # NoRef \/ c.wsRef # NoRef
    IN  IF c.phase = "idle" THEN c
        ELSE Reset([c EXCEPT !.svc = NoService, !.fileRtc = FALSE,
                             !.wtRef = NoRef, !.wsRef = NoRef,
                             !.fileDirect = IF direct THEN NoRef ELSE @])

\* The direct transport on which disconnect() calls disconnect(), if any.
HungUp(c) == IF c.phase = "idle" THEN NoRef
             ELSE IF c.wtRef # NoRef THEN c.wtRef ELSE c.wsRef

-----------------------------------------------------------------------------
(* Signals of other devices (handleApprovalSignal, onPeerLost).            *)

OnRequest(c, p, urls) ==
    IF c.phase = "idle"
    THEN [c EXCEPT !.phase = "incoming_request", !.peer = p, !.incoming = p,
                   !.pending = Route(urls)]
    ELSE c

OnAccepted(c, p, urls) ==
    IF c.phase = "requesting" /\ c.to = p
    THEN LET a == Attempt(c, Route(urls))
         IN  IF Route(urls) = "rtc" THEN Dial(a, p, FALSE) ELSE a
    ELSE c

BadOnDeclined(c, p) == IF p = c.to THEN Reset(c) ELSE c

OnDeclined(c, p) == IF p \in {c.to, c.incoming} THEN Reset(c) ELSE c

OnPeerLost(c, p) ==
    IF c.phase \in {"requesting", "incoming_request", "connecting"}
    THEN OnDeclined(c, p)
    ELSE c

-----------------------------------------------------------------------------
(* Callbacks of transports.                                                *)

\* handleConnectionError asks for no generation.
OnError(c) == Reset(c)

BadOnVerification(c, v) == [c EXCEPT !.verification = v]

\* handleVerificationState judges every transport by serviceGeneration.
OnVerification(c, v) ==
    IF c.svcGen = c.gen THEN [c EXCEPT !.verification = v] ELSE c

BadOnServiceConnected(c, d) ==
    [ShowConnected(c, d) EXCEPT !.svc.st = "up", !.fileRtc = TRUE]

\* A listening service takes an offer of p, whatever the session is in.
OnOffer(c, p) == [c EXCEPT !.svc.st = "answering", !.svc.peer = p]

\* handleConnectionStateChange, "connected"
OnServiceConnected(c, d) ==
    IF c.svcGen = c.gen
    THEN [ShowConnected(c, d) EXCEPT !.svc.st = "up", !.fileRtc = TRUE]
    ELSE [c EXCEPT !.svc.st = "up"]

\* handleConnectionStateChange, a terminal state: the service is retired, the
\* reference kept.
OnServiceEnded(c) ==
    LET over == [c EXCEPT !.svc.st = "over"]
    IN  IF c.svcGen = c.gen THEN Reset([over EXCEPT !.fileRtc = FALSE]) ELSE over

BadOnDialRejected(c, isWebRTCError) ==
    LET r == [c EXCEPT !.svc.st = "rejected"]
        shown == [r EXCEPT !.to = NoPeer]
    IN  IF c.svcGen # c.gen THEN r
        ELSE IF isWebRTCError THEN Reset(shown) ELSE shown

\* The promise of rtcService.connect is rejected.  A first attempt resets the session
\* for a WebRTCError only; whatever the error, the store shows no attempt any more.
OnDialRejected(c, isWebRTCError) ==
    LET r == [c EXCEPT !.svc.st = "rejected"]
        shown == [r EXCEPT !.to = NoPeer]
    IN  IF c.svcGen # c.gen THEN r
        ELSE IF isWebRTCError \/ c.svc.fallback THEN Reset(shown) ELSE shown

\* The promise of a direct transport of generation g is fulfilled ...
BadOnDirectConnected(c, g, ref, d) ==
    [ShowConnected(c, d) EXCEPT !.fileDirect = ref]

OnDirectConnected(c, g, ref, d) ==
    IF g = c.gen THEN [ShowConnected(c, d) EXCEPT !.fileDirect = ref] ELSE c

\* ... or rejected ...
BadOnDirectRejected(c, g) ==
    IF g = c.gen THEN [c EXCEPT !.to = NoPeer] ELSE c

OnDirectRejected(c, g) == IF g = c.gen THEN Reset(c) ELSE c

\* ... or, for WebTransport, fulfilled with false: who requested falls back to WebRTC.
OnDirectUnavailable(c, g, role, p) ==
    IF g # c.gen THEN c
    ELSE IF role = "requester" THEN Dial([c EXCEPT !.to = NoPeer], p, TRUE) ELSE Reset(c)

\* The promise of signaling.sendSignal is rejected for a request of generation g.
OnSendRejected(c, g) == IF g = c.gen THEN Reset(c) ELSE c

\* signaling.connect().then: the identity is there, the first service is made.
OnIdentity(c) == FreshService([c EXCEPT !.ready = TRUE])

InitialClient ==
    [phase |-> "idle", gen |-> 1, peer |-> NoPeer, verification |-> "legacy",
     to |-> NoPeer, incoming |-> NoPeer, isConnected |-> FALSE, device |-> NoPeer,
     ready |-> FALSE, pending |-> "rtc", svc |-> NoService, svcGen |-> 1,
     wsRef |-> NoRef, wtRef |-> NoRef, fileDirect |-> NoRef, fileRtc |-> FALSE]
=============================================================================
