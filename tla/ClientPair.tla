----------------------------- MODULE ClientPair -----------------------------
(***************************************************************************)
(* Two browser clients that ask each other for a connection: the handlers  *)
(* of PeerConnection on both sides, the signals between them, and the      *)
(* WebRTC services that join.  Browsers name no URLs, so every route is    *)
(* WebRTC; both have their identity.                                       *)
(*                                                                         *)
(* wire[x] is what the signaling server has yet to deliver to x: each      *)
(* signal once, in the order sent (SignalServer).  An offer stands for the *)
(* whole WebRTC handshake: it joins the service that dialed to the one that*)
(* hears it.                                                               *)
(*                                                                         *)
(* No signal says which request it is about.  The histories do: a request  *)
(* is named by the requester and its generation.                           *)
(*                                                                         *)
(* MaxGen bounds the generations: from MaxGen[x] on x does not ask, and its *)
(* service reports no error.                                               *)
(***************************************************************************)
EXTENDS PeerConnection, Sequences

CONSTANT MaxGen

ASSUME PairAssumption == /\ \E x, y \in Peers : x # y /\ Peers = {x, y}
                         /\ MaxGen \in [Peers -> Nat \ {0}]

VARIABLES
    me,         \* the clients
    wire,       \* signals under way to each
    joined,     \* who dialed the service its own one is joined to: {} or {x}
    about,      \* history: the request each client's session is about
    spoiled     \* history: requests that a misread signal was about or met, or
                \* whose session one side left without a signal

vars == <<me, wire, joined, about, spoiled>>

Other(x) == CHOOSE y \in Peers : y # x

NoRequest == <<>>
Signal(kind, request) == [kind |-> kind, about |-> request]

Init ==
    /\ me = [x \in Peers |-> OnIdentity(InitialClient)]
    /\ wire = [x \in Peers |-> <<>>]
    /\ joined = {}
    /\ about = [x \in Peers |-> NoRequest]
    /\ spoiled = {}

-----------------------------------------------------------------------------
(* One handler of x: its client becomes c, in a session about request r.   *)
(* Services stay joined until one of the two is retired or replaced.       *)
Becomes(x, c, r) ==
    /\ me' = [me EXCEPT ![x] = c]
    /\ about' = [about EXCEPT ![x] = IF c.phase = "idle" THEN NoRequest ELSE r]

StaysJoined(x) ==
    /\ me'[x].svc.st \in {"dialing", "rejected", "up"}
    /\ me'[Other(x)].svc.st \in {"answering", "up"}

Rejoined == joined' = {x \in joined : StaysJoined(x)}

(* The user: a signal is sent in the same step. *)
Says(x, c, kind, r) ==
    /\ Becomes(x, c, r)
    /\ wire' = [wire EXCEPT ![Other(x)] = Append(@, Signal(kind, r))]
    /\ Rejoined
    /\ UNCHANGED spoiled

SelectPeer(x) ==
    /\ me[x].phase = "idle"
    /\ me[x].gen < MaxGen[x]
    /\ Says(x, OnSelectPeer(me[x], Other(x)), "request", <<x, me[x].gen>>)

AcceptRequest(x) ==
    /\ me[x].incoming # NoPeer
    /\ Says(x, OnAccept(me[x]), "accepted", about[x])

DeclineRequest(x) ==
    /\ me[x].incoming # NoPeer
    /\ Says(x, OnDecline(me[x]), "declined", about[x])

CancelRequest(x) ==
    /\ me[x].to # NoPeer
    /\ Says(x, OnCancel(me[x]), "declined", about[x])

-----------------------------------------------------------------------------
(* Signals.  One is misread when x acts on it though it is about another   *)
(* request than x's session; when x, connected, does not heed that the     *)
(* other side cancelled; and when a new request is taken for a duplicate of*)
(* the one that is shown.                                                  *)
Receives(x, kind) == wire[x] # <<>> /\ Head(wire[x]).kind = kind

Topic(x) == Head(wire[x]).about

Hears(x, c, answers, misread) ==
    /\ Becomes(x, c, IF me[x].phase = "idle" THEN Topic(x) ELSE about[x])
    /\ wire' = [wire EXCEPT ![x] = Tail(@), ![Other(x)] = @ \o answers]
    /\ spoiled' = IF misread THEN spoiled \cup {Topic(x), about[x]} ELSE spoiled

Misread(x, c) ==
    \/ me[x].phase # "idle" /\ c # me[x] /\ about[x] # Topic(x)
    \/ me[x].phase = "connected" /\ about[x] = Topic(x)

BadBusy(x) == me[x].phase = "connected"
Busy(x) == me[x].phase # "idle" /\ me[x].incoming # Other(x)

RequestArrives(x) ==
    /\ Receives(x, "request")
    /\ Hears(x, OnRequest(me[x], Other(x), {}),
             IF Busy(x) THEN <<Signal("declined", Topic(x))>> ELSE <<>>,
             me[x].incoming = Other(x) /\ about[x] # Topic(x))
    /\ UNCHANGED joined

AcceptArrives(x) ==
    /\ Receives(x, "accepted")
    /\ LET c == OnAccepted(me[x], Other(x), {})
           dials == c # me[x]
       IN  /\ Hears(x, c, IF dials THEN <<Signal("offer", about[x])>> ELSE <<>>,
                    Misread(x, c))
           /\ joined' = IF dials THEN {} ELSE joined

DeclineArrives(x) ==
    /\ Receives(x, "declined")
    /\ LET c == OnDeclined(me[x], Other(x)) IN Hears(x, c, <<>>, Misread(x, c))
    /\ UNCHANGED joined

(* Heard by the service as long as it is not retired, whatever has become  *)
(* of the session it was made for.                                         *)
OfferArrives(x) ==
    /\ Receives(x, "offer")
    /\ LET hears == me[x].svc.st = "ready"
       IN  /\ me' = [me EXCEPT ![x] = IF hears THEN OnOffer(@, Other(x)) ELSE @]
           /\ joined' = IF hears THEN {Other(x)} ELSE joined
    /\ wire' = [wire EXCEPT ![x] = Tail(@)]
    /\ UNCHANGED <<about, spoiled>>

-----------------------------------------------------------------------------
(* The services, and the user's disconnect, which closes one: no signal.   *)
Silently(x, c) ==
    /\ Becomes(x, c, about[x])
    /\ spoiled' = IF c.phase # me[x].phase \/ c.to # me[x].to
                  THEN spoiled \cup {about[x]} ELSE spoiled
    /\ Rejoined
    /\ UNCHANGED wire

Disconnect(x) == me[x].isConnected /\ Silently(x, OnDisconnect(me[x]))

ServiceConnected(x) ==
    /\ joined # {}
    /\ me[x].svc.st \in {"dialing", "answering"}
    /\ Becomes(x, OnServiceConnected(me[x], Other(x)), about[x])
    /\ UNCHANGED <<wire, joined, spoiled>>

ServiceEnds(x) ==
    /\ me[x].svc.st \in {"dialing", "answering", "up", "rejected"}
    /\ Silently(x, OnServiceEnded(me[x]))

ServiceFails(x) ==
    /\ me[x].gen < MaxGen[x]
    /\ me[x].svc.st \in {"dialing", "answering", "up"}
    /\ Silently(x, OnError(me[x]))

DialRejected(x) ==
    /\ me[x].svc.st = "dialing"
    /\ \E isWebRTCError \in BOOLEAN : Silently(x, OnDialRejected(me[x], isWebRTCError))

-----------------------------------------------------------------------------
User(x) == SelectPeer(x) \/ AcceptRequest(x) \/ DeclineRequest(x)
           \/ CancelRequest(x) \/ Disconnect(x)

Arrives(x) == RequestArrives(x) \/ AcceptArrives(x) \/ DeclineArrives(x)
              \/ OfferArrives(x)

Callbacks(x) == ServiceConnected(x) \/ ServiceEnds(x) \/ ServiceFails(x)
                \/ DialRejected(x)

Next == \E x \in Peers : User(x) \/ Arrives(x) \/ Callbacks(x)

Spec == Init /\ [][Next]_vars

(* The server relays what it was given (SignalServer), and the event loop  *)
(* runs the handlers; no user is obliged to anything.                      *)
FairSpec == Spec /\ \A x \in Peers : WF_vars(Arrives(x))

-----------------------------------------------------------------------------
Quiet == \A x \in Peers : wire[x] = <<>>

(* x is in a session about its own or the other's request, unspoiled.      *)
Engaged(x) == about[x] # NoRequest /\ about[x] \notin spoiled

(* Once all signals are delivered, both sides are in the same session, and *)
(* where the other side expects them: who asks is being shown, what is     *)
(* shown is still being asked, and nobody connects, or is connected, alone.*)
(* Only a misread signal, and a service that ends without one, part them.  *)
Matching(phase) ==
    CASE phase = "requesting" -> {"incoming_request"}
      [] phase = "incoming_request" -> {"requesting"}
      [] phase \in {"connecting", "connected"} -> {"connecting", "connected"}

SettledSidesAgree ==
    \A x \in Peers : Quiet /\ Engaged(x) =>
        /\ about[Other(x)] = about[x]
        /\ me[Other(x)].phase \in Matching(me[x].phase)

(* A request that its sender no longer makes does not stay on the other's  *)
(* screen, waiting to be accepted in vain.                                 *)
Withdrawn(x) ==
    /\ me[x].phase = "incoming_request"
    /\ Engaged(x)
    /\ about[Other(x)] # about[x]

WithdrawnRequestVanishes ==
    \A x \in Peers : Withdrawn(x) ~> ~ Withdrawn(x)
=============================================================================
