---------------------------- MODULE SignalServer ----------------------------
(***************************************************************************)
(* The life of the server's connections: handle_connection in              *)
(* signal/src/server.rs, one task per connection, from the slot the accept *)
(* loop gives it to the guard it drops, around the calls into the room     *)
(* table (RoomManager) and with the write task that drains its channel.    *)
(* The slots are the semaphore that the connection counter implements      *)
(* (ConnectionSlots).                                                      *)
(*                                                                         *)
(* Frames with no effect but to keep the connection busy (ping, control    *)
(* frames) are the stuttering of a client that stays active.  Whether a    *)
(* message passes the rate limiter (RateLimit), the size check and the     *)
(* parser is a choice: it is handled, or answered with an error.           *)
(***************************************************************************)
EXTENDS RoomManager

CONSTANTS
    MaxConnections, \* max_connections
    QueueBound      \* bound of the model: a client sends what will be answered
                    \* or relayed only while the queues it can go to are
                    \* shorter than this; no step of the server waits for it

ASSUME ServerAssumption == MaxConnections \in Nat /\ QueueBound \in Nat

VARIABLES
    waiting, held,  \* the connections not yet accepted, those with a slot
    phase,          \* where handle_connection stands
    client,         \* what the other end does: active, silent or gone
    writer,         \* connections whose write task runs and holds rx; what is
                    \* sent to a channel after that is never read
    target,         \* whom find_peer returned: {} or {d}
    payload         \* and the request it is to relay

taskVars == <<phase, client, writer, target, payload>>
serverVars == <<roomVars, waiting, held, taskVars>>

Limit == INSTANCE ConnectionLimit

Phases == {"away", "accepted", "registering", "joining", "serving", "relaying",
           "cleanup", "closed", "over"}

Error == [type |-> "error"]

(* The payload of a signal is opaque; here it recalls what was asked for.  *)
Request(c, k, scope) == [by |-> c, to |-> k, scope |-> scope]
NoRequest == [scope |-> "none"]
Signal(r) == [type |-> "signal", from |-> code[r.by], payload |-> r]

Push(c, m) == chan' = [chan EXCEPT ![c] = Append(@, m)]
MayQueue(c) == Len(chan[c]) < QueueBound

Goto(c, p) == phase' = [phase EXCEPT ![c] = p]

ServerInit ==
    /\ Init
    /\ Limit!Init
    /\ phase = [c \in Conns |-> "away"]
    /\ client = [c \in Conns |-> "active"]
    /\ writer = {}
    /\ target = [c \in Conns |-> {}]
    /\ payload = [c \in Conns |-> NoRequest]

-----------------------------------------------------------------------------
(* The accept loop gives it a slot; a connection turned away has no task   *)
(* and no part in this.                                                    *)
Accept(c) ==
    /\ Limit!Admit(c)
    /\ Goto(c, "accepted")
    /\ UNCHANGED <<roomVars, client, writer, target, payload>>

(* The peeked request is no upgrade, and is answered, or the handshake     *)
(* fails: the task returns.  A client that has gone shows as an empty      *)
(* request.                                                                *)
NoUpgrade(c) ==
    /\ phase[c] = "accepted"
    /\ client[c] # "silent"
    /\ Goto(c, "closed")
    /\ UNCHANGED <<roomVars, waiting, held, client, writer, target, payload>>

(* The handshake succeeds: channel and write task are created. *)
Upgrade(c) ==
    /\ phase[c] = "accepted"
    /\ client[c] = "active"
    /\ Goto(c, "registering")
    /\ writer' = writer \cup {c}
    /\ UNCHANGED <<roomVars, waiting, held, client, target, payload>>

(* write_task.abort() and return: rx is dropped with what it holds. *)
Abort(c) ==
    /\ writer' = writer \ {c}
    /\ chan' = [chan EXCEPT ![c] = <<>>]
    /\ Goto(c, "closed")

tableVars == <<nextSession, pc, ip, code, session, active, room, existing, late>>

-----------------------------------------------------------------------------
(* The registration loop, which has no timeout. *)
RegisterMessage(c) ==
    /\ phase[c] = "registering"
    /\ client[c] = "active"
    /\ Goto(c, "joining")
    /\ UNCHANGED <<roomVars, waiting, held, client, writer, target, payload>>

(* Anything else the client sends first is answered with an error, and a   *)
(* later message of a registered client that fails a check likewise.       *)
RejectMessage(c) ==
    /\ phase[c] \in {"registering", "serving"}
    /\ client[c] = "active"
    /\ MayQueue(c)
    /\ Push(c, Error)
    /\ UNCHANGED <<tableVars, waiting, held, taskVars>>

(* The rate limiter closes the connection, the peer code is invalid, or    *)
(* the client has gone.                                                    *)
RegistrationFails(c) ==
    /\ phase[c] = "registering"
    /\ client[c] # "silent"
    /\ Abort(c)
    /\ UNCHANGED <<tableVars, waiting, held, client, target, payload>>

JoinStep(c) ==
    /\ phase[c] = "joining"
    /\ AddPeer(c)
    /\ UNCHANGED <<waiting, held, taskVars>>

Welcome(c) ==
    /\ phase[c] = "joining"
    /\ pc[c] = "member"
    /\ Push(c, Peers(existing[c]))
    /\ Goto(c, "serving")
    /\ UNCHANGED <<tableVars, waiting, held, client, writer, target, payload>>

BadJoinRefused(c) ==
    /\ phase[c] = "joining"
    /\ pc[c] = "refused"
    /\ Goto(c, "serving")
    /\ UNCHANGED <<roomVars, waiting, held, client, writer, target, payload>>

JoinRefused(c) ==
    /\ phase[c] = "joining"
    /\ pc[c] = "refused"
    /\ Abort(c)
    /\ UNCHANGED <<tableVars, waiting, held, client, target, payload>>

-----------------------------------------------------------------------------
(* The message loop. *)
BadFoundFor(c, r) == {p \in Listed : code[p] = r.to}

FoundFor(c, r) ==
    {p \in IF r.scope = "room" THEN room[ip[c]] ELSE Listed : code[p] = r.to}

(* find_peer, or find_peer_manual as far as its caller can tell: a sender  *)
(* is cloned under a lock that is released before it is used.              *)
FindPeer(c, r) ==
    /\ phase[c] = "serving"
    /\ client[c] = "active"
    /\ \E d \in FoundFor(c, r) :
          /\ MayQueue(c) /\ MayQueue(d)
          /\ target' = [target EXCEPT ![c] = {d}]
    /\ payload' = [payload EXCEPT ![c] = r]
    /\ Goto(c, "relaying")
    /\ UNCHANGED <<roomVars, waiting, held, client, writer>>

(* Nobody, or more than one peer, was found. *)
FindFails(c, r) ==
    /\ phase[c] = "serving"
    /\ client[c] = "active"
    /\ FoundFor(c, r) = {} \/ r.scope = "manual"
    /\ MayQueue(c)
    /\ Push(c, Error)
    /\ UNCHANGED <<tableVars, waiting, held, taskVars>>

(* target_sender.send, on an unbounded channel: it never waits, and fails   *)
(* when the other side's rx is dropped.                                    *)
RelaySignal(c) ==
    /\ phase[c] = "relaying"
    /\ \E d \in target[c] :
          IF d \in writer THEN Push(d, Signal(payload[c])) ELSE Push(c, Error)
    /\ target' = [target EXCEPT ![c] = {}]
    /\ payload' = [payload EXCEPT ![c] = NoRequest]
    /\ Goto(c, "serving")
    /\ UNCHANGED <<tableVars, waiting, held, client, writer>>

(* Operators named Bad... are wrong versions of the definition after them   *)
(* (see the README); no action uses them.                                  *)
BadIdleTimeout(c) ==
    /\ phase[c] = "serving"
    /\ client[c] = "active"
    /\ Goto(c, "cleanup")
    /\ UNCHANGED <<roomVars, waiting, held, client, writer, target, payload>>

(* No message for IDLE_TIMEOUT. *)
IdleTimeout(c) ==
    /\ phase[c] = "serving"
    /\ Goto(c, "cleanup")
    /\ UNCHANGED <<roomVars, waiting, held, client, writer, target, payload>>

BadLoopEnds(c) ==
    /\ phase[c] = "serving"
    /\ client[c] # "silent"
    /\ Goto(c, "closed")
    /\ UNCHANGED <<roomVars, waiting, held, client, writer, target, payload>>

(* Close, end of stream or error; or the rate limiter has had enough. *)
LoopEnds(c) ==
    /\ phase[c] = "serving"
    /\ client[c] # "silent"
    /\ Goto(c, "cleanup")
    /\ UNCHANGED <<roomVars, waiting, held, client, writer, target, payload>>

LeaveStep(c) ==
    /\ phase[c] = "cleanup"
    /\ RemovePeer(c)
    /\ UNCHANGED <<waiting, held, taskVars>>

AbortWriter(c) ==
    /\ phase[c] = "cleanup"
    /\ pc[c] = "gone"
    /\ Abort(c)
    /\ UNCHANGED <<tableVars, waiting, held, client, target, payload>>

(* The spawned task drops its guard after handle_connection returned. *)
DropGuard(c) ==
    /\ phase[c] = "closed"
    /\ Limit!Release(c)
    /\ Goto(c, "over")
    /\ UNCHANGED <<roomVars, client, writer, target, payload>>

-----------------------------------------------------------------------------
(* The write task: a message goes to the socket, or the socket is broken,  *)
(* which ends the task and drops rx while the connection's task goes on.   *)
Write(c) ==
    /\ c \in writer
    /\ chan[c] # <<>>
    /\ chan' = [chan EXCEPT ![c] = Tail(@)]
    /\ UNCHANGED <<tableVars, waiting, held, taskVars>>

WriteFails(c) ==
    /\ c \in writer
    /\ chan[c] # <<>>
    /\ client[c] # "active"
    /\ chan' = [chan EXCEPT ![c] = <<>>]
    /\ writer' = writer \ {c}
    /\ UNCHANGED <<tableVars, waiting, held, phase, client, target, payload>>

(* The other end stops sending for good, or closes or loses its socket. *)
ClientFades(c) ==
    /\ phase[c] \notin {"away", "over"}
    /\ \/ client[c] = "active" /\ client' = [client EXCEPT ![c] = "silent"]
       \/ client[c] # "gone" /\ client' = [client EXCEPT ![c] = "gone"]
    /\ UNCHANGED <<roomVars, waiting, held, phase, writer, target, payload>>

-----------------------------------------------------------------------------
(* What the task does of its own accord, once it is due. *)
Due(c) ==
    \/ JoinStep(c) \/ Welcome(c) \/ JoinRefused(c)
    \/ RelaySignal(c)
    \/ LeaveStep(c) \/ AbortWriter(c) \/ DropGuard(c)

(* What a client that is no longer active leads to. *)
Overdue(c) ==
    \/ client[c] = "gone" /\ (NoUpgrade(c) \/ RegistrationFails(c) \/ LoopEnds(c))
    \/ client[c] = "silent" /\ IdleTimeout(c)

Requests(c) == {Request(c, k, s) : k \in Codes, s \in {"room", "manual"}}

ByClient(c) ==
    \/ Accept(c) \/ NoUpgrade(c) \/ Upgrade(c)
    \/ RegisterMessage(c) \/ RejectMessage(c) \/ RegistrationFails(c)
    \/ \E r \in Requests(c) : FindPeer(c, r) \/ FindFails(c, r)
    \/ IdleTimeout(c) \/ LoopEnds(c) \/ ClientFades(c)

ServerNext == \E c \in Conns : ByClient(c) \/ Due(c) \/ Write(c) \/ WriteFails(c)

ServerSpec == ServerInit /\ [][ServerNext]_serverVars

(* Every task that can run is run; a silent client's timer expires, a gone *)
(* one's socket reports it, and the write task drains its queue.  Clients  *)
(* are under no obligation.                                                *)
FairServerSpec ==
    /\ ServerSpec
    /\ \A c \in Conns : /\ WF_serverVars(Due(c))
                        /\ WF_serverVars(Overdue(c))
                        /\ WF_serverVars(Write(c) \/ WriteFails(c))

-----------------------------------------------------------------------------
(* The values of the variables; and a task relays exactly while it has a   *)
(* sender in hand, and serves its client only as a member of a room.       *)
ServerTypeOK ==
    /\ waiting \subseteq Conns /\ held \subseteq Conns /\ writer \subseteq Conns
    /\ phase \in [Conns -> Phases]
    /\ client \in [Conns -> {"active", "silent", "gone"}]
    /\ target \in [Conns -> SUBSET Conns]
    /\ \A c \in Conns : phase[c] = "relaying" <=> target[c] # {}
    /\ \A c \in Conns : phase[c] \in {"serving", "relaying"} => pc[c] = "member"

(* An entry never outlives the slot of its connection, so the rooms        *)
(* together never list more peers than max_connections.                    *)
EntriesHoldSlots ==
    /\ Listed \subseteq held
    /\ Cardinality(held) <= MaxConnections
    /\ \A c \in held : phase[c] \notin {"away", "over"}

(* Nobody is refused a full room because of itself or of connections the   *)
(* server is done with: the refusal means as many others, of other codes,  *)
(* hold slots in the same room and have not left the table yet.  So a      *)
(* client that reconnects under its code is not shut out by its old entry, *)
(* and with a connection limit no larger than the room limit, as the       *)
(* defaults are (256 both), nobody is ever refused.  A client that has     *)
(* vanished counts until the server notices.                               *)
Occupants(c) ==
    {d \in held \ {c} : ip[d] = ip[c] /\ code[d] # code[c] /\ pc[d] = "member"}

RefusedOnlyWhenFull ==
    [][\A c \in Conns : pc[c] = "insert" /\ pc'[c] = "refused"
          => Cardinality(Occupants(c)) >= MaxPeersPerRoom]_serverVars

(* Room isolation survives the gap between lookup and send: a signal in a  *)
(* channel was asked for by a connection of the same room, under the       *)
(* receiver's own code, unless it was sent for manual pairing.             *)
SignalsReachWhoWasAsked ==
    \A d \in Conns : \A n \in DOMAIN chan[d] :
        LET m == chan[d][n] IN m.type = "signal" =>
            /\ m.payload.to = code[d]
            /\ m.payload.scope = "room" => ip[m.payload.by] = ip[d]

(* A registered connection whose client falls silent or vanishes loses its *)
(* entry and gives its slot back, in the middle of a relay included.       *)
FadedClientIsReleased ==
    \A c \in Conns :
        (phase[c] \in {"serving", "relaying"} /\ client[c] # "active")
            ~> (c \notin held /\ c \notin Listed)

-----------------------------------------------------------------------------
(* Another connection holds the room entry under this one's code. *)
Superseded(c) ==
    c \notin room[ip[c]] /\ \E d \in room[ip[c]] : code[d] = code[c]

(* add_peer, on a reconnect: "Drop the old sender to close the stale       *)
(* connection".                                                            *)
SupersededConnectionCloses ==
    \A c \in Conns : (phase[c] = "serving" /\ Superseded(c)) ~> (phase[c] # "serving")
=============================================================================
