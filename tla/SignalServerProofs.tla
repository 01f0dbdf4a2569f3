------------------------- MODULE SignalServerProofs -------------------------
(***************************************************************************)
(* Proofs about the server's connections, for any numbers of connections,  *)
(* addresses and codes and any limits.  The invariant of the table         *)
(* (RoomManagerProofs) is kept by every step of a task; four more parts    *)
(* tie a task to it: where a task stands in handle_connection says where   *)
(* it stands in its two calls; the slots are held exactly by the tasks     *)
(* that are running; a sender in hand and its request fit each other; and  *)
(* every message in a channel may be there.                                *)
(***************************************************************************)
EXTENDS SignalServer, RoomManagerProofs

-----------------------------------------------------------------------------
TasksOK ==
    /\ writer \subseteq Conns
    /\ phase \in [Conns -> Phases]
    /\ client \in [Conns -> {"active", "silent", "gone"}]

(* Where the task stands in add_peer and remove_peer. *)
InStep(c) ==
    /\ phase[c] \in {"away", "accepted", "registering"} => pc[c] = "idle"
    /\ phase[c] = "joining" =>
         pc[c] \in {"idle", "lookup", "count", "insert", "member", "refused"}
    /\ phase[c] \in {"serving", "relaying"} => pc[c] = "member"
    /\ phase[c] = "cleanup" => pc[c] \in {"member", "reap", "gone"}
    /\ phase[c] \in {"closed", "over"} => pc[c] \in {"idle", "refused", "gone"}

SlotsHeld ==
    /\ waiting = {c \in Conns : phase[c] = "away"}
    /\ held = {c \in Conns : phase[c] \notin {"away", "over"}}
    /\ IsFiniteSet(held)
    /\ Cardinality(held) <= MaxConnections

(* What may be relayed to d. *)
AskedFor(d) ==
    {r \in [by : Conns, to : Codes, scope : {"room", "manual"}] :
        r.to = code[d] /\ (r.scope = "room" => ip[r.by] = ip[d])}

Relays(c) ==
    /\ target[c] \subseteq Conns
    /\ phase[c] = "relaying" <=> target[c] # {}
    /\ \A d \in target[c] : payload[c] \in AskedFor(d)

MessageFor(d) ==
    PresenceMessage \cup {Error}
      \cup [type : {"signal"}, from : Codes, payload : AskedFor(d)]

ChannelsOK ==
    /\ chan = [d \in Conns |-> chan[d]]
    /\ \A d \in Conns : chan[d] \in Seq(MessageFor(d))

RelaysOK ==
    /\ target = [c \in Conns |-> target[c]]
    /\ payload = [c \in Conns |-> payload[c]]
    /\ \A c \in Conns : Relays(c)

ServerInv ==
    /\ RoomInv
    /\ TasksOK
    /\ \A c \in Conns : InStep(c)
    /\ SlotsHeld
    /\ RelaysOK
    /\ ChannelsOK

-----------------------------------------------------------------------------
(* The table does not look at what is queued. *)
LEMMA TableUntouched ==
    ASSUME RoomInv, UNCHANGED tableVars
    PROVE  RoomInv' /\ ip' = ip /\ code' = code /\ pc' = pc
  BY DEF tableVars, RoomInv, TypeOK, SessionsDistinct, AbsentRoomsEmpty,
     OneEntryPerCode, EntriesAreServed, RoomsBounded, EmptyRoomsHaveReaper,
     LateJoinersKnown

(* What one critical section does, as the task's phase and the channels    *)
(* see it.                                                                 *)
LEMMA TableStep ==
    ASSUME RoomInv, NEW c \in Conns, AddPeer(c) \/ RemovePeer(c)
    PROVE  /\ RoomInv' /\ ip' = ip /\ code' = code
           /\ \A p \in Conns : p # c => pc'[p] = pc[p]
           /\ AddPeer(c) => pc'[c] \in {"lookup", "count", "insert", "member", "refused"}
           /\ RemovePeer(c) => pc'[c] \in {"reap", "gone"}
<1>1. RoomInv'
  BY StepInv DEF Next
<1> QED BY <1>1
    DEF AddPeer, RemovePeer, FetchSession, Lookup, CountRooms, Insert, InsertRefused,
        LeaveReplaced, Leave, Reap, RoomInv, TypeOK

LEMMA TableSends ==
    ASSUME RoomInv, ChannelsOK, NEW c \in Conns, AddPeer(c) \/ RemovePeer(c)
    PROVE  /\ chan' = [d \in Conns |-> chan'[d]]
           /\ \A d \in Conns : \/ chan'[d] = chan[d]
                               \/ chan'[d] = Append(chan[d], PeerJoined(code[c]))
                               \/ chan'[d] = Append(chan[d], PeerLeft(code[c]))
<1>1. CASE Insert(c)
  BY <1>1 DEF Insert, Broadcast
<1>2. CASE Leave(c)
  BY <1>2 DEF Leave, Broadcast
<1>3. CASE ~ Insert(c) /\ ~ Leave(c)
  <2>1. chan' = chan
    BY <1>3 DEF AddPeer, RemovePeer, FetchSession, Lookup, CountRooms, InsertRefused,
       LeaveReplaced, Reap
  <2> QED BY <2>1 DEF ChannelsOK
<1> QED BY <1>1, <1>2, <1>3

(* Every channel only grows by a message that may be in it, loses its      *)
(* first, or is emptied.                                                   *)
LEMMA ChannelStep ==
    ASSUME ChannelsOK, ip' = ip, code' = code,
           chan' = [d \in Conns |-> chan'[d]],
           \A d \in Conns :
              \/ chan'[d] = chan[d]
              \/ \E m \in MessageFor(d) : chan'[d] = Append(chan[d], m)
              \/ chan[d] # <<>> /\ chan'[d] = Tail(chan[d])
              \/ chan'[d] = <<>>
    PROVE  ChannelsOK'
<1>1. \A d : MessageFor(d)' = MessageFor(d)
  BY DEF MessageFor, AskedFor, PresenceMessage, Error
<1>2. ASSUME NEW d \in Conns PROVE chan'[d] \in Seq(MessageFor(d))
  <2> DEFINE M == MessageFor(d)
  <2>1. chan[d] \in Seq(M)
    BY DEF ChannelsOK
  <2>2. \A m \in M : Append(chan[d], m) \in Seq(M)
    <3> HIDE DEF M
    <3> QED BY <2>1
  <2>3. chan[d] # <<>> => Tail(chan[d]) \in Seq(M)
    <3> HIDE DEF M
    <3> QED BY <2>1
  <2>4. <<>> \in Seq(M)
    OBVIOUS
  <2> QED BY <2>1, <2>2, <2>3, <2>4
<1> QED BY <1>1, <1>2 DEF ChannelsOK

LEMMA ChannelsSame ==
    ASSUME ChannelsOK, ip' = ip, code' = code, chan' = chan
    PROVE  ChannelsOK'
  BY ChannelStep DEF ChannelsOK

(* Push and Abort, as ChannelStep wants them. *)
LEMMA PushStep ==
    ASSUME ChannelsOK, ip' = ip, code' = code,
           NEW d \in Conns, NEW m \in MessageFor(d), Push(d, m)
    PROVE  ChannelsOK'
<1>1. chan' = [e \in Conns |-> IF e = d THEN Append(chan[e], m) ELSE chan[e]]
  BY DEF Push, ChannelsOK
<1> QED BY <1>1, ChannelStep

LEMMA EmptyStep ==
    ASSUME ChannelsOK, ip' = ip, code' = code, NEW d \in Conns,
           chan' = [chan EXCEPT ![d] = <<>>]
    PROVE  ChannelsOK'
<1>1. chan' = [e \in Conns |-> IF e = d THEN <<>> ELSE chan[e]]
  BY DEF ChannelsOK
<1> QED BY <1>1, ChannelStep

(* A task that relays nothing now keeps what it had. *)
LEMMA RelaysSame ==
    ASSUME RelaysOK, TasksOK, ip' = ip, code' = code, UNCHANGED <<target, payload>>,
           \A c \in Conns : phase'[c] = "relaying" <=> phase[c] = "relaying"
    PROVE  RelaysOK'
  BY DEF RelaysOK, Relays, AskedFor

LEMMA SlotsSame ==
    ASSUME SlotsHeld, UNCHANGED <<waiting, held>>,
           \A c \in Conns : \/ phase'[c] = phase[c]
                            \/ {phase[c], phase'[c]} \cap {"away", "over"} = {}
    PROVE  SlotsHeld'
  BY DEF SlotsHeld

-----------------------------------------------------------------------------
(* Init and the steps. *)
LEMMA ServerInvInit == ServerInit => ServerInv
<1> SUFFICES ASSUME ServerInit PROVE ServerInv
  OBVIOUS
<1>1. RoomInv
  BY InitInv DEF ServerInit
<1>2. TasksOK /\ \A c \in Conns : InStep(c)
  BY DEF ServerInit, Init, TasksOK, Phases, InStep
<1>3. SlotsHeld
  BY FS_EmptySet, ServerAssumption DEF ServerInit, Limit!Init, SlotsHeld
<1>4. RelaysOK
  BY DEF ServerInit, RelaysOK, Relays
<1>5. ChannelsOK
  BY DEF ServerInit, Init, ChannelsOK
<1> QED BY <1>1, <1>2, <1>3, <1>4, <1>5 DEF ServerInv

LEMMA SameCardinality == \A S : Limit!Cardinality(S) = Cardinality(S)
  BY DEF Limit!Cardinality, Cardinality

LEMMA AcceptInv ==
    ASSUME ServerInv, NEW c \in Conns, Accept(c)
    PROVE  ServerInv'
<1> USE DEF ServerInv
<1>1. /\ RoomInv' /\ ip' = ip /\ code' = code /\ pc' = pc /\ chan' = chan
  BY TableUntouched DEF Accept, roomVars, tableVars
<1>2. phase[c] = "away" /\ phase' = [phase EXCEPT ![c] = "accepted"]
  BY DEF Accept, Goto, Limit!Admit, SlotsHeld
<1>3. TasksOK' /\ \A d \in Conns : InStep(d)'
  BY <1>1, <1>2 DEF Accept, TasksOK, Phases, InStep
<1>4. SlotsHeld'
  <2>1. waiting' = waiting \ {c} /\ held' = held \cup {c}
        /\ Cardinality(held) < MaxConnections
    BY SameCardinality DEF Accept, Limit!Admit
  <2>5. c \notin held
    BY <1>2 DEF SlotsHeld
  <2>2. IsFiniteSet(held') /\ Cardinality(held') = Cardinality(held) + 1
    BY <2>1, <2>5, FS_AddElement DEF SlotsHeld
  <2>3. Cardinality(held) \in Nat
    BY FS_CardinalityType DEF SlotsHeld
  <2> QED BY <1>2, <2>1, <2>2, <2>3, ServerAssumption DEF SlotsHeld, TasksOK
<1>5. RelaysOK'
  BY <1>1, <1>2, RelaysSame DEF Accept, TasksOK
<1>6. ChannelsOK'
  BY <1>1, ChannelsSame
<1> QED BY <1>1, <1>3, <1>4, <1>5, <1>6

(* The task goes on, or the client fades, and the table and the channels   *)
(* are left alone.                                                         *)
LEMMA AdvanceInv ==
    ASSUME ServerInv, NEW c \in Conns,
           \/ NoUpgrade(c) \/ Upgrade(c) \/ RegisterMessage(c)
           \/ IdleTimeout(c) \/ LoopEnds(c) \/ ClientFades(c)
    PROVE  ServerInv'
<1> USE DEF ServerInv
<1> USE DEF NoUpgrade, Upgrade, RegisterMessage, IdleTimeout, LoopEnds, ClientFades, Goto
<1>1. /\ RoomInv' /\ ip' = ip /\ code' = code /\ pc' = pc /\ chan' = chan
  BY TableUntouched DEF roomVars, tableVars
<1>2. TasksOK' /\ \A d \in Conns : InStep(d)'
  BY <1>1 DEF TasksOK, Phases, InStep
<1>3. SlotsHeld'
  BY SlotsSame DEF TasksOK
<1>4. RelaysOK'
  BY <1>1, RelaysSame DEF TasksOK
<1>5. ChannelsOK'
  BY <1>1, ChannelsSame
<1> QED BY <1>1, <1>2, <1>3, <1>4, <1>5

LEMMA FindPeerInv ==
    ASSUME ServerInv, NEW c \in Conns, NEW r \in Requests(c), FindPeer(c, r)
    PROVE  ServerInv'
<1> USE DEF ServerInv
<1>1. /\ RoomInv' /\ ip' = ip /\ code' = code /\ pc' = pc /\ chan' = chan
  BY TableUntouched DEF FindPeer, roomVars, tableVars
<1>2. phase[c] = "serving" /\ phase' = [phase EXCEPT ![c] = "relaying"]
  BY DEF FindPeer, Goto
<1>3. TasksOK' /\ \A d \in Conns : InStep(d)'
  BY <1>1, <1>2 DEF FindPeer, TasksOK, Phases, InStep
<1>4. SlotsHeld'
  BY <1>2, SlotsSame DEF FindPeer, TasksOK
<1>5. RelaysOK'
  <2>1. PICK d \in FoundFor(c, r) : target' = [target EXCEPT ![c] = {d}]
    BY DEF FindPeer
  <2>2. d \in Conns /\ code[d] = r.to /\ (r.scope = "room" => ip[d] = ip[c])
    BY ListedAreMembers DEF FoundFor, RoomInv, TypeOK, EntriesAreServed
  <2>3. r \in [by : Conns, to : Codes, scope : {"room", "manual"}] /\ r.by = c
    BY DEF Requests, Request
  <2>4. r \in AskedFor(d)
    BY <2>2, <2>3 DEF AskedFor
  <2>5. payload' = [payload EXCEPT ![c] = r]
    BY DEF FindPeer
  <2>6. \A e : AskedFor(e)' = AskedFor(e)
    BY <1>1 DEF AskedFor
  <2> QED BY <1>2, <2>1, <2>2, <2>4, <2>5, <2>6 DEF RelaysOK, Relays, TasksOK
<1>6. ChannelsOK'
  BY <1>1, ChannelsSame
<1> QED BY <1>1, <1>3, <1>4, <1>5, <1>6

(* An error is queued and the loop goes on. *)
LEMMA AnswerInv ==
    ASSUME ServerInv, NEW c \in Conns, Push(c, Error),
           UNCHANGED <<tableVars, waiting, held, taskVars>>
    PROVE  ServerInv'
<1> USE DEF ServerInv, taskVars
<1>1. /\ RoomInv' /\ ip' = ip /\ code' = code /\ pc' = pc
  BY TableUntouched
<1>2. TasksOK' /\ SlotsHeld' /\ \A d \in Conns : InStep(d)'
  BY <1>1 DEF TasksOK, SlotsHeld, InStep
<1>3. RelaysOK'
  BY <1>1, RelaysSame
<1>4. ChannelsOK'
  BY <1>1, PushStep DEF MessageFor
<1> QED BY <1>1, <1>2, <1>3, <1>4

(* The task ends, and rx with it. *)
LEMMA AbortInv ==
    ASSUME ServerInv, NEW c \in Conns,
           RegistrationFails(c) \/ JoinRefused(c) \/ AbortWriter(c)
    PROVE  ServerInv'
<1> USE DEF ServerInv
<1> USE DEF RegistrationFails, JoinRefused, AbortWriter, Abort, Goto
<1>1. /\ RoomInv' /\ ip' = ip /\ code' = code /\ pc' = pc
  BY TableUntouched
<1>2. TasksOK' /\ \A d \in Conns : InStep(d)'
  BY <1>1 DEF TasksOK, Phases, InStep
<1>3. SlotsHeld'
  BY SlotsSame DEF TasksOK
<1>4. RelaysOK'
  BY <1>1, RelaysSame DEF TasksOK
<1>5. ChannelsOK'
  BY <1>1, EmptyStep
<1> QED BY <1>1, <1>2, <1>3, <1>4, <1>5

LEMMA TableStepInv ==
    ASSUME ServerInv, NEW c \in Conns, JoinStep(c) \/ LeaveStep(c)
    PROVE  ServerInv'
<1> USE DEF ServerInv
<1>1. AddPeer(c) \/ RemovePeer(c)
  BY DEF JoinStep, LeaveStep
<1>2. UNCHANGED <<waiting, held, taskVars>>
  BY DEF JoinStep, LeaveStep
<1>3. /\ RoomInv' /\ ip' = ip /\ code' = code
      /\ \A p \in Conns : p # c => pc'[p] = pc[p]
  BY <1>1, TableStep
<1>4. TasksOK' /\ SlotsHeld'
  BY <1>2 DEF taskVars, TasksOK, SlotsHeld
<1>5. InStep(c)'
  BY <1>2, TableStep DEF taskVars, JoinStep, LeaveStep, InStep
<1>6. \A d \in Conns : InStep(d)'
  BY <1>2, <1>3, <1>5 DEF taskVars, InStep
<1>7. RelaysOK'
  BY <1>2, <1>3, RelaysSame DEF taskVars
<1>8. ChannelsOK'
  <2>1. \A d : PeerJoined(code[c]) \in MessageFor(d) /\ PeerLeft(code[c]) \in MessageFor(d)
    BY DEF RoomInv, TypeOK, MessageFor, PresenceMessage, PeerJoined, PeerLeft
  <2> QED BY <1>1, <1>3, <2>1, TableSends, ChannelStep
<1> QED BY <1>3, <1>4, <1>6, <1>7, <1>8

LEMMA WelcomeInv ==
    ASSUME ServerInv, NEW c \in Conns, Welcome(c)
    PROVE  ServerInv'
<1> USE DEF ServerInv
<1>1. /\ RoomInv' /\ ip' = ip /\ code' = code /\ pc' = pc
  BY TableUntouched DEF Welcome
<1>2. TasksOK' /\ \A d \in Conns : InStep(d)'
  BY <1>1 DEF Welcome, Goto, TasksOK, Phases, InStep
<1>3. SlotsHeld'
  BY SlotsSame DEF Welcome, Goto, TasksOK
<1>4. RelaysOK'
  BY <1>1, RelaysSame DEF Welcome, Goto, TasksOK
<1>5. ChannelsOK'
  <2>1. Peers(existing[c]) \in MessageFor(c)
    BY DEF RoomInv, TypeOK, MessageFor, PresenceMessage, Peers
  <2> QED BY <1>1, <2>1, PushStep DEF Welcome
<1> QED BY <1>1, <1>2, <1>3, <1>4, <1>5

(* What was asked for is unchanged between lookup and send, so it may be   *)
(* sent, or the client is told that it could not be.                       *)
LEMMA RelayInv ==
    ASSUME ServerInv, NEW c \in Conns, RelaySignal(c)
    PROVE  ServerInv'
<1> USE DEF ServerInv
<1>1. /\ RoomInv' /\ ip' = ip /\ code' = code /\ pc' = pc
  BY TableUntouched DEF RelaySignal
<1>2. /\ phase[c] = "relaying" /\ phase' = [phase EXCEPT ![c] = "serving"]
      /\ target' = [target EXCEPT ![c] = {}]
      /\ payload' = [payload EXCEPT ![c] = NoRequest]
  BY DEF RelaySignal, Goto
<1>3. TasksOK' /\ \A d \in Conns : InStep(d)'
  BY <1>1, <1>2 DEF RelaySignal, TasksOK, Phases, InStep
<1>4. SlotsHeld'
  BY <1>2, SlotsSame DEF RelaySignal, TasksOK
<1>5. RelaysOK'
  <2>1. \A e : AskedFor(e)' = AskedFor(e)
    BY <1>1 DEF AskedFor
  <2> QED BY <1>2, <2>1 DEF RelaysOK, Relays, TasksOK
<1>6. ChannelsOK'
  <2>1. PICK d \in target[c] :
          IF d \in writer THEN Push(d, Signal(payload[c])) ELSE Push(c, Error)
    BY DEF RelaySignal
  <2>2. d \in Conns /\ payload[c] \in AskedFor(d)
    BY DEF RelaysOK, Relays
  <2>3. Signal(payload[c]) \in MessageFor(d)
    BY <2>2 DEF Signal, MessageFor, AskedFor, RoomInv, TypeOK
  <2>4. Error \in MessageFor(c)
    BY DEF MessageFor
  <2> QED BY <1>1, <2>1, <2>2, <2>3, <2>4, PushStep
<1> QED BY <1>1, <1>3, <1>4, <1>5, <1>6

LEMMA DropGuardInv ==
    ASSUME ServerInv, NEW c \in Conns, DropGuard(c)
    PROVE  ServerInv'
<1> USE DEF ServerInv
<1>1. /\ RoomInv' /\ ip' = ip /\ code' = code /\ pc' = pc /\ chan' = chan
  BY TableUntouched DEF DropGuard, roomVars, tableVars
<1>2. phase[c] = "closed" /\ phase' = [phase EXCEPT ![c] = "over"]
  BY DEF DropGuard, Goto
<1>3. TasksOK' /\ \A d \in Conns : InStep(d)'
  BY <1>1, <1>2 DEF DropGuard, TasksOK, Phases, InStep
<1>4. SlotsHeld'
  <2>1. c \in held /\ waiting' = waiting /\ held' = held \ {c}
    BY DEF DropGuard, Limit!Release
  <2>2. IsFiniteSet(held') /\ Cardinality(held') = Cardinality(held) - 1
    BY <2>1, FS_RemoveElement DEF SlotsHeld
  <2>3. Cardinality(held) \in Nat
    BY FS_CardinalityType DEF SlotsHeld
  <2> QED BY <1>2, <2>1, <2>2, <2>3, ServerAssumption DEF SlotsHeld, TasksOK
<1>5. RelaysOK'
  BY <1>1, <1>2, RelaysSame DEF DropGuard, TasksOK
<1>6. ChannelsOK'
  BY <1>1, ChannelsSame
<1> QED BY <1>1, <1>3, <1>4, <1>5, <1>6

(* The write task takes a message, or drops rx. *)
LEMMA WriterInv ==
    ASSUME ServerInv, NEW c \in Conns, Write(c) \/ WriteFails(c)
    PROVE  ServerInv'
<1> USE DEF ServerInv
<1>1. /\ RoomInv' /\ ip' = ip /\ code' = code /\ pc' = pc
      /\ UNCHANGED <<waiting, held, phase, client, target, payload>>
      /\ writer' \subseteq writer
  BY TableUntouched DEF Write, WriteFails, taskVars
<1>2. TasksOK' /\ SlotsHeld' /\ \A d \in Conns : InStep(d)'
  BY <1>1 DEF TasksOK, SlotsHeld, InStep
<1>3. RelaysOK'
  BY <1>1, RelaysSame
<1>4. ChannelsOK'
  <2>1. CASE Write(c)
    <3>1. chan[c] # <<>>
          /\ chan' = [d \in Conns |-> IF d = c THEN Tail(chan[d]) ELSE chan[d]]
      BY <2>1 DEF Write, ChannelsOK
    <3> QED BY <1>1, <3>1, ChannelStep
  <2>2. CASE WriteFails(c)
    BY <1>1, <2>2, EmptyStep DEF WriteFails
  <2> QED BY <2>1, <2>2
<1> QED BY <1>1, <1>2, <1>3, <1>4

LEMMA ServerInvStep == ServerInv /\ [ServerNext]_serverVars => ServerInv'
<1> SUFFICES ASSUME ServerInv, [ServerNext]_serverVars PROVE ServerInv'
  OBVIOUS
<1>1. CASE UNCHANGED serverVars
  <2> USE DEF ServerInv
  <2>1. /\ RoomInv' /\ ip' = ip /\ code' = code /\ pc' = pc /\ chan' = chan
    BY <1>1, TableUntouched DEF serverVars, roomVars, tableVars
  <2>2. TasksOK' /\ SlotsHeld' /\ \A d \in Conns : InStep(d)'
    BY <1>1, <2>1 DEF serverVars, taskVars, TasksOK, SlotsHeld, InStep
  <2>3. RelaysOK'
    BY <1>1, <2>1, RelaysSame DEF serverVars, taskVars
  <2>4. ChannelsOK'
    BY <2>1, ChannelsSame
  <2> QED BY <2>1, <2>2, <2>3, <2>4
<1>2. ASSUME NEW c \in Conns, ByClient(c) PROVE ServerInv'
  <2>1. CASE \E r \in Requests(c) : FindPeer(c, r)
    BY <2>1, FindPeerInv
  <2>2. CASE RejectMessage(c) \/ \E r \in Requests(c) : FindFails(c, r)
    BY <2>2, AnswerInv DEF RejectMessage, FindFails
  <2> QED BY <1>2, <2>1, <2>2, AcceptInv, AdvanceInv, AbortInv DEF ByClient
<1>3. ASSUME NEW c \in Conns, Due(c) PROVE ServerInv'
  BY <1>3, TableStepInv, WelcomeInv, AbortInv, RelayInv, DropGuardInv DEF Due
<1>4. ASSUME NEW c \in Conns, Write(c) \/ WriteFails(c) PROVE ServerInv'
  BY <1>4, WriterInv
<1> QED BY <1>1, <1>2, <1>3, <1>4 DEF ServerNext

(* The invariant of the server, of which the properties below are          *)
(* consequences.                                                           *)
THEOREM ServerInvariant == ServerSpec => []ServerInv
  BY ServerInvInit, ServerInvStep, PTL DEF ServerSpec

(* A task serves its client only as a member of a room, and relays exactly *)
(* while it has a sender in hand.                                          *)
THEOREM ServerTypeCorrect == ServerSpec => []ServerTypeOK
<1>1. ServerInv => ServerTypeOK
  BY DEF ServerInv, TasksOK, InStep, SlotsHeld, RelaysOK, Relays, ServerTypeOK
<1> QED BY <1>1, ServerInvariant, PTL

(* An entry of the table always has a connection slot behind it. *)
LEMMA ListedAreHeld == ServerInv => Listed \subseteq held
<1> SUFFICES ASSUME ServerInv, NEW c \in Listed PROVE c \in held
  OBVIOUS
<1>1. c \in Conns /\ pc[c] = "member"
  BY ListedAreMembers DEF ServerInv
<1> QED BY <1>1 DEF ServerInv, InStep, SlotsHeld

THEOREM NoEntryOutlivesItsSlot == ServerSpec => []EntriesHoldSlots
<1>1. ServerInv => EntriesHoldSlots
  BY ListedAreHeld DEF ServerInv, SlotsHeld, EntriesHoldSlots
<1> QED BY <1>1, ServerInvariant, PTL

(* A room is full only of others, of other codes, that hold slots and are  *)
(* still between their two calls: that many there are when it refuses one. *)
THEOREM FullRoomsAreServed == ServerSpec => RefusedOnlyWhenFull
<1> DEFINE Full == \A c \in Conns : pc[c] = "insert" /\ pc'[c] = "refused"
                      => Cardinality(Occupants(c)) >= MaxPeersPerRoom
<1>1. ServerInv /\ [ServerNext]_serverVars => [Full]_serverVars
  <2> SUFFICES ASSUME ServerInv, ServerNext, NEW c \in Conns,
                      pc[c] = "insert", pc'[c] = "refused"
               PROVE  Cardinality(Occupants(c)) >= MaxPeersPerRoom
    OBVIOUS
  <2> USE DEF ServerInv
  <2>1. InsertRefused(c)
    <3>1. PICK d \in Conns : JoinStep(d) \/ LeaveStep(d)
      <4>1. pc' # pc
        OBVIOUS
      <4>2. ~ UNCHANGED roomVars /\ ~ UNCHANGED tableVars
        BY <4>1 DEF roomVars, tableVars
      <4> QED BY <4>2 DEF ServerNext, ByClient, Due, Accept, NoUpgrade, Upgrade,
            RegisterMessage, RejectMessage, RegistrationFails, FindPeer, FindFails,
            IdleTimeout, LoopEnds, ClientFades, Welcome, JoinRefused, RelaySignal,
            AbortWriter, DropGuard, Write, WriteFails
    <3>2. AddPeer(d) \/ RemovePeer(d)
      BY <3>1 DEF JoinStep, LeaveStep
    <3> QED BY <3>2 DEF AddPeer, RemovePeer, FetchSession, Lookup, CountRooms, Insert,
          InsertRefused, LeaveReplaced, Leave, Reap, RoomInv, TypeOK
  <2>2. Kept(c) \subseteq Occupants(c)
    <3> SUFFICES ASSUME NEW p \in Kept(c) PROVE p \in Occupants(c)
      OBVIOUS
    <3>1. ip[c] \in IPs /\ p \in room[ip[c]] /\ code[p] # code[c]
      BY KeptFacts DEF RoomInv, TypeOK
    <3>2. p \in Listed /\ pc[p] = "member" /\ ip[p] = ip[c]
      BY <3>1 DEF RoomInv, EntriesAreServed, Listed
    <3> QED BY <3>1, <3>2, ListedAreHeld DEF Occupants
  <2>3. IsFiniteSet(Occupants(c))
    BY FS_Subset DEF SlotsHeld, Occupants
  <2>4. /\ Cardinality(Kept(c)) \in Nat /\ Cardinality(Occupants(c)) \in Nat
        /\ Cardinality(Kept(c)) <= Cardinality(Occupants(c))
    BY <2>2, <2>3, FS_Subset, FS_CardinalityType
  <2> QED BY <2>1, <2>4, RoomLimitsAssumption DEF InsertRefused, RoomFull
<1> QED BY <1>1, ServerInvariant, PTL DEF ServerSpec, RefusedOnlyWhenFull

(* No signal reaches a peer it was not asked for, or one outside the       *)
(* asker's room unless it was sent for manual pairing.                     *)
THEOREM RoomsAreIsolated == ServerSpec => []SignalsReachWhoWasAsked
<1>1. ServerInv => SignalsReachWhoWasAsked
  <2> SUFFICES ASSUME ServerInv, NEW d \in Conns, NEW n \in DOMAIN chan[d],
                      chan[d][n].type = "signal"
               PROVE  /\ chan[d][n].payload.to = code[d]
                      /\ chan[d][n].payload.scope = "room" =>
                            ip[chan[d][n].payload.by] = ip[d]
    BY DEF SignalsReachWhoWasAsked
  <2> DEFINE M == MessageFor(d)
  <2>1. chan[d][n] \in M
    <3>1. chan[d] \in Seq(M)
      BY DEF ServerInv, ChannelsOK
    <3> HIDE DEF M
    <3> QED BY <3>1
  <2>2. chan[d][n].payload \in AskedFor(d)
    BY <2>1 DEF MessageFor, PresenceMessage, Error
  <2> QED BY <2>2 DEF AskedFor
<1> QED BY <1>1, ServerInvariant, PTL

-----------------------------------------------------------------------------
(* The server implements what the table and the slots promise.             *)

(* What a task does to the table is a critical section of its calls. *)
LEMMA TableTouched ==
    ASSUME [ServerNext]_serverVars
    PROVE  UNCHANGED tableVars \/ \E c \in Conns : AddPeer(c) \/ RemovePeer(c)
<1>1. CASE UNCHANGED serverVars
  BY <1>1 DEF serverVars, roomVars, tableVars
<1>2. CASE \E c \in Conns : JoinStep(c) \/ LeaveStep(c)
  BY <1>2 DEF JoinStep, LeaveStep
<1>3. CASE ServerNext /\ ~ \E c \in Conns : JoinStep(c) \/ LeaveStep(c)
  <2>1. UNCHANGED roomVars => UNCHANGED tableVars
    BY DEF roomVars, tableVars
  <2> QED BY <1>3, <2>1 DEF ServerNext, ByClient, Due, Accept, NoUpgrade, Upgrade,
        RegisterMessage, RejectMessage, RegistrationFails, FindPeer, FindFails,
        IdleTimeout, LoopEnds, ClientFades, Welcome, JoinRefused, RelaySignal,
        AbortWriter, DropGuard, Write, WriteFails
<1> QED BY <1>1, <1>2, <1>3

(* The table of the running server is a directory that connections join and*)
(* leave in single atomic steps, whatever the tasks do between their calls.*)
THEOREM ServerKeepsADirectory == ServerSpec => ImplementsDirectory
<1>1. ServerInit => Directory!Init
  BY DirectoryInit DEF ServerInit
<1>2. ServerInv /\ ServerInv' /\ [ServerNext]_serverVars
        => [Directory!Next]_(Directory!dirVars)
  <2> SUFFICES ASSUME ServerInv, ServerInv', [ServerNext]_serverVars
               PROVE  Directory!Next \/ UNCHANGED Directory!dirVars
    OBVIOUS
  <2>1. CASE UNCHANGED tableVars
    BY <2>1 DEF tableVars, Directory!dirVars, Listed, Ended
  <2> QED BY <2>1, TableTouched, DirectoryStep DEF ServerInv
<1> QED BY <1>1, <1>2, ServerInvariant, PTL DEF ServerSpec, ImplementsDirectory, Directory!Spec

(* The cleanup of a task takes out of the table its own entry, and         *)
(* otherwise only who joined the room it is about to drop.                 *)
THEOREM ServerTeardownsSpareOthers == ServerSpec => TeardownSparesOthers
<1> DEFINE Spares == \A c \in Conns : TearsDown(c)
                        => \A i \in IPs : room[i] \ room'[i] \subseteq {c} \cup late[c]
<1>1. ServerInv /\ [ServerNext]_serverVars => [Spares]_roomVars
  <2> SUFFICES ASSUME ServerInv, [ServerNext]_serverVars PROVE Spares
    OBVIOUS
  <2>1. CASE UNCHANGED tableVars
    BY <2>1 DEF tableVars
  <2> QED BY <2>1, TableTouched, SparingTeardown DEF ServerInv
<1> QED BY <1>1, ServerInvariant, PTL DEF ServerSpec, TeardownSparesOthers
=============================================================================
