---------------------------- MODULE RoomManager ----------------------------
(***************************************************************************)
(* The room table of the signaling server (signal/src/room.rs) under the   *)
(* concurrency its callers give it.  Every WebSocket connection is served  *)
(* by a task of its own, which calls add_peer once and remove_peer once;   *)
(* the table is a DashMap, so a call is not atomic: each action below is   *)
(* one critical section of a call, or one access made outside any lock.    *)
(*                                                                         *)
(* A connection stands for the PeerInfo it registers: its room is `ip', its*)
(* peer code `code', its session id `session', and `chan' is the unbounded *)
(* channel behind PeerInfo.sender.                                         *)
(***************************************************************************)
EXTENDS Integers, FiniteSets, Sequences

CONSTANTS
    Conns,              \* the connections of one run of the server
    IPs,                \* effective client addresses, the keys of the table
    Codes,              \* normalized peer codes
    MaxPeersPerRoom,    \* MAX_PEERS_PER_ROOM
    MaxRooms            \* MAX_ROOMS

ASSUME RoomLimitsAssumption ==
    /\ MaxPeersPerRoom \in Nat \ {0}
    /\ MaxRooms \in Nat \ {0}

VARIABLES
    nextSession,    \* NEXT_SESSION_ID
    pc,             \* where the connection's task stands in its two calls
    ip, code,       \* what the connection registers; the client's choice
    session,        \* the id add_peer assigned, 0 before
    active,         \* keys present in the DashMap
    room,           \* the entries of each room (none for an absent key)
    existing,       \* the peers add_peer returned, as their codes
    chan,           \* messages sent to the connection's channel so far
    late            \* history: who joined the room that a remover is about
                    \* to drop, since its retain emptied it

roomVars ==
    <<nextSession, pc, ip, code, session, active, room, existing, chan, late>>

-----------------------------------------------------------------------------
PeerJoined(k) == [type |-> "peer_joined", peer |-> k]
PeerLeft(k)   == [type |-> "peer_left", peer |-> k]
Peers(ks)     == [type |-> "peers", peers |-> ks]

PresenceMessage ==
    [type : {"peer_joined", "peer_left"}, peer : Codes]
      \cup [type : {"peers"}, peers : SUBSET Codes]

(* Points of a task: before its calls, inside add_peer (lookup, count,     *)
(* insert), between the calls, inside remove_peer after its lock is        *)
(* released (reap), and at the end, either way.                            *)
Points == {"idle", "lookup", "count", "insert", "member", "reap", "gone", "refused"}

(* Below, an operator whose name begins with Bad is a plausible wrong       *)
(* version of the definition after it: no action uses it, and the README    *)
(* says which property fails once it takes that definition's place.         *)
BadBroadcastJoins(to, m) ==
    chan' = [c \in Conns |-> IF c \in to /\ m.type = "peer_joined"
                             THEN Append(chan[c], m) ELSE chan[c]]

BadBroadcastLeaves(to, m) ==
    chan' = [c \in Conns |-> IF c \in to /\ m.type = "peer_left"
                             THEN Append(chan[c], m) ELSE chan[c]]

(* Sending to every entry of a set, in one critical section. *)
Broadcast(to, m) ==
    chan' = [c \in Conns |-> IF c \in to THEN Append(chan[c], m) ELSE chan[c]]

-----------------------------------------------------------------------------
Init ==
    /\ nextSession = 1
    /\ pc = [c \in Conns |-> "idle"]
    /\ ip \in [Conns -> IPs]
    /\ code \in [Conns -> Codes]
    /\ session = [c \in Conns |-> 0]
    /\ active = {}
    /\ room = [i \in IPs |-> {}]
    /\ existing = [c \in Conns |-> {}]
    /\ chan = [c \in Conns |-> <<>>]
    /\ late = [c \in Conns |-> {}]

(* add_peer takes its session id from the atomic counter before it looks   *)
(* at the table, so ids need not follow the order of insertion.            *)
FetchSession(c) ==
    /\ pc[c] = "idle"
    /\ session' = [session EXCEPT ![c] = nextSession]
    /\ nextSession' = nextSession + 1
    /\ pc' = [pc EXCEPT ![c] = "lookup"]
    /\ UNCHANGED <<ip, code, active, room, existing, chan, late>>

(* contains_key: an existing room skips the global limit. *)
Lookup(c) ==
    /\ pc[c] = "lookup"
    /\ pc' = [pc EXCEPT ![c] = IF ip[c] \in active THEN "insert" ELSE "count"]
    /\ UNCHANGED <<nextSession, ip, code, session, active, room, existing, chan,
                   late>>

AtRoomLimit == Cardinality(active) >= MaxRooms

(* rooms.len() against the limit: no lock links it to the insertion. *)
CountRooms(c) ==
    /\ pc[c] = "count"
    /\ pc' = [pc EXCEPT ![c] = IF AtRoomLimit THEN "refused" ELSE "insert"]
    /\ UNCHANGED <<nextSession, ip, code, session, active, room, existing, chan,
                   late>>

CodesIn(S) == {code[p] : p \in S}

SameCode(c) == {p \in room[ip[c]] : code[p] = code[c]}

BadKept(c) == room[ip[c]]

(* The room once the stale entry with c's code, one at most, is removed. *)
Kept(c) ==
    IF SameCode(c) = {} THEN room[ip[c]]
    ELSE room[ip[c]] \ {CHOOSE p \in SameCode(c) : TRUE}

BadRoomFull(c) == Cardinality(Kept(c)) > MaxPeersPerRoom
RoomFull(c) == Cardinality(Kept(c)) >= MaxPeersPerRoom

(* The locked part of add_peer, from entry().or_default() on. *)
Insert(c) ==
    /\ pc[c] = "insert"
    /\ ~ RoomFull(c)
    /\ active' = active \cup {ip[c]}
    /\ room' = [room EXCEPT ![ip[c]] = Kept(c) \cup {c}]
    /\ existing' = [existing EXCEPT ![c] = CodesIn(Kept(c))]
    /\ Broadcast(Kept(c), PeerJoined(code[c]))
    /\ pc' = [pc EXCEPT ![c] = "member"]
    /\ late' = [d \in Conns |->
                   IF pc[d] = "reap" /\ ip[d] = ip[c] THEN late[d] \cup {c} ELSE late[d]]
    /\ UNCHANGED <<nextSession, ip, code, session>>

(* The room is full: the key or_default made, and a removal already done,  *)
(* both stay.                                                              *)
InsertRefused(c) ==
    /\ pc[c] = "insert"
    /\ RoomFull(c)
    /\ active' = active \cup {ip[c]}
    /\ room' = [room EXCEPT ![ip[c]] = Kept(c)]
    /\ pc' = [pc EXCEPT ![c] = "refused"]
    /\ UNCHANGED <<nextSession, ip, code, session, existing, chan, late>>

-----------------------------------------------------------------------------
BadRetainedByCode(c) == {p \in room[ip[c]] : code[p] # code[c]}

BadRetainedOlder(c) ==
    {p \in room[ip[c]] : ~ (code[p] = code[c] /\ session[p] < session[c])}

(* remove_peer's retain: an entry goes only if code and session both match. *)
Retained(c) ==
    {p \in room[ip[c]] : ~ (code[p] = code[c] /\ session[p] = session[c])}

(* Nothing to remove (no room, or replaced by a newer session): silent. *)
LeaveReplaced(c) ==
    /\ pc[c] = "member"
    /\ ip[c] \notin active \/ Retained(c) = room[ip[c]]
    /\ pc' = [pc EXCEPT ![c] = "gone"]
    /\ UNCHANGED <<nextSession, ip, code, session, active, room, existing, chan,
                   late>>

BadShouldRemoveRoom(c) == room[ip[c]] = {}
ShouldRemoveRoom(c) == Retained(c) = {}

(* The locked part of remove_peer; should_remove_room is decided here ... *)
Leave(c) ==
    /\ pc[c] = "member"
    /\ ip[c] \in active
    /\ Retained(c) # room[ip[c]]
    /\ room' = [room EXCEPT ![ip[c]] = Retained(c)]
    /\ Broadcast(Retained(c), PeerLeft(code[c]))
    /\ pc' = [pc EXCEPT ![c] = IF ShouldRemoveRoom(c) THEN "reap" ELSE "gone"]
    /\ UNCHANGED <<nextSession, ip, code, session, active, existing, late>>

(* ... and acted on here, after the lock on the room was released. *)
Reap(c) ==
    /\ pc[c] = "reap"
    /\ active' = active \ {ip[c]}
    /\ room' = [room EXCEPT ![ip[c]] = {}]
    /\ pc' = [pc EXCEPT ![c] = "gone"]
    /\ late' = [late EXCEPT ![c] = {}]
    /\ UNCHANGED <<nextSession, ip, code, session, existing, chan>>

-----------------------------------------------------------------------------
AddPeer(c) ==
    \/ FetchSession(c)
    \/ Lookup(c)
    \/ CountRooms(c)
    \/ Insert(c)
    \/ InsertRefused(c)

RemovePeer(c) == LeaveReplaced(c) \/ Leave(c) \/ Reap(c)

Next == \E c \in Conns : AddPeer(c) \/ RemovePeer(c)

Spec == Init /\ [][Next]_roomVars

(* A task that is inside a call is run by the scheduler until it returns;  *)
(* nothing obliges a client to connect or to leave.                        *)
InsideCall(c) ==
    Lookup(c) \/ CountRooms(c) \/ Insert(c) \/ InsertRefused(c) \/ Reap(c)

FairSpec == Spec /\ \A c \in Conns : WF_roomVars(InsideCall(c))

-----------------------------------------------------------------------------
(* The values each variable of the table ranges over. *)
TypeOK ==
    /\ nextSession \in Nat \ {0}
    /\ pc \in [Conns -> Points]
    /\ ip \in [Conns -> IPs]
    /\ code \in [Conns -> Codes]
    /\ session \in [Conns -> Nat]
    /\ active \subseteq IPs
    /\ room \in [IPs -> SUBSET Conns]
    /\ existing \in [Conns -> SUBSET Codes]
    /\ late \in [Conns -> SUBSET Conns]

(* What is sent on behalf of the table (SignalServer sends more). *)
ChanTypeOK == chan \in [Conns -> Seq(PresenceMessage)]

(* A peer code names one peer of a room: however registrations and         *)
(* reconnections interleave, no room lists a code twice, so find_peer is   *)
(* unambiguous inside a room.                                              *)
OneEntryPerCode ==
    \A i \in IPs : \A p, q \in room[i] : code[p] = code[q] => p = q

(* The table never lists a connection that is not being served: whatever   *)
(* overlaps with its removal, an entry belongs to a task that is between   *)
(* its two calls, and stands in the room of that task.                     *)
EntriesAreServed ==
    \A i \in IPs : \A p \in room[i] : pc[p] = "member" /\ ip[p] = i

(* No room outgrows MAX_PEERS_PER_ROOM, replacements included. *)
RoomsBounded ==
    \A i \in IPs : IsFiniteSet(room[i]) /\ Cardinality(room[i]) <= MaxPeersPerRoom

(* An empty room is not leaked: while one is in the table, some remover    *)
(* has it in hand.  In particular a registration refused by a full room,   *)
(* after or_default, leaves none behind.                                   *)
EmptyRoomsHaveReaper ==
    \A i \in active : room[i] = {} => \E c \in Conns : pc[c] = "reap" /\ ip[c] = i

(* Once every connection has come and gone the table is empty. *)
Quiescent == \A c \in Conns : pc[c] \in {"idle", "gone", "refused"}
QuiescentTableEmpty == Quiescent => active = {} /\ \A i \in IPs : room[i] = {}

(* What a teardown takes out of the table, in both critical sections of    *)
(* remove_peer: its own entry, and otherwise only those who joined the     *)
(* room between the two, when the room was already due to be dropped.      *)
(* Without that race no teardown unregisters another connection, least of  *)
(* all the replacement that holds its code.                                *)
TearsDown(c) == pc[c] \in {"member", "reap"} /\ pc'[c] # pc[c]

TeardownSparesOthers ==
    [][\A c \in Conns : TearsDown(c)
          => \A i \in IPs : room[i] \ room'[i] \subseteq {c} \cup late[c]]_roomVars

(* The broadcasts are exact: the list add_peer returned to a member,       *)
(* updated by the joins and departures sent to it since, is the list of    *)
(* the other codes in its room now.  The last message about a code counts; *)
(* the peers message (Presence) repeats the list.                          *)
Heard(c, k) ==
    {n \in DOMAIN chan[c] : chan[c][n].type # "peers" /\ chan[c][n].peer = k}

Announced(c, k) ==
    IF Heard(c, k) = {} THEN k \in existing[c]
    ELSE \E n \in Heard(c, k) :
            /\ \A m \in Heard(c, k) : m <= n
            /\ chan[c][n].type = "peer_joined"

OthersInRoom(c) == CodesIn(room[ip[c]] \ {c})

BroadcastsExact ==
    \A i \in IPs : \A c \in room[i] :
        {k \in Codes : Announced(c, k)} = OthersInRoom(c)

(* The inductive strengthening of the invariants above: ids handed out are *)
(* distinct and below the counter, an absent key has no entries, and whom  *)
(* a remover finds in a room it drops has joined since it emptied it.      *)
SessionsDistinct ==
    \A c \in Conns : pc[c] # "idle" =>
        /\ session[c] < nextSession
        /\ \A d \in Conns : pc[d] # "idle" /\ session[c] = session[d] => c = d

AbsentRoomsEmpty == \A i \in IPs : i \notin active => room[i] = {}

LateJoinersKnown ==
    \A c \in Conns : IF pc[c] = "reap" THEN room[ip[c]] \subseteq late[c]
                     ELSE late[c] = {}

RoomInv ==
    /\ TypeOK
    /\ SessionsDistinct
    /\ AbsentRoomsEmpty
    /\ OneEntryPerCode
    /\ EntriesAreServed
    /\ RoomsBounded
    /\ EmptyRoomsHaveReaper
    /\ LateJoinersKnown

(* An empty room is eventually dropped or joined. *)
EmptyRoomsResolved ==
    \A i \in IPs : (i \in active /\ room[i] = {}) ~> (i \notin active \/ room[i] # {})

(* Whatever the interleaving of its critical sections, the table is a      *)
(* directory that connections join and leave in single atomic steps.       *)
Listed == UNION {room[i] : i \in IPs}
Ended  == {c \in Conns : pc[c] \in {"member", "reap", "gone"}} \ Listed

Directory == INSTANCE PeerDirectory WITH listed <- Listed, ended <- Ended
ImplementsDirectory == Directory!Spec

-----------------------------------------------------------------------------
(* What the documentation says of the table; see the README. *)

(* remove_peer "cleans up the room entry if it becomes empty": the room it *)
(* drops is an empty one.                                                  *)
ReapedRoomIsEmpty ==
    [][\A c \in Conns : pc[c] = "reap" /\ pc'[c] = "gone" => room[ip[c]] = {}]_roomVars
=============================================================================
