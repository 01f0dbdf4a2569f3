------------------------------ MODULE Presence ------------------------------
(***************************************************************************)
(* What a registering client is told about its room.  add_peer returns the *)
(* list of peers under the room's lock, but the connection's task sends it *)
(* as the `peers' message only after the lock is released (handle_connection*)
(* in signal/src/server.rs), while add_peer has already made the connection*)
(* a target of the broadcasts of every other task.                         *)
(***************************************************************************)
EXTENDS RoomManager

VARIABLE welcomed   \* connections whose task has queued its `peers' message

presenceVars == <<roomVars, welcomed>>

PresenceInit == Init /\ welcomed = {}

(* tx.send(Peers), the first thing the task does with add_peer's result. *)
Welcome(c) ==
    /\ pc[c] = "member"
    /\ c \notin welcomed
    /\ chan' = [chan EXCEPT ![c] = Append(@, Peers(existing[c]))]
    /\ welcomed' = welcomed \cup {c}
    /\ UNCHANGED <<nextSession, pc, ip, code, session, active, room, existing,
                   late>>

(* The task reaches its message loop, and so its cleanup, only after that. *)
Register(c) == AddPeer(c) /\ UNCHANGED welcomed
Depart(c) == c \in welcomed /\ RemovePeer(c) /\ UNCHANGED welcomed

PresenceNext == \E c \in Conns : Register(c) \/ Welcome(c) \/ Depart(c)

PresenceSpec == PresenceInit /\ [][PresenceNext]_presenceVars

-----------------------------------------------------------------------------
(* The client's reading of its channel, in order: `peers' and `peer_joined' *)
(* add the codes they name, `peer_left' takes one out.                      *)
Names(m) == IF m.type = "peers" THEN m.peers ELSE {m.peer}

LastNaming(c, k) ==
    {n \in DOMAIN chan[c] : k \in Names(chan[c][n])
        /\ \A m \in DOMAIN chan[c] : k \in Names(chan[c][m]) => m <= n}

View(c) == {k \in Codes : \E n \in LastNaming(c, k) : chan[c][n].type # "peer_left"}

(* A client that has its list, and is still in its room. *)
Settled(c) == c \in welcomed /\ c \in room[ip[c]]

LeftBeforeList(c) ==
    \E n, m \in DOMAIN chan[c] :
        n < m /\ chan[c][n].type = "peer_left" /\ chan[c][m].type = "peers"

-----------------------------------------------------------------------------
(* No client misses a peer: once a registered client has read its channel, *)
(* it knows every other code in its room, although the list it was sent    *)
(* may be older than messages queued before it.                            *)
NoPeerMissed == \A c \in Conns : Settled(c) => OthersInRoom(c) \subseteq View(c)

(* The channel is exact but for one race: only a departure queued ahead of *)
(* the `peers' message can leave the client with a peer that is not there. *)
ViewExactWithoutRace ==
    \A c \in Conns : Settled(c) /\ ~ LeftBeforeList(c) => View(c) = OthersInRoom(c)

=============================================================================
