--------------------------- MODULE PeerDirectory ---------------------------
(***************************************************************************)
(* What the room table promises its callers, with no locks, rooms or       *)
(* sessions in sight: a directory of connections, each listed at most once,*)
(* under an address and a code that no other listed connection of that     *)
(* address shares.  A connection is delisted by its own departure or by a  *)
(* newcomer with its code; a whole address can also be lost at once, which *)
(* is the most that can be promised of the implementation (see Reap in     *)
(* RoomManager).                                                           *)
(***************************************************************************)
EXTENDS FiniteSets

CONSTANTS Conns, IPs, Codes

VARIABLES
    ip, code,   \* under which a connection is, or would be, listed
    listed,     \* the connections in the directory
    ended       \* connections that were listed once and never will be again

dirVars == <<ip, code, listed, ended>>

Init ==
    /\ ip \in [Conns -> IPs]
    /\ code \in [Conns -> Codes]
    /\ listed = {}
    /\ ended = {}

Replaced(c) == {p \in listed : ip[p] = ip[c] /\ code[p] = code[c]}

Join(c) ==
    /\ c \notin listed \cup ended
    /\ listed' = (listed \ Replaced(c)) \cup {c}
    /\ ended' = ended \cup Replaced(c)
    /\ UNCHANGED <<ip, code>>

Depart(c) ==
    /\ c \in listed
    /\ listed' = listed \ {c}
    /\ ended' = ended \cup {c}
    /\ UNCHANGED <<ip, code>>

LoseAddress(i) ==
    LET lost == {p \in listed : ip[p] = i} IN
    /\ lost # {}
    /\ listed' = listed \ lost
    /\ ended' = ended \cup lost
    /\ UNCHANGED <<ip, code>>

Next ==
    \/ \E c \in Conns : Join(c) \/ Depart(c)
    \/ \E i \in IPs : LoseAddress(i)

Spec == Init /\ [][Next]_dirVars
=============================================================================
