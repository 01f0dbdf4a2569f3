-------------------------- MODULE ConnectionSlots --------------------------
(***************************************************************************)
(* The connection counter of SignalingServer (signal/src/lib.rs).  The     *)
(* accept loop takes a slot by a compare_exchange loop on an atomic        *)
(* counter; every connection's task drops its ConnectionGuard, and so      *)
(* decrements the counter, whenever it ends: between any two accesses of   *)
(* the accept loop.  Operators named Bad... are wrong versions of the      *)
(* definition after them (see the README); no action uses them.            *)
(***************************************************************************)
EXTENDS Integers, FiniteSets

CONSTANTS
    Conns,          \* the TCP connections of one run, in whatever order
    MaxConnections  \* max_connections; 0 rejects every connection

ASSUME MaxConnectionsAssumption == MaxConnections \in Nat

VARIABLES
    count,      \* active_connections
    backlog,    \* connections listener.accept has not returned yet
    incoming,   \* the stream the accept loop has in hand: {} or {c}
    point,      \* where the accept loop stands: accept, load or cas
    current,    \* what it loaded from the counter
    serving,    \* connections whose task owns a guard
    dropped     \* connections whose stream was dropped for want of a slot

slotVars == <<count, backlog, incoming, point, current, serving, dropped>>

Init ==
    /\ count = 0
    /\ backlog = Conns
    /\ incoming = {}
    /\ point = "accept"
    /\ current = 0
    /\ serving = {}
    /\ dropped = {}

Accept(c) ==
    /\ point = "accept"
    /\ c \in backlog
    /\ backlog' = backlog \ {c}
    /\ incoming' = {c}
    /\ point' = "load"
    /\ UNCHANGED <<count, current, serving, dropped>>

BadLoadFull ==
    /\ point = "load"
    /\ count + 1 >= MaxConnections
    /\ current' = count
    /\ dropped' = dropped \cup incoming
    /\ incoming' = {}
    /\ point' = "accept"
    /\ UNCHANGED <<count, backlog, serving>>

(* The load finds the limit reached: the stream is dropped. *)
LoadFull ==
    /\ point = "load"
    /\ count >= MaxConnections
    /\ current' = count
    /\ dropped' = dropped \cup incoming
    /\ incoming' = {}
    /\ point' = "accept"
    /\ UNCHANGED <<count, backlog, serving>>

LoadFree ==
    /\ point = "load"
    /\ count < MaxConnections
    /\ current' = count
    /\ point' = "cas"
    /\ UNCHANGED <<count, backlog, incoming, serving, dropped>>

BadExchange ==
    /\ point = "cas"
    /\ count' = current + 1
    /\ serving' = serving \cup incoming
    /\ incoming' = {}
    /\ point' = "accept"
    /\ UNCHANGED <<backlog, current, dropped>>

(* The exchange succeeds: the guard moves into the connection's task. *)
Exchange ==
    /\ point = "cas"
    /\ count = current
    /\ count' = current + 1
    /\ serving' = serving \cup incoming
    /\ incoming' = {}
    /\ point' = "accept"
    /\ UNCHANGED <<backlog, current, dropped>>

BadExchangeFails ==
    /\ point = "cas"
    /\ count # current
    /\ UNCHANGED slotVars

(* A guard was dropped since the load: retry. *)
ExchangeFails ==
    /\ point = "cas"
    /\ count # current
    /\ point' = "load"
    /\ UNCHANGED <<count, backlog, incoming, current, serving, dropped>>

(* The task ends, normally or by a panic, and its guard with it. *)
DropGuard(c) ==
    /\ c \in serving
    /\ count' = count - 1
    /\ serving' = serving \ {c}
    /\ UNCHANGED <<backlog, incoming, point, current, dropped>>

TryAcquireSlot == LoadFull \/ LoadFree \/ Exchange \/ ExchangeFails

Next == TryAcquireSlot \/ \E c \in Conns : Accept(c) \/ DropGuard(c)

Spec == Init /\ [][Next]_slotVars

(* The accept loop runs; a connection may stay open for ever. *)
FairSpec == Spec /\ WF_slotVars(TryAcquireSlot)

-----------------------------------------------------------------------------
(* The values each variable ranges over. *)
TypeOK ==
    /\ count \in Nat
    /\ backlog \subseteq Conns
    /\ incoming \subseteq Conns
    /\ point \in {"accept", "load", "cas"}
    /\ current \in Nat
    /\ serving \subseteq Conns
    /\ dropped \subseteq Conns

(* The counter is never off by a guard: it counts the tasks being served,  *)
(* never underflows (it is unsigned) and never passes the limit.           *)
CountIsExact ==
    /\ IsFiniteSet(serving)
    /\ count = Cardinality(serving)
    /\ count <= MaxConnections

(* The strengthening that makes it inductive: the loop has a stream in hand*)
(* just when it is past accept, and it attempts the exchange only from a   *)
(* value below the limit.                                                  *)
SlotInv ==
    /\ TypeOK
    /\ CountIsExact
    /\ incoming = {} <=> point = "accept"
    /\ \A c, d \in incoming : c = d
    /\ backlog \cap (incoming \cup serving) = {}
    /\ incoming \cap serving = {}
    /\ point = "cas" => current < MaxConnections

(* Every accepted stream is served or dropped: the compare_exchange loop   *)
(* cannot retry for ever, as only a finished connection makes it retry.    *)
AcceptedIsDecided ==
    \A c \in Conns : (c \in incoming) ~> (c \in serving \cup dropped)

(* The counter with its exchange loop implements the limit as a semaphore. *)
Limit == INSTANCE ConnectionLimit WITH waiting <- backlog \cup incoming, held <- serving
ImplementsLimit == Limit!Spec
=============================================================================
