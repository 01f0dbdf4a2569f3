-------------------------- MODULE ConnectionLimit --------------------------
(***************************************************************************)
(* What the server promises about concurrent connections: a connection is  *)
(* served only while it holds one of MaxConnections slots, is turned away  *)
(* only when all of them are held, and a slot comes back when the          *)
(* connection's task is over.                                              *)
(***************************************************************************)
EXTENDS Integers, FiniteSets

CONSTANTS Conns, MaxConnections

VARIABLES
    waiting,    \* connections the listener has not taken yet
    held        \* connections that hold a slot

limitVars == <<waiting, held>>

Init ==
    /\ waiting = Conns
    /\ held = {}

Admit(c) ==
    /\ c \in waiting
    /\ Cardinality(held) < MaxConnections
    /\ waiting' = waiting \ {c}
    /\ held' = held \cup {c}

TurnAway(c) ==
    /\ c \in waiting
    /\ Cardinality(held) >= MaxConnections
    /\ waiting' = waiting \ {c}
    /\ UNCHANGED held

Release(c) ==
    /\ c \in held
    /\ held' = held \ {c}
    /\ UNCHANGED waiting

Next == \E c \in Conns : Admit(c) \/ TurnAway(c) \/ Release(c)

Spec == Init /\ [][Next]_limitVars
=============================================================================
