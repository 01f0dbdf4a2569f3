----------------------- MODULE ConnectionSlotsProofs -----------------------
(* Machine-checked proofs about the connection counter, for any set of     *)
(* connections and any limit.                                              *)
EXTENDS ConnectionSlots, FiniteSetTheorems, TLAPS

LEMMA SlotInit == Init => SlotInv
  BY FS_EmptySet, MaxConnectionsAssumption DEF Init, SlotInv, TypeOK, CountIsExact

(* The exchange adds one slot, below the limit it was loaded under. *)
LEMMA ExchangeInv ==
    ASSUME SlotInv, Exchange
    PROVE  SlotInv'
<1> USE DEF SlotInv, TypeOK
<1>1. PICK c \in Conns : incoming = {c} /\ c \notin serving
  BY DEF Exchange
<1>2. serving' = serving \cup {c} /\ count' = count + 1 /\ count < MaxConnections
  BY <1>1 DEF Exchange
<1>3. CountIsExact'
  <2>1. IsFiniteSet(serving') /\ Cardinality(serving') = Cardinality(serving) + 1
    BY <1>1, <1>2, FS_AddElement DEF CountIsExact
  <2> QED BY <1>2, <2>1, MaxConnectionsAssumption DEF CountIsExact
<1> QED BY <1>1, <1>2, <1>3 DEF Exchange

(* A dropped guard returns the slot it stood for, so the counter was       *)
(* positive.                                                               *)
LEMMA DropGuardInv ==
    ASSUME SlotInv, NEW c \in Conns, DropGuard(c)
    PROVE  SlotInv'
<1> USE DEF SlotInv, TypeOK
<1>1. /\ IsFiniteSet(serving \ {c})
      /\ Cardinality(serving \ {c}) = Cardinality(serving) - 1
      /\ Cardinality(serving \ {c}) \in Nat
  BY FS_RemoveElement, FS_CardinalityType DEF DropGuard, CountIsExact
<1>2. count' \in Nat /\ CountIsExact'
  BY <1>1, MaxConnectionsAssumption DEF DropGuard, CountIsExact
<1> QED BY <1>2 DEF DropGuard

LEMMA SlotStep == SlotInv /\ [Next]_slotVars => SlotInv'
<1> SUFFICES ASSUME SlotInv, [Next]_slotVars PROVE SlotInv'
  OBVIOUS
<1> USE DEF SlotInv, TypeOK
<1>1. CASE UNCHANGED slotVars
  BY <1>1 DEF slotVars, CountIsExact
<1>2. CASE LoadFull \/ LoadFree \/ ExchangeFails
  BY <1>2 DEF LoadFull, LoadFree, ExchangeFails, CountIsExact
<1>3. ASSUME NEW c \in Conns, Accept(c) PROVE SlotInv'
  BY <1>3 DEF Accept, CountIsExact
<1> QED BY <1>1, <1>2, <1>3, ExchangeInv, DropGuardInv DEF Next, TryAcquireSlot

(* The inductive invariant of the counter. *)
THEOREM SlotInvariant == Spec => []SlotInv
  BY SlotInit, SlotStep, PTL DEF Spec

(* The counter equals the number of live guards and respects the limit. *)
THEOREM CounterIsExact == Spec => []CountIsExact
  BY SlotInvariant, PTL DEF SlotInv

(* The instance counts with the same cardinality. *)
LEMMA SameCardinality == \A S : Limit!Cardinality(S) = Cardinality(S)
  BY DEF Limit!Cardinality, Cardinality

(* The compare_exchange loop and the guards implement a semaphore: no      *)
(* over-subscription, and no rejection while a slot is free.               *)
THEOREM SlotsImplementLimit == Spec => ImplementsLimit
<1>1. Init => Limit!Init
  BY DEF Init, Limit!Init
<1>2. SlotInv /\ [Next]_slotVars => [Limit!Next]_(Limit!limitVars)
  <2> SUFFICES ASSUME SlotInv, [Next]_slotVars
               PROVE  Limit!Next \/ UNCHANGED Limit!limitVars
    OBVIOUS
  <2> USE DEF SlotInv, TypeOK, Limit!limitVars
  <2>1. CASE UNCHANGED slotVars
    BY <2>1 DEF slotVars
  <2>2. CASE LoadFree \/ ExchangeFails
    BY <2>2 DEF LoadFree, ExchangeFails
  <2>3. ASSUME NEW c \in Conns, Accept(c) PROVE UNCHANGED Limit!limitVars
    BY <2>3 DEF Accept
  <2>4. CASE LoadFull
    <3>1. PICK c \in Conns : incoming = {c}
      BY <2>4 DEF LoadFull
    <3>2. backlog' = backlog /\ incoming' = {} /\ serving' = serving
      BY <2>4 DEF LoadFull
    <3>3. (backlog \cup incoming)' = (backlog \cup incoming) \ {c}
      BY <3>1, <3>2
    <3>4. Cardinality(serving) >= MaxConnections
      BY <2>4 DEF LoadFull, CountIsExact
    <3>5. Limit!TurnAway(c)
      BY <3>1, <3>2, <3>3, <3>4, SameCardinality DEF Limit!TurnAway
    <3> QED BY <3>5 DEF Limit!Next
  <2>5. CASE Exchange
    <3>1. PICK c \in Conns : incoming = {c}
      BY <2>5 DEF Exchange
    <3>2. backlog' = backlog /\ incoming' = {} /\ serving' = serving \cup {c}
      BY <2>5, <3>1 DEF Exchange
    <3>3. (backlog \cup incoming)' = (backlog \cup incoming) \ {c}
      BY <3>1, <3>2
    <3>4. Cardinality(serving) < MaxConnections
      BY <2>5 DEF Exchange, CountIsExact
    <3>5. Limit!Admit(c)
      BY <3>1, <3>2, <3>3, <3>4, SameCardinality DEF Limit!Admit
    <3> QED BY <3>5 DEF Limit!Next
  <2>6. ASSUME NEW c \in Conns, DropGuard(c) PROVE Limit!Next
    BY <2>6 DEF DropGuard, Limit!Release, Limit!Next
  <2> QED BY <2>1, <2>2, <2>3, <2>4, <2>5, <2>6 DEF Next, TryAcquireSlot
<1> QED BY <1>1, <1>2, SlotInvariant, PTL DEF Spec, ImplementsLimit, Limit!Spec
=============================================================================
