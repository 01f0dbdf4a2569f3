------------------------- MODULE RoomManagerProofs -------------------------
(* Machine-checked proofs about the room table, for any sets of           *)
(* connections, addresses and codes and any positive limits.              *)
EXTENDS RoomManager, FiniteSetTheorems, TLAPS

(* The room left by the replacement step of add_peer is part of the old    *)
(* one, has no entry with c's code, and is as small as the limit demands.  *)
LEMMA KeptFacts ==
    ASSUME RoomInv, NEW c \in Conns
    PROVE  /\ Kept(c) \subseteq room[ip[c]]
           /\ IsFiniteSet(Kept(c))
           /\ Cardinality(Kept(c)) \in Nat
           /\ Cardinality(Kept(c)) <= MaxPeersPerRoom
           /\ \A p \in Kept(c) : code[p] # code[c]
<1> DEFINE R == room[ip[c]]
<1>1. ip[c] \in IPs /\ R \subseteq Conns
  BY DEF RoomInv, TypeOK
<1>2. Kept(c) \subseteq R
  BY DEF Kept
<1>3. IsFiniteSet(R) /\ Cardinality(R) <= MaxPeersPerRoom
  BY <1>1 DEF RoomInv, RoomsBounded
<1>4. IsFiniteSet(Kept(c)) /\ Cardinality(Kept(c)) <= Cardinality(R)
  BY <1>2, <1>3, FS_Subset
<1>5. Cardinality(Kept(c)) \in Nat /\ Cardinality(R) \in Nat
  BY <1>3, <1>4, FS_CardinalityType
<1>6. ASSUME NEW p \in Kept(c) PROVE code[p] # code[c]
  <2>1. CASE SameCode(c) = {}
    BY <2>1, <1>6, <1>2 DEF Kept, SameCode
  <2>2. CASE SameCode(c) # {}
    <3> DEFINE old == CHOOSE q \in SameCode(c) : TRUE
    <3>1. old \in SameCode(c) /\ old \in R /\ code[old] = code[c]
      BY <2>2 DEF SameCode
    <3>2. p \in R /\ p # old
      BY <2>2, <1>6 DEF Kept
    <3>3. code[p] # code[old]
      BY <3>1, <3>2, <1>1 DEF RoomInv, OneEntryPerCode
    <3> QED BY <3>1, <3>3
  <2> QED BY <2>1, <2>2
<1> QED BY <1>2, <1>3, <1>4, <1>5, <1>6, RoomLimitsAssumption

(* A member's retain keeps everything but the member itself. *)
LEMMA RetainedFacts ==
    ASSUME RoomInv, NEW c \in Conns, pc[c] = "member"
    PROVE  Retained(c) = room[ip[c]] \ {c}
<1>1. ip[c] \in IPs /\ room[ip[c]] \subseteq Conns
  BY DEF RoomInv, TypeOK
<1>2. \A p \in room[ip[c]] : pc[p] = "member"
  BY <1>1 DEF RoomInv, EntriesAreServed
<1>3. \A p \in room[ip[c]] : session[p] = session[c] => p = c
  BY <1>1, <1>2 DEF RoomInv, SessionsDistinct
<1> QED BY <1>3 DEF Retained

LEMMA InitInv == Init => RoomInv
<1> SUFFICES ASSUME Init PROVE RoomInv
  OBVIOUS
<1> USE DEF Init
<1>1. TypeOK
  BY DEF TypeOK, Points
<1>2. RoomsBounded
  BY FS_EmptySet, RoomLimitsAssumption DEF RoomsBounded
<1>3. SessionsDistinct /\ AbsentRoomsEmpty /\ OneEntryPerCode
  BY DEF SessionsDistinct, AbsentRoomsEmpty, OneEntryPerCode
<1>4. EntriesAreServed /\ EmptyRoomsHaveReaper /\ LateJoinersKnown
  BY DEF EntriesAreServed, EmptyRoomsHaveReaper, LateJoinersKnown
<1> QED BY <1>1, <1>2, <1>3, <1>4 DEF RoomInv

(* Insertion, the one step that lengthens a room. *)
LEMMA InsertInv ==
    ASSUME RoomInv, NEW c \in Conns, Insert(c)
    PROVE  RoomInv'
<1>1. /\ ip[c] \in IPs /\ code[c] \in Codes
      /\ pc[c] = "insert" /\ c \notin Kept(c)
  BY KeptFacts DEF RoomInv, TypeOK, Insert
<1>2. room[ip[c]] \subseteq Conns /\ Kept(c) \subseteq room[ip[c]]
  BY <1>1, KeptFacts DEF RoomInv, TypeOK
<1>3. TypeOK'
  <2>1. {code[p] : p \in Kept(c)} \subseteq Codes
    BY <1>2 DEF RoomInv, TypeOK
  <2> QED BY <1>1, <1>2, <2>1 DEF Insert, CodesIn, RoomInv, TypeOK, Points
<1>4. SessionsDistinct'
  BY <1>1 DEF Insert, RoomInv, TypeOK, SessionsDistinct
<1>5. AbsentRoomsEmpty'
  BY <1>1 DEF Insert, RoomInv, TypeOK, AbsentRoomsEmpty
<1>6. OneEntryPerCode'
  <2>1. \A p \in Kept(c) : code[p] # code[c]
    BY KeptFacts
  <2> QED BY <1>1, <1>2, <2>1 DEF Insert, RoomInv, TypeOK, OneEntryPerCode
<1>7. EntriesAreServed'
  BY <1>1, <1>2 DEF Insert, RoomInv, TypeOK, EntriesAreServed
<1>8. RoomsBounded'
  <2>1. Cardinality(Kept(c)) < MaxPeersPerRoom
    BY KeptFacts, RoomLimitsAssumption DEF Insert, RoomFull
  <2>2. /\ IsFiniteSet(Kept(c) \cup {c})
        /\ Cardinality(Kept(c) \cup {c}) = Cardinality(Kept(c)) + 1
    BY <1>1, KeptFacts, FS_AddElement
  <2>3. Cardinality(Kept(c) \cup {c}) <= MaxPeersPerRoom
    BY <2>1, <2>2, KeptFacts, RoomLimitsAssumption
  <2>4. \A i \in IPs : room'[i] = IF i = ip[c] THEN Kept(c) \cup {c} ELSE room[i]
    BY <1>1 DEF Insert, RoomInv, TypeOK
  <2> QED BY <2>2, <2>3, <2>4 DEF RoomInv, RoomsBounded
<1>9. EmptyRoomsHaveReaper'
  <2> SUFFICES ASSUME NEW i \in active', room'[i] = {}
               PROVE  \E d \in Conns : pc'[d] = "reap" /\ ip'[d] = i
    BY DEF EmptyRoomsHaveReaper
  <2>1. i # ip[c] /\ i \in active /\ room[i] = {}
    BY <1>1 DEF Insert, RoomInv, TypeOK
  <2>2. PICK d \in Conns : pc[d] = "reap" /\ ip[d] = i
    BY <2>1 DEF RoomInv, EmptyRoomsHaveReaper
  <2>3. d # c /\ pc'[d] = pc[d] /\ ip'[d] = ip[d]
    BY <1>1, <2>2 DEF Insert, RoomInv, TypeOK
  <2> QED BY <2>2, <2>3
<1>10. LateJoinersKnown'
  <2> SUFFICES ASSUME NEW d \in Conns
               PROVE  IF pc'[d] = "reap" THEN room'[ip'[d]] \subseteq late'[d]
                      ELSE late'[d] = {}
    BY DEF LateJoinersKnown
  <2>1. /\ pc'[d] = "reap" <=> pc[d] = "reap"
        /\ ip'[d] = ip[d] /\ ip[d] \in IPs
        /\ room'[ip[d]] = IF ip[d] = ip[c] THEN Kept(c) \cup {c} ELSE room[ip[d]]
        /\ late'[d] = IF pc[d] = "reap" /\ ip[d] = ip[c] THEN late[d] \cup {c}
                      ELSE late[d]
    BY <1>1 DEF Insert, RoomInv, TypeOK
  <2>2. IF pc[d] = "reap" THEN room[ip[d]] \subseteq late[d] ELSE late[d] = {}
    BY DEF RoomInv, LateJoinersKnown
  <2> QED BY <1>2, <2>1, <2>2
<1> QED BY <1>3, <1>4, <1>5, <1>6, <1>7, <1>8, <1>9, <1>10 DEF RoomInv

(* A full room has no entry to replace, so a refusal loses none. *)
LEMMA RefusalLosesNothing ==
    ASSUME RoomInv, NEW c \in Conns, InsertRefused(c)
    PROVE  room' = room
<1>1. ip[c] \in IPs /\ room \in [IPs -> SUBSET Conns]
  BY DEF RoomInv, TypeOK
<1>2. Kept(c) = room[ip[c]]
  <2> DEFINE R == room[ip[c]]
  <2>1. IsFiniteSet(R) /\ Cardinality(R) <= MaxPeersPerRoom /\ Cardinality(R) \in Nat
    BY <1>1, FS_CardinalityType DEF RoomInv, RoomsBounded
  <2>2. Cardinality(Kept(c)) >= MaxPeersPerRoom /\ Kept(c) \subseteq R
    BY KeptFacts DEF InsertRefused, RoomFull
  <2>3. Cardinality(Kept(c)) = Cardinality(R)
    BY <2>1, <2>2, KeptFacts, FS_Subset, RoomLimitsAssumption
  <2> QED BY <2>1, <2>2, <2>3, FS_Subset
<1> QED BY <1>1, <1>2 DEF InsertRefused

(* A refusal by a full room; what remains there is not empty. *)
LEMMA InsertRefusedInv ==
    ASSUME RoomInv, NEW c \in Conns, InsertRefused(c)
    PROVE  RoomInv'
<1>1. ip[c] \in IPs /\ pc[c] = "insert" /\ c \notin room[ip[c]]
  BY DEF InsertRefused, RoomInv, TypeOK, EntriesAreServed
<1>2. room[ip[c]] \subseteq Conns /\ Kept(c) \subseteq room[ip[c]]
  BY <1>1, KeptFacts DEF RoomInv, TypeOK
<1>3. \A i \in IPs : room'[i] = IF i = ip[c] THEN Kept(c) ELSE room[i]
  BY <1>1 DEF InsertRefused, RoomInv, TypeOK
<1>4. Kept(c) # {}
  BY KeptFacts, FS_EmptySet, RoomLimitsAssumption DEF InsertRefused, RoomFull
<1>5. TypeOK'
  BY <1>1, <1>2 DEF InsertRefused, RoomInv, TypeOK, Points
<1>6. SessionsDistinct' /\ AbsentRoomsEmpty'
  BY <1>1 DEF InsertRefused, RoomInv, TypeOK, SessionsDistinct, AbsentRoomsEmpty
<1>7. OneEntryPerCode' /\ EntriesAreServed'
  BY <1>1, <1>2, <1>3
  DEF InsertRefused, RoomInv, TypeOK, OneEntryPerCode, EntriesAreServed
<1>8. RoomsBounded'
  BY <1>3, KeptFacts DEF RoomInv, RoomsBounded
<1>9. EmptyRoomsHaveReaper'
  BY <1>1, <1>3, <1>4 DEF InsertRefused, RoomInv, TypeOK, EmptyRoomsHaveReaper
<1>10. LateJoinersKnown'
  BY <1>1, RefusalLosesNothing DEF InsertRefused, RoomInv, TypeOK, LateJoinersKnown
<1> QED BY <1>5, <1>6, <1>7, <1>8, <1>9, <1>10 DEF RoomInv

(* The locked part of remove_peer; a room it empties gains c as reaper. *)
LEMMA LeaveInv ==
    ASSUME RoomInv, NEW c \in Conns, Leave(c)
    PROVE  RoomInv'
<1>1. ip[c] \in IPs /\ code[c] \in Codes /\ pc[c] = "member"
  BY DEF Leave, RoomInv, TypeOK
<1>2. Retained(c) = room[ip[c]] \ {c}
  BY <1>1, RetainedFacts
<1>3. c \in room[ip[c]] /\ room[ip[c]] \subseteq Conns
  BY <1>1, <1>2 DEF Leave, RoomInv, TypeOK
<1>4. \A i \in IPs : room'[i] = IF i = ip[c] THEN room[i] \ {c} ELSE room[i]
  BY <1>1, <1>2 DEF Leave, RoomInv, TypeOK
<1>5. TypeOK'
  BY <1>1, <1>2, <1>3 DEF Leave, RoomInv, TypeOK, Points
<1>6. SessionsDistinct' /\ AbsentRoomsEmpty'
  BY <1>1, <1>4 DEF Leave, RoomInv, TypeOK, SessionsDistinct, AbsentRoomsEmpty
<1>7. OneEntryPerCode'
  <2>1. code' = code
    BY DEF Leave
  <2>2. ASSUME NEW i \in IPs PROVE room'[i] \subseteq room[i]
    <3>1. CASE i = ip[c]
      BY <3>1, <1>4
    <3>2. CASE i # ip[c]
      BY <3>2, <1>4
    <3> QED BY <3>1, <3>2
  <2> QED BY <2>1, <2>2 DEF RoomInv, OneEntryPerCode
<1>8. EntriesAreServed'
  <2>1. ip' = ip /\ \A p \in Conns : p # c => pc'[p] = pc[p]
    BY DEF Leave, RoomInv, TypeOK
  <2>2. \A i \in IPs : \A p \in room[i] : p \in Conns /\ pc[p] = "member" /\ ip[p] = i
    BY DEF RoomInv, TypeOK, EntriesAreServed
  <2>3. ASSUME NEW i \in IPs, NEW p \in room'[i] PROVE p \in room[i] /\ p # c
    <3>1. CASE i = ip[c]
      BY <3>1, <1>4
    <3>2. CASE i # ip[c]
      BY <3>2, <1>4, <2>2
    <3> QED BY <3>1, <3>2
  <2> QED BY <2>1, <2>2, <2>3 DEF EntriesAreServed
<1>9. RoomsBounded'
  <2>1. ASSUME NEW i \in IPs
        PROVE  IsFiniteSet(room'[i]) /\ Cardinality(room'[i]) <= MaxPeersPerRoom
    <3>1. room'[i] \subseteq room[i]
      BY <1>4
    <3>2. IsFiniteSet(room[i]) /\ Cardinality(room[i]) <= MaxPeersPerRoom
      BY DEF RoomInv, RoomsBounded
    <3>3. IsFiniteSet(room'[i]) /\ Cardinality(room'[i]) <= Cardinality(room[i])
      BY <3>1, <3>2, FS_Subset
    <3> QED BY <3>2, <3>3, FS_CardinalityType, RoomLimitsAssumption
  <2> QED BY <2>1 DEF RoomsBounded
<1>10. EmptyRoomsHaveReaper'
  BY <1>1, <1>2, <1>4 DEF Leave, ShouldRemoveRoom, RoomInv, TypeOK, EmptyRoomsHaveReaper
<1>11. LateJoinersKnown'
  <2> SUFFICES ASSUME NEW d \in Conns
               PROVE  IF pc'[d] = "reap" THEN room'[ip'[d]] \subseteq late'[d]
                      ELSE late'[d] = {}
    BY DEF LateJoinersKnown
  <2>1. /\ ip'[d] = ip[d] /\ ip[d] \in IPs /\ late'[d] = late[d]
        /\ room'[ip[d]] = IF ip[d] = ip[c] THEN room[ip[d]] \ {c} ELSE room[ip[d]]
    BY <1>4 DEF Leave, RoomInv, TypeOK
  <2>2. IF pc[d] = "reap" THEN room[ip[d]] \subseteq late[d] ELSE late[d] = {}
    BY DEF RoomInv, LateJoinersKnown
  <2>3. CASE d = c
    BY <1>1, <1>2, <1>4, <2>1, <2>2, <2>3 DEF Leave, ShouldRemoveRoom, RoomInv, TypeOK
  <2>4. CASE d # c
    BY <2>1, <2>2, <2>4 DEF Leave, RoomInv, TypeOK
  <2> QED BY <2>3, <2>4
<1> QED BY <1>5, <1>6, <1>7, <1>8, <1>9, <1>10, <1>11 DEF RoomInv

(* Dropping the room, empty or not. *)
LEMMA ReapInv ==
    ASSUME RoomInv, NEW c \in Conns, Reap(c)
    PROVE  RoomInv'
<1>1. ip[c] \in IPs /\ pc[c] = "reap"
  BY DEF Reap, RoomInv, TypeOK
<1>2. \A i \in IPs : room'[i] = IF i = ip[c] THEN {} ELSE room[i]
  BY <1>1 DEF Reap, RoomInv, TypeOK
<1>3. TypeOK'
  BY <1>1 DEF Reap, RoomInv, TypeOK, Points
<1>4. SessionsDistinct' /\ AbsentRoomsEmpty'
  BY <1>1, <1>2 DEF Reap, RoomInv, TypeOK, SessionsDistinct, AbsentRoomsEmpty
<1>5. OneEntryPerCode' /\ EntriesAreServed'
  BY <1>1, <1>2 DEF Reap, RoomInv, TypeOK, OneEntryPerCode, EntriesAreServed
<1>6. RoomsBounded'
  BY <1>2, FS_EmptySet, RoomLimitsAssumption DEF RoomInv, RoomsBounded
<1>7. EmptyRoomsHaveReaper'
  BY <1>1, <1>2 DEF Reap, RoomInv, TypeOK, EmptyRoomsHaveReaper
<1>8. LateJoinersKnown'
  BY <1>1, <1>2 DEF Reap, RoomInv, TypeOK, LateJoinersKnown
<1> QED BY <1>3, <1>4, <1>5, <1>6, <1>7, <1>8 DEF RoomInv

(* The steps that touch neither the table nor a channel. *)
LEMMA LocalStepInv ==
    ASSUME RoomInv, NEW c \in Conns,
           FetchSession(c) \/ Lookup(c) \/ CountRooms(c) \/ LeaveReplaced(c)
    PROVE  RoomInv'
<1> USE DEF RoomInv, TypeOK, Points
<1>1. /\ UNCHANGED <<ip, code, active, room, existing, chan, late>>
      /\ \E q \in Points : pc' = [pc EXCEPT ![c] = q] /\ q \notin {"idle", "reap"}
      /\ pc[c] # "reap"
  BY DEF FetchSession, Lookup, CountRooms, LeaveReplaced
<1>2. c \in room[ip[c]] => pc[c] = "member"
  BY DEF EntriesAreServed
<1>3. LeaveReplaced(c) => c \notin room[ip[c]]
  BY RetainedFacts DEF LeaveReplaced, AbsentRoomsEmpty
<1>4. TypeOK' /\ SessionsDistinct'
  <2>1. CASE FetchSession(c)
    BY <2>1 DEF FetchSession, SessionsDistinct
  <2>2. CASE ~ FetchSession(c)
    <3>1. UNCHANGED <<nextSession, session>> /\ pc[c] # "idle"
      BY <2>2 DEF Lookup, CountRooms, LeaveReplaced
    <3> QED BY <1>1, <3>1 DEF SessionsDistinct
  <2> QED BY <2>1, <2>2
<1>5. AbsentRoomsEmpty' /\ OneEntryPerCode' /\ RoomsBounded'
  BY <1>1 DEF AbsentRoomsEmpty, OneEntryPerCode, RoomsBounded
<1>6. EntriesAreServed'
  <2>1. pc[c] = "member" => c \notin room[ip[c]]
    BY <1>3 DEF FetchSession, Lookup, CountRooms
  <2>2. \A i \in IPs : c \notin room[i]
    BY <2>1 DEF EntriesAreServed
  <2> QED BY <1>1, <2>2 DEF EntriesAreServed
<1>7. EmptyRoomsHaveReaper'
  BY <1>1 DEF EmptyRoomsHaveReaper
<1>8. LateJoinersKnown'
  BY <1>1 DEF LateJoinersKnown
<1> QED BY <1>4, <1>5, <1>6, <1>7, <1>8

LEMMA StepInv == RoomInv /\ [Next]_roomVars => RoomInv'
<1> SUFFICES ASSUME RoomInv, [Next]_roomVars PROVE RoomInv'
  OBVIOUS
<1>1. CASE UNCHANGED roomVars
  BY <1>1 DEF roomVars, RoomInv, TypeOK, SessionsDistinct, AbsentRoomsEmpty,
     OneEntryPerCode, EntriesAreServed, RoomsBounded, EmptyRoomsHaveReaper,
     LateJoinersKnown
<1>2. ASSUME NEW c \in Conns, AddPeer(c) PROVE RoomInv'
  BY <1>2, LocalStepInv, InsertInv, InsertRefusedInv DEF AddPeer
<1>3. ASSUME NEW c \in Conns, RemovePeer(c) PROVE RoomInv'
  BY <1>3, LocalStepInv, LeaveInv, ReapInv DEF RemovePeer
<1> QED BY <1>1, <1>2, <1>3 DEF Next

(* RoomInv holds in every reachable state of the room table. *)
THEOREM RoomInvariant == Spec => []RoomInv
  BY InitInv, StepInv, PTL DEF Spec

(* The variables keep their types. *)
THEOREM RoomTypeCorrect == Spec => []TypeOK
  BY RoomInvariant, PTL DEF RoomInv

(* A code names at most one peer of a room. *)
THEOREM CodesUniquePerRoom == Spec => []OneEntryPerCode
  BY RoomInvariant, PTL DEF RoomInv

(* Every entry of the table belongs to a task between its two calls. *)
THEOREM NoGhostEntries == Spec => []EntriesAreServed
  BY RoomInvariant, PTL DEF RoomInv

(* MAX_PEERS_PER_ROOM is never exceeded. *)
THEOREM RoomLimitHolds == Spec => []RoomsBounded
  BY RoomInvariant, PTL DEF RoomInv

(* An empty room in the table always has a remover about to drop it. *)
THEOREM NoRoomLeak == Spec => []EmptyRoomsHaveReaper
  BY RoomInvariant, PTL DEF RoomInv

(* When all connections have come and gone nothing is left in the table. *)
THEOREM EmptyAtQuiescence == Spec => []QuiescentTableEmpty
<1>1. RoomInv => QuiescentTableEmpty
  <2> SUFFICES ASSUME RoomInv, Quiescent
               PROVE  active = {} /\ \A i \in IPs : room[i] = {}
    BY DEF QuiescentTableEmpty
  <2>1. ASSUME NEW i \in IPs PROVE room[i] = {}
    <3>1. \A p \in room[i] : p \in Conns /\ pc[p] = "member"
      BY DEF RoomInv, TypeOK, EntriesAreServed
    <3> QED BY <3>1 DEF Quiescent
  <2>2. \A c \in Conns : pc[c] # "reap"
    BY DEF Quiescent
  <2>3. active = {}
    BY <2>1, <2>2 DEF RoomInv, TypeOK, EmptyRoomsHaveReaper
  <2> QED BY <2>1, <2>3
<1> QED BY <1>1, RoomInvariant, PTL

LEMMA SparingTeardown ==
    ASSUME RoomInv, NEW d \in Conns, AddPeer(d) \/ RemovePeer(d),
           NEW c \in Conns, TearsDown(c), NEW i \in IPs
    PROVE  room[i] \ room'[i] \subseteq {c} \cup late[c]
<1>1. LeaveReplaced(c) \/ Leave(c) \/ Reap(c)
  BY DEF AddPeer, RemovePeer, FetchSession, Lookup, CountRooms, Insert, InsertRefused,
     LeaveReplaced, Leave, Reap, RoomInv, TypeOK, TearsDown
<1>2. CASE LeaveReplaced(c)
  BY <1>2 DEF LeaveReplaced
<1>3. CASE Leave(c)
  BY <1>3, RetainedFacts DEF Leave, RoomInv, TypeOK
<1>4. CASE Reap(c)
  <2>1. pc[c] = "reap" /\ room[ip[c]] \subseteq late[c]
    BY <1>4 DEF Reap, RoomInv, LateJoinersKnown
  <2> QED BY <1>4, <2>1 DEF Reap, RoomInv, TypeOK
<1> QED BY <1>1, <1>2, <1>3, <1>4

(* The session check makes the retain of a teardown take its own entry     *)
(* only, and the room it drops afterwards holds nobody but those who joined*)
(* since: whom remove_peer takes out, over both its critical sections.     *)
THEOREM TeardownsSpareOthers == Spec => TeardownSparesOthers
<1> DEFINE Spares == \A c \in Conns : TearsDown(c)
                        => \A i \in IPs : room[i] \ room'[i] \subseteq {c} \cup late[c]
<1>1. RoomInv /\ [Next]_roomVars => [Spares]_roomVars
  BY SparingTeardown DEF Next, roomVars
<1> QED BY <1>1, RoomInvariant, PTL DEF Spec, TeardownSparesOthers

-----------------------------------------------------------------------------
(* The room table implements the directory.                                *)

(* A connection is listed exactly when it stands in its own room. *)
LEMMA ListedFacts == RoomInv => Listed = {p \in Conns : p \in room[ip[p]]}
<1> SUFFICES ASSUME RoomInv PROVE Listed = {p \in Conns : p \in room[ip[p]]}
  OBVIOUS
<1>1. \A i \in IPs : \A p \in room[i] : p \in Conns /\ ip[p] = i
  BY DEF RoomInv, TypeOK, EntriesAreServed
<1>2. \A c \in Conns : ip[c] \in IPs
  BY DEF RoomInv, TypeOK
<1> QED BY <1>1, <1>2 DEF Listed

LEMMA ListedFactsNext ==
    ASSUME RoomInv'
    PROVE  Listed' = {p \in Conns : p \in room'[ip'[p]]}
<1>1. \A i \in IPs : \A p \in room'[i] : p \in Conns /\ ip'[p] = i
  BY DEF RoomInv, TypeOK, EntriesAreServed
<1>2. \A c \in Conns : ip'[c] \in IPs
  BY DEF RoomInv, TypeOK
<1> QED BY <1>1, <1>2 DEF Listed

(* A listed connection is a member, so the ended ones are told by pc. *)
LEMMA ListedAreMembers ==
    ASSUME RoomInv, NEW c \in Listed
    PROVE  c \in Conns /\ ip[c] \in IPs /\ c \in room[ip[c]] /\ pc[c] = "member"
  BY ListedFacts DEF RoomInv, TypeOK, EntriesAreServed

(* Replacement removes every entry of the room with c's code: there is one *)
(* at most.                                                                *)
LEMMA KeptIsRest ==
    ASSUME RoomInv, NEW c \in Conns
    PROVE  Kept(c) = room[ip[c]] \ SameCode(c)
<1>1. Kept(c) \subseteq room[ip[c]] /\ \A p \in Kept(c) : code[p] # code[c]
  BY KeptFacts
<1>2. Kept(c) \subseteq room[ip[c]] \ SameCode(c)
  BY <1>1 DEF SameCode
<1>3. ASSUME NEW p \in room[ip[c]] \ SameCode(c) PROVE p \in Kept(c)
  BY <1>3 DEF Kept
<1> QED BY <1>2, <1>3

LEMMA InsertJoins ==
    ASSUME RoomInv, RoomInv', NEW c \in Conns, Insert(c)
    PROVE  Directory!Join(c)
<1> DEFINE gone == Directory!Replaced(c)
<1>1. Listed = {p \in Conns : p \in room[ip[p]]}
  BY ListedFacts
<1>2. Listed' = {p \in Conns : p \in room'[ip'[p]]}
  BY ListedFactsNext
<1>3. /\ ip' = ip /\ code' = code /\ pc[c] = "insert"
      /\ pc' = [pc EXCEPT ![c] = "member"]
      /\ ip[c] \in IPs /\ \A p \in Conns : ip[p] \in IPs
  BY DEF Insert, RoomInv, TypeOK
<1>4. gone = SameCode(c)
  <2>1. \A p \in room[ip[c]] : p \in Conns /\ ip[p] = ip[c]
    BY <1>3 DEF RoomInv, TypeOK, EntriesAreServed
  <2> QED BY <1>1, <2>1 DEF Directory!Replaced, SameCode
<1>5. c \notin Listed /\ c \notin Ended
  BY <1>3, ListedAreMembers DEF Ended
<1>6. \A i \in IPs : room'[i] = IF i = ip[c] THEN (room[i] \ gone) \cup {c} ELSE room[i]
  BY <1>3, <1>4, KeptIsRest DEF Insert, RoomInv, TypeOK
<1>7. \A p \in gone : p \in Listed /\ ip[p] = ip[c] /\ p # c
  BY <1>5 DEF Directory!Replaced
<1>8. Listed' = (Listed \ gone) \cup {c}
  <2>1. ASSUME NEW p \in Conns
        PROVE  p \in Listed' <=> p \in (Listed \ gone) \cup {c}
    <3>1. CASE ip[p] = ip[c]
      BY <3>1, <1>1, <1>2, <1>3, <1>6
    <3>2. CASE ip[p] # ip[c]
      BY <3>2, <1>1, <1>2, <1>3, <1>6, <1>7
    <3> QED BY <3>1, <3>2
  <2> QED BY <2>1, <1>1, <1>2
<1>9. Ended' = Ended \cup gone
  <2>1. \A p \in Listed : pc[p] = "member"
    BY ListedAreMembers
  <2>2. \A p \in Conns : p # c => pc'[p] = pc[p]
    BY <1>3 DEF RoomInv, TypeOK
  <2>3. gone \subseteq Conns
    BY <1>1, <1>7
  <2>4. ASSUME NEW p \in Conns PROVE p \in Ended' <=> p \in Ended \cup gone
    BY <1>5, <1>7, <1>8, <2>1, <2>2 DEF Ended
  <2> QED BY <2>3, <2>4 DEF Ended
<1> QED BY <1>3, <1>5, <1>8, <1>9 DEF Directory!Join

LEMMA LeaveDeparts ==
    ASSUME RoomInv, RoomInv', NEW c \in Conns, Leave(c)
    PROVE  Directory!Depart(c)
<1>1. Listed = {p \in Conns : p \in room[ip[p]]}
  BY ListedFacts
<1>2. Listed' = {p \in Conns : p \in room'[ip'[p]]}
  BY ListedFactsNext
<1>3. /\ ip' = ip /\ code' = code /\ pc[c] = "member"
      /\ ip[c] \in IPs /\ \A p \in Conns : ip[p] \in IPs
      /\ pc'[c] \in {"reap", "gone"} /\ \A p \in Conns : p # c => pc'[p] = pc[p]
  BY DEF Leave, RoomInv, TypeOK
<1>4. Retained(c) = room[ip[c]] \ {c}
  BY <1>3, RetainedFacts
<1>5. c \in room[ip[c]]
  BY <1>4 DEF Leave
<1>6. \A i \in IPs : room'[i] = IF i = ip[c] THEN room[i] \ {c} ELSE room[i]
  BY <1>3, <1>4 DEF Leave, RoomInv, TypeOK
<1>7. Listed' = Listed \ {c}
  <2>1. ASSUME NEW p \in Conns PROVE p \in Listed' <=> p \in Listed \ {c}
    <3>1. CASE ip[p] = ip[c]
      BY <3>1, <1>1, <1>2, <1>3, <1>6
    <3>2. CASE ip[p] # ip[c]
      BY <3>2, <1>1, <1>2, <1>3, <1>6
    <3> QED BY <3>1, <3>2
  <2> QED BY <2>1, <1>1, <1>2
<1>8. Ended' = Ended \cup {c}
  <2>1. ASSUME NEW p \in Conns PROVE p \in Ended' <=> p \in Ended \cup {c}
    BY <1>3, <1>7 DEF Ended
  <2> QED BY <2>1 DEF Ended
<1> QED BY <1>1, <1>3, <1>5, <1>7, <1>8 DEF Directory!Depart

LEMMA ReapLosesAddress ==
    ASSUME RoomInv, RoomInv', NEW c \in Conns, Reap(c)
    PROVE  Directory!LoseAddress(ip[c]) \/ UNCHANGED Directory!dirVars
<1> DEFINE lost == {p \in Listed : ip[p] = ip[c]}
<1>1. Listed = {p \in Conns : p \in room[ip[p]]}
  BY ListedFacts
<1>2. Listed' = {p \in Conns : p \in room'[ip'[p]]}
  BY ListedFactsNext
<1>3. /\ ip' = ip /\ code' = code /\ pc[c] = "reap" /\ pc'[c] = "gone"
      /\ ip[c] \in IPs /\ \A p \in Conns : ip[p] \in IPs
      /\ \A p \in Conns : p # c => pc'[p] = pc[p]
  BY DEF Reap, RoomInv, TypeOK
<1>4. \A i \in IPs : room'[i] = IF i = ip[c] THEN {} ELSE room[i]
  BY <1>3 DEF Reap, RoomInv, TypeOK
<1>5. Listed' = Listed \ lost
  <2>1. ASSUME NEW p \in Conns PROVE p \in Listed' <=> p \in Listed \ lost
    <3>1. CASE ip[p] = ip[c]
      BY <3>1, <1>1, <1>2, <1>3, <1>4
    <3>2. CASE ip[p] # ip[c]
      BY <3>2, <1>1, <1>2, <1>3, <1>4
    <3> QED BY <3>1, <3>2
  <2> QED BY <2>1, <1>1, <1>2
<1>6. Ended' = Ended \cup lost
  <2>1. \A p \in Listed : p \in Conns /\ pc[p] = "member"
    BY ListedAreMembers
  <2>2. ASSUME NEW p \in Conns PROVE p \in Ended' <=> p \in Ended \cup lost
    BY <1>3, <1>5, <2>1 DEF Ended
  <2> QED BY <2>1, <2>2 DEF Ended
<1>7. CASE lost = {}
  BY <1>3, <1>5, <1>6, <1>7 DEF Directory!dirVars
<1>8. CASE lost # {}
  BY <1>3, <1>5, <1>6, <1>8 DEF Directory!LoseAddress
<1> QED BY <1>7, <1>8

(* A full room refuses before it has lost anything, and the other steps    *)
(* leave both the entries and the set of ended connections alone.          *)
LEMMA OtherStepsStutter ==
    ASSUME RoomInv, NEW c \in Conns,
           FetchSession(c) \/ Lookup(c) \/ CountRooms(c) \/ LeaveReplaced(c)
             \/ InsertRefused(c)
    PROVE  UNCHANGED Directory!dirVars
<1> DEFINE Past == {"member", "reap", "gone"}
<1>1. ip' = ip /\ code' = code /\ \A p \in Conns : p # c => pc'[p] = pc[p]
  BY DEF FetchSession, Lookup, CountRooms, LeaveReplaced, InsertRefused, RoomInv, TypeOK
<1>2. pc'[c] \in Past <=> pc[c] \in Past
  BY DEF FetchSession, Lookup, CountRooms, LeaveReplaced, InsertRefused, RoomInv, TypeOK
<1>3. room' = room
  <2>1. CASE InsertRefused(c)
    BY <2>1, RefusalLosesNothing
  <2>2. CASE ~ InsertRefused(c)
    BY <2>2 DEF FetchSession, Lookup, CountRooms, LeaveReplaced
  <2> QED BY <2>1, <2>2
<1>4. Listed' = Listed
  BY <1>3 DEF Listed
<1>5. Ended' = Ended
  BY <1>1, <1>2, <1>4 DEF Ended
<1> QED BY <1>1, <1>4, <1>5 DEF Directory!dirVars

LEMMA DirectoryInit == Init => Directory!Init
  BY DEF Init, Directory!Init, Listed, Ended

LEMMA DirectoryStep ==
    ASSUME RoomInv, RoomInv', NEW c \in Conns, AddPeer(c) \/ RemovePeer(c)
    PROVE  Directory!Next \/ UNCHANGED Directory!dirVars
<1>1. CASE Insert(c)
  BY <1>1, InsertJoins DEF Directory!Next
<1>2. CASE Leave(c)
  BY <1>2, LeaveDeparts DEF Directory!Next
<1>3. CASE Reap(c)
  <2>1. ip[c] \in IPs
    BY DEF RoomInv, TypeOK
  <2> QED BY <1>3, <2>1, ReapLosesAddress DEF Directory!Next
<1> QED BY <1>1, <1>2, <1>3, OtherStepsStutter DEF AddPeer, RemovePeer

(* The concurrent room table implements the atomic directory. *)
THEOREM ImplementsDirectoryTheorem == Spec => ImplementsDirectory
<1>1. RoomInv /\ RoomInv' /\ [Next]_roomVars => [Directory!Next]_(Directory!dirVars)
  <2> SUFFICES ASSUME RoomInv, RoomInv', [Next]_roomVars
               PROVE  Directory!Next \/ UNCHANGED Directory!dirVars
    OBVIOUS
  <2>1. CASE UNCHANGED roomVars
    BY <2>1 DEF roomVars, Directory!dirVars, Listed, Ended
  <2> QED BY <2>1, DirectoryStep DEF Next
<1> QED BY <1>1, DirectoryInit, RoomInvariant, PTL DEF Spec, ImplementsDirectory, Directory!Spec

-----------------------------------------------------------------------------
(* The broadcasts are exact.                                               *)

(* Nothing is sent to a connection before it is in the table. *)
Early == {"idle", "lookup", "count", "insert"}

Exact(c) == {k \in Codes : Announced(c, k)} = OthersInRoom(c)

ChanInv ==
    /\ ChanTypeOK
    /\ \A c \in Conns : pc[c] \in Early => chan[c] = <<>>
    /\ \A c \in Conns : c \in room[ip[c]] => Exact(c)

(* Only the latest message about a code counts. *)
LEMMA AnnouncedAppend ==
    ASSUME NEW c \in Conns, chan[c] \in Seq(PresenceMessage),
           NEW m \in PresenceMessage, m.type # "peers",
           chan'[c] = Append(chan[c], m), existing'[c] = existing[c], NEW k
    PROVE  Announced(c, k)' <=> IF k = m.peer THEN m.type = "peer_joined"
                                ELSE Announced(c, k)
<1> DEFINE n == Len(chan[c])
<1>1. /\ n \in Nat
      /\ DOMAIN chan[c] = 1 .. n
      /\ DOMAIN chan'[c] = 1 .. (n + 1)
      /\ chan'[c][n + 1] = m
      /\ \A j \in 1 .. n : chan'[c][j] = chan[c][j]
  OBVIOUS
<1>2. CASE k = m.peer
  <2>1. n + 1 \in Heard(c, k)' /\ \A j \in Heard(c, k)' : j \in Nat /\ j <= n + 1
    BY <1>1, <1>2 DEF Heard
  <2>2. \A j \in Heard(c, k)' : (\A l \in Heard(c, k)' : l <= j) => j = n + 1
    BY <1>1, <2>1
  <2> QED BY <1>1, <1>2, <2>1, <2>2 DEF Announced
<1>3. CASE k # m.peer
  <2>1. Heard(c, k)' = Heard(c, k)
    BY <1>1, <1>3 DEF Heard
  <2>2. \A j \in Heard(c, k) : chan'[c][j] = chan[c][j]
    BY <1>1 DEF Heard
  <2> QED BY <1>3, <2>1, <2>2 DEF Announced
<1> QED BY <1>2, <1>3

LEMMA AnnouncedSame ==
    ASSUME NEW c, chan'[c] = chan[c], existing'[c] = existing[c], NEW k
    PROVE  Announced(c, k)' <=> Announced(c, k)
  BY DEF Announced, Heard

LEMMA ChanTypeSame ==
    ASSUME ChanTypeOK, chan' = chan
    PROVE  ChanTypeOK'
  BY DEF ChanTypeOK, PresenceMessage, PeerJoined, PeerLeft, Peers

(* Sending keeps the channels well typed. *)
LEMMA BroadcastType ==
    ASSUME ChanTypeOK, NEW S, NEW m \in PresenceMessage, Broadcast(S, m)
    PROVE  ChanTypeOK'
<1>1. \A c \in Conns : chan[c] \in Seq(PresenceMessage)
  BY DEF ChanTypeOK
<1>2. \A c \in Conns : Append(chan[c], m) \in Seq(PresenceMessage)
  BY <1>1
<1> QED BY <1>1, <1>2 DEF Broadcast, ChanTypeOK

(* What an insertion changes for those who are listed after it. *)
LEMMA InsertSeen ==
    ASSUME RoomInv, NEW c \in Conns, Insert(c)
    PROVE  /\ OthersInRoom(c)' = CodesIn(Kept(c))
           /\ chan'[c] = chan[c] /\ existing'[c] = CodesIn(Kept(c))
           /\ \A p \in Conns \ {c} : p \in room'[ip'[p]] =>
                /\ p \in room[ip[p]] /\ existing'[p] = existing[p]
                /\ p \in Kept(c) =>
                     /\ chan'[p] = Append(chan[p], PeerJoined(code[c]))
                     /\ OthersInRoom(p)' = OthersInRoom(p) \cup {code[c]}
                /\ p \notin Kept(c) =>
                     chan'[p] = chan[p] /\ OthersInRoom(p)' = OthersInRoom(p)
<1>1. ip' = ip /\ code' = code /\ ip[c] \in IPs /\ \A p \in Conns : ip[p] \in IPs
  BY DEF Insert, RoomInv, TypeOK
<1>2. c \notin Kept(c) /\ Kept(c) = room[ip[c]] \ SameCode(c)
  BY KeptFacts, KeptIsRest
<1>3. \A i \in IPs : room'[i] = IF i = ip[c] THEN Kept(c) \cup {c} ELSE room[i]
  BY <1>1 DEF Insert, RoomInv, TypeOK
<1>4. \A p \in Kept(c) : p \in Conns /\ ip[p] = ip[c]
  BY <1>1, <1>2 DEF RoomInv, TypeOK, EntriesAreServed
<1>5. OthersInRoom(c)' = CodesIn(Kept(c))
  <2>1. room'[ip'[c]] \ {c} = Kept(c)
    BY <1>1, <1>2, <1>3
  <2> QED BY <1>1, <2>1 DEF OthersInRoom, CodesIn
<1>6. chan'[c] = chan[c] /\ existing'[c] = CodesIn(Kept(c))
  BY <1>2 DEF Insert, Broadcast, RoomInv, TypeOK
<1>7. ASSUME NEW p \in Conns \ {c}, p \in room'[ip'[p]], p \in Kept(c)
      PROVE  /\ p \in room[ip[p]] /\ existing'[p] = existing[p]
             /\ chan'[p] = Append(chan[p], PeerJoined(code[c]))
             /\ OthersInRoom(p)' = OthersInRoom(p) \cup {code[c]}
  <2>1. room'[ip'[p]] \ {p} = (Kept(c) \ {p}) \cup {c}
    BY <1>1, <1>3, <1>4, <1>7
  <2>2. OthersInRoom(p)' = CodesIn(Kept(c) \ {p}) \cup {code[c]}
    BY <1>1, <2>1 DEF OthersInRoom, CodesIn
  <2>3. CodesIn(Kept(c) \ {p}) \cup {code[c]} = OthersInRoom(p) \cup {code[c]}
    BY <1>2, <1>4, <1>7 DEF OthersInRoom, CodesIn, SameCode
  <2> QED BY <1>2, <1>4, <1>7, <2>2, <2>3 DEF Insert, Broadcast, RoomInv, TypeOK
<1>8. ASSUME NEW p \in Conns \ {c}, p \in room'[ip'[p]], p \notin Kept(c)
      PROVE  /\ p \in room[ip[p]] /\ existing'[p] = existing[p]
             /\ chan'[p] = chan[p] /\ OthersInRoom(p)' = OthersInRoom(p)
  <2>1. ip[p] # ip[c] /\ room'[ip'[p]] = room[ip[p]]
    BY <1>1, <1>3, <1>8
  <2>2. OthersInRoom(p)' = OthersInRoom(p)
    BY <1>1, <2>1 DEF OthersInRoom, CodesIn
  <2> QED BY <1>1, <1>8, <2>1, <2>2 DEF Insert, Broadcast, RoomInv, TypeOK
<1> QED BY <1>5, <1>6, <1>7, <1>8

(* What a departure changes for those who stay. *)
LEMMA LeaveSeen ==
    ASSUME RoomInv, NEW c \in Conns, Leave(c),
           NEW p \in Conns, p \in room'[ip'[p]]
    PROVE  /\ p \in room[ip[p]] /\ existing'[p] = existing[p]
           /\ ip[p] = ip[c] =>
                /\ chan'[p] = Append(chan[p], PeerLeft(code[c]))
                /\ OthersInRoom(p)' = OthersInRoom(p) \ {code[c]}
           /\ ip[p] # ip[c] =>
                chan'[p] = chan[p] /\ OthersInRoom(p)' = OthersInRoom(p)
<1>1. ip' = ip /\ code' = code /\ existing' = existing
      /\ ip[c] \in IPs /\ \A q \in Conns : ip[q] \in IPs
  BY DEF Leave, RoomInv, TypeOK
<1>2. Retained(c) = room[ip[c]] \ {c}
  BY RetainedFacts DEF Leave
<1>3. c \in room[ip[c]]
  BY <1>2 DEF Leave
<1>4. \A i \in IPs : room'[i] = IF i = ip[c] THEN room[i] \ {c} ELSE room[i]
  BY <1>1, <1>2 DEF Leave, RoomInv, TypeOK
<1>5. CASE ip[p] = ip[c]
  <2>1. p # c /\ p \in room[ip[c]] /\ p \in Retained(c)
        /\ room'[ip'[p]] \ {p} = (room[ip[p]] \ {p}) \ {c}
    BY <1>1, <1>2, <1>4, <1>5
  <2>2. \A q \in room[ip[p]] \ {p} : code[q] = code[c] => q = c
    BY <1>1, <1>3, <1>5 DEF RoomInv, OneEntryPerCode
  <2>3. OthersInRoom(p)' = OthersInRoom(p) \ {code[c]}
    BY <1>1, <1>3, <1>5, <2>1, <2>2 DEF OthersInRoom, CodesIn
  <2> QED BY <1>1, <1>5, <2>1, <2>3 DEF Leave, Broadcast
<1>6. CASE ip[p] # ip[c]
  <2>1. room'[ip'[p]] = room[ip[p]] /\ p \notin Retained(c)
    <3>1. \A q \in room[ip[c]] : ip[q] = ip[c]
      BY <1>1 DEF RoomInv, EntriesAreServed
    <3> QED BY <1>1, <1>2, <1>4, <1>6, <3>1
  <2>2. OthersInRoom(p)' = OthersInRoom(p)
    BY <1>1, <2>1 DEF OthersInRoom, CodesIn
  <2> QED BY <1>1, <1>6, <2>1, <2>2 DEF Leave, Broadcast
<1> QED BY <1>5, <1>6

(* The other steps tell nobody anything, and change nothing for those who  *)
(* are still listed.                                                       *)
QuietStep(c) ==
    \/ FetchSession(c) \/ Lookup(c) \/ CountRooms(c)
    \/ InsertRefused(c) \/ LeaveReplaced(c) \/ Reap(c)

LEMMA QuietSeen ==
    ASSUME RoomInv, NEW c \in Conns, QuietStep(c)
    PROVE  /\ chan' = chan /\ existing' = existing
           /\ \A p \in Conns : p \in room'[ip'[p]] =>
                p \in room[ip[p]] /\ OthersInRoom(p)' = OthersInRoom(p)
<1>1. chan' = chan /\ existing' = existing /\ ip' = ip /\ code' = code
  BY DEF QuietStep, FetchSession, Lookup, CountRooms, InsertRefused, LeaveReplaced, Reap
<1>2. CASE Reap(c)
  <2>1. \A p \in Conns : ip[p] \in IPs
    BY DEF RoomInv, TypeOK
  <2>2. \A i \in IPs : room'[i] = IF i = ip[c] THEN {} ELSE room[i]
    BY <1>2 DEF Reap, RoomInv, TypeOK
  <2>3. \A p \in Conns : p \in room'[ip'[p]] => room'[ip'[p]] = room[ip[p]]
    BY <1>1, <2>1, <2>2
  <2> QED BY <1>1, <2>3 DEF OthersInRoom, CodesIn
<1>3. CASE ~ Reap(c)
  <2>1. room' = room
    BY <1>3, RefusalLosesNothing
    DEF QuietStep, FetchSession, Lookup, CountRooms, LeaveReplaced
  <2> QED BY <1>1, <2>1 DEF OthersInRoom, CodesIn
<1> QED BY <1>2, <1>3

(* A step of one task leaves the others where they are, and none goes back *)
(* before the table.                                                       *)
LEMMA EarlyStep ==
    ASSUME RoomInv, NEW c \in Conns, AddPeer(c) \/ RemovePeer(c)
    PROVE  /\ \A p \in Conns : p # c => pc'[p] = pc[p]
           /\ pc'[c] \in Early => pc[c] \in Early /\ chan'[c] = chan[c]
           /\ AddPeer(c) => pc[c] \in Early
  BY DEF AddPeer, RemovePeer, FetchSession, Lookup, CountRooms, Insert, InsertRefused,
     LeaveReplaced, Leave, Reap, RoomInv, TypeOK, Early

LEMMA ChanStep ==
    ASSUME RoomInv, ChanInv, NEW c \in Conns, AddPeer(c) \/ RemovePeer(c)
    PROVE  ChanInv'
<1> USE DEF ChanInv
<1>0. /\ PeerJoined(code[c]) \in PresenceMessage
      /\ PeerLeft(code[c]) \in PresenceMessage
      /\ ChanTypeOK'
  <2>1. /\ PeerJoined(code[c]) \in PresenceMessage
        /\ PeerLeft(code[c]) \in PresenceMessage
    BY DEF RoomInv, TypeOK, PeerJoined, PeerLeft, PresenceMessage
  <2>2. CASE Insert(c)
    BY <2>1, <2>2, BroadcastType DEF Insert
  <2>3. CASE Leave(c)
    BY <2>1, <2>3, BroadcastType DEF Leave
  <2>4. CASE QuietStep(c)
    BY <2>1, <2>4, QuietSeen, ChanTypeSame
  <2> QED BY <2>1, <2>2, <2>3, <2>4 DEF AddPeer, RemovePeer, QuietStep
<1>1. ASSUME NEW p \in Conns, pc'[p] \in Early PROVE chan'[p] = <<>>
  <2>1. pc[p] \in Early /\ chan[p] = <<>>
    BY <1>1, EarlyStep
  <2>2. p \notin room[ip[p]] /\ \A i \in IPs : p \notin room[i]
    BY <2>1 DEF RoomInv, TypeOK, EntriesAreServed, Early
  <2>3. chan'[p] = chan[p]
    <3>1. CASE Insert(c)
      <4>1. ip[c] \in IPs /\ p \notin Kept(c)
        BY <2>2, KeptFacts DEF RoomInv, TypeOK
      <4> QED BY <3>1, <4>1 DEF Insert, Broadcast
    <3>2. CASE Leave(c)
      <4>1. ip[c] \in IPs /\ p \notin Retained(c)
        BY <2>2 DEF RoomInv, TypeOK, Retained
      <4> QED BY <3>2, <4>1 DEF Leave, Broadcast
    <3>3. CASE QuietStep(c)
      BY <3>3, QuietSeen
    <3> QED BY <3>1, <3>2, <3>3 DEF AddPeer, RemovePeer, QuietStep
  <2> QED BY <2>1, <2>3
<1>2. ASSUME NEW p \in Conns, p \in room'[ip'[p]] PROVE Exact(p)'
  <2>1. code[c] \in Codes /\ chan[p] \in Seq(PresenceMessage)
    BY DEF RoomInv, TypeOK, ChanTypeOK
  <2>2. OthersInRoom(p)' \subseteq Codes
    BY StepInv, <1>2 DEF OthersInRoom, CodesIn, RoomInv, TypeOK, Next
  <2>3. CASE Insert(c) /\ p = c
    <3>1. chan'[p] = <<>> /\ existing'[p] = OthersInRoom(p)'
      BY <2>3, InsertSeen DEF Insert, Early
    <3>2. \A k : Announced(p, k)' <=> k \in existing'[p]
      BY <3>1 DEF Announced, Heard
    <3> QED BY <2>2, <3>1, <3>2 DEF Exact
  <2>4. CASE Insert(c) /\ p # c
    <3>1. CASE p \in Kept(c)
      <4>1. \A k : Announced(p, k)' <=> (k = code[c] \/ Announced(p, k))
        BY <1>0, <1>2, <2>1, <2>4, <3>1, InsertSeen, AnnouncedAppend DEF PeerJoined
      <4> QED BY <1>2, <2>1, <2>4, <3>1, <4>1, InsertSeen DEF Exact
    <3>2. CASE p \notin Kept(c)
      BY <1>2, <2>4, <3>2, InsertSeen, AnnouncedSame DEF Exact
    <3> QED BY <3>1, <3>2
  <2>5. CASE Leave(c)
    <3>1. CASE ip[p] = ip[c]
      <4>1. \A k : Announced(p, k)' <=> (k # code[c] /\ Announced(p, k))
        BY <1>0, <1>2, <2>1, <2>5, <3>1, LeaveSeen, AnnouncedAppend DEF PeerLeft
      <4> QED BY <1>2, <2>1, <2>5, <3>1, <4>1, LeaveSeen DEF Exact
    <3>2. CASE ip[p] # ip[c]
      BY <1>2, <2>5, <3>2, LeaveSeen, AnnouncedSame DEF Exact
    <3> QED BY <3>1, <3>2
  <2>6. CASE QuietStep(c)
    BY <1>2, <2>6, QuietSeen, AnnouncedSame DEF Exact
  <2> QED BY <2>3, <2>4, <2>5, <2>6 DEF AddPeer, RemovePeer, QuietStep
<1> QED BY <1>0, <1>1, <1>2

LEMMA ChanInit == Init => ChanInv
  BY DEF Init, ChanInv, ChanTypeOK

LEMMA ExactBroadcasts == RoomInv /\ ChanInv => BroadcastsExact
  BY DEF RoomInv, TypeOK, EntriesAreServed, ChanInv, Exact, BroadcastsExact

(* The broadcasts keep every member's list exact. *)
THEOREM BroadcastsAreExact == Spec => []BroadcastsExact
<1>1. RoomInv /\ ChanInv /\ [Next]_roomVars => ChanInv'
  <2> SUFFICES ASSUME RoomInv, ChanInv, [Next]_roomVars PROVE ChanInv'
    OBVIOUS
  <2>1. CASE UNCHANGED roomVars
    BY <2>1, ChanTypeSame DEF roomVars, ChanInv, Exact, Announced, Heard, OthersInRoom, CodesIn
  <2>2. CASE Next
    BY <2>2, ChanStep DEF Next
  <2> QED BY <2>1, <2>2
<1> QED BY <1>1, ChanInit, ExactBroadcasts, RoomInvariant, PTL DEF Spec
=============================================================================
