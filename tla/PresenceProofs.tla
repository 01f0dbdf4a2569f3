--------------------------- MODULE PresenceProofs ---------------------------
(* Machine-checked proofs about what clients are told of their rooms, and  *)
(* about the manual lookup, for any connections, addresses, codes, limits  *)
(* and any sharding of the table.                                          *)
EXTENDS ManualLookup, RoomManagerProofs

-----------------------------------------------------------------------------
(* How a message changes what a client makes of its channel.               *)
LEMMA ViewAppend ==
    ASSUME NEW c \in Conns, chan[c] \in Seq(PresenceMessage),
           NEW m \in PresenceMessage, chan'[c] = Append(chan[c], m)
    PROVE  View(c)' = IF m.type = "peer_left" THEN View(c) \ {m.peer}
                      ELSE View(c) \cup Names(m)
<1> DEFINE n == Len(chan[c])
<1>1. /\ n \in Nat
      /\ DOMAIN chan[c] = 1 .. n
      /\ DOMAIN chan'[c] = 1 .. (n + 1)
      /\ chan'[c][n + 1] = m
      /\ \A j \in 1 .. n : chan'[c][j] = chan[c][j]
  OBVIOUS
<1>2. Names(m) \subseteq Codes /\ (m.type = "peer_left" => Names(m) = {m.peer})
  BY DEF Names, PresenceMessage
<1>3. ASSUME NEW k \in Names(m) PROVE LastNaming(c, k)' = {n + 1}
  BY <1>1, <1>3 DEF LastNaming, Names
<1>4. ASSUME NEW k, k \notin Names(m) PROVE LastNaming(c, k)' = LastNaming(c, k)
  BY <1>1, <1>4 DEF LastNaming, Names
<1>5. \A k : \A j \in LastNaming(c, k) : chan'[c][j] = chan[c][j]
  BY <1>1 DEF LastNaming
<1>6. ASSUME NEW k \in Names(m) PROVE k \in View(c)' <=> m.type # "peer_left"
  BY <1>1, <1>2, <1>3, <1>6 DEF View
<1>7. ASSUME NEW k, k \notin Names(m) PROVE k \in View(c)' <=> k \in View(c)
  <2>1. LastNaming(c, k)' = LastNaming(c, k)
    BY <1>4, <1>7
  <2>2. \A j \in LastNaming(c, k) : chan'[c][j] = chan[c][j]
    BY <1>5
  <2> QED BY <2>1, <2>2 DEF View
<1> QED BY <1>2, <1>6, <1>7

LEMMA ViewSame ==
    ASSUME NEW c, chan'[c] = chan[c]
    PROVE  /\ View(c)' = View(c)
           /\ LeftBeforeList(c)' <=> LeftBeforeList(c)
  BY DEF View, LastNaming, Names, LeftBeforeList

(* A departure is in the channel. *)
ToldOfDeparture(c) == \E n \in DOMAIN chan[c] : chan[c][n].type = "peer_left"

(* Only the list itself can come after a departure. *)
LEMMA RaceAppend ==
    ASSUME NEW c \in Conns, chan[c] \in Seq(PresenceMessage),
           NEW m, chan'[c] = Append(chan[c], m)
    PROVE  /\ LeftBeforeList(c) => LeftBeforeList(c)'
           /\ ToldOfDeparture(c) => ToldOfDeparture(c)'
           /\ m.type = "peers" /\ ToldOfDeparture(c) => LeftBeforeList(c)'
           /\ m.type = "peer_left" => ToldOfDeparture(c)'
<1> DEFINE n == Len(chan[c])
<1>1. /\ n \in Nat
      /\ DOMAIN chan[c] = 1 .. n
      /\ DOMAIN chan'[c] = 1 .. (n + 1)
      /\ chan'[c][n + 1] = m
      /\ \A j \in 1 .. n : chan'[c][j] = chan[c][j]
  OBVIOUS
<1>2. LeftBeforeList(c) => LeftBeforeList(c)'
  <2> SUFFICES ASSUME NEW i \in 1 .. n, NEW j \in 1 .. n, i < j,
                      chan[c][i].type = "peer_left", chan[c][j].type = "peers"
               PROVE  LeftBeforeList(c)'
    BY <1>1 DEF LeftBeforeList
  <2>1. /\ i \in DOMAIN chan'[c] /\ j \in DOMAIN chan'[c]
        /\ chan'[c][i].type = "peer_left" /\ chan'[c][j].type = "peers"
    BY <1>1
  <2> QED BY <2>1 DEF LeftBeforeList
<1>3. ToldOfDeparture(c) => ToldOfDeparture(c)'
  BY <1>1 DEF ToldOfDeparture
<1>4. m.type = "peers" /\ ToldOfDeparture(c) => LeftBeforeList(c)'
  <2> SUFFICES ASSUME NEW i \in 1 .. n, chan[c][i].type = "peer_left", m.type = "peers"
               PROVE  LeftBeforeList(c)'
    BY <1>1 DEF ToldOfDeparture
  <2>1. /\ i \in DOMAIN chan'[c] /\ n + 1 \in DOMAIN chan'[c] /\ i < n + 1
        /\ chan'[c][i].type = "peer_left" /\ chan'[c][n + 1].type = "peers"
    BY <1>1
  <2> QED BY <2>1 DEF LeftBeforeList
<1>5. m.type = "peer_left" => ToldOfDeparture(c)'
  BY <1>1 DEF ToldOfDeparture
<1> QED BY <1>2, <1>3, <1>4, <1>5

-----------------------------------------------------------------------------
(* What a listed client knows, once and before it has been given its list. *)
(* Of the peers on a list not yet sent, only those can have left whose     *)
(* departure is already in the channel.                                    *)
KnowsByList(c) ==
    /\ OthersInRoom(c) \subseteq View(c)
    /\ LeftBeforeList(c) \/ View(c) \subseteq OthersInRoom(c)

KnowsByNews(c) ==
    /\ OthersInRoom(c) \subseteq View(c) \cup existing[c]
    /\ View(c) \subseteq OthersInRoom(c)
    /\ ToldOfDeparture(c) \/ existing[c] \subseteq OthersInRoom(c)

Knows(c) == IF c \in welcomed THEN KnowsByList(c) ELSE KnowsByNews(c)

(* Inductive. *)
PresenceInv ==
    /\ RoomInv
    /\ ChanInv
    /\ \A c \in welcomed : c \in Conns /\ pc[c] \notin Early
    /\ \A c \in Conns : c \in room[ip[c]] => Knows(c)

LEMMA PresenceStart == PresenceInit => PresenceInv
  BY InitInv, ChanInit DEF PresenceInit, PresenceInv, Init

(* The list is sent. *)
LEMMA WelcomeInv ==
    ASSUME PresenceInv, NEW c \in Conns, Welcome(c)
    PROVE  PresenceInv'
<1> DEFINE m == Peers(existing[c])
<1>1. /\ UNCHANGED <<nextSession, pc, ip, code, session, active, room, existing, late>>
      /\ pc[c] = "member" /\ c \notin welcomed /\ welcomed' = welcomed \cup {c}
  BY DEF Welcome
<1>2. /\ m \in PresenceMessage /\ m.type = "peers" /\ m.peers = existing[c]
      /\ chan \in [Conns -> Seq(PresenceMessage)]
  BY DEF PresenceInv, RoomInv, TypeOK, ChanInv, ChanTypeOK, Peers, PresenceMessage
<1>3. \A p \in Conns : chan'[p] = IF p = c THEN Append(chan[p], m) ELSE chan[p]
  BY <1>2 DEF Welcome
<1>4. chan' \in [Conns -> Seq(PresenceMessage)]
  <2>1. Append(chan[c], m) \in Seq(PresenceMessage)
    BY <1>2
  <2> QED BY <1>2, <2>1 DEF Welcome
<1>5. RoomInv'
  BY <1>1 DEF PresenceInv, RoomInv, TypeOK, SessionsDistinct, AbsentRoomsEmpty,
     OneEntryPerCode, EntriesAreServed, RoomsBounded, EmptyRoomsHaveReaper,
     LateJoinersKnown
<1>6. \A p : OthersInRoom(p)' = OthersInRoom(p)
  BY <1>1 DEF OthersInRoom, CodesIn
<1>7. ChanInv'
  <2>1. \A p \in Conns : pc'[p] \in Early => chan'[p] = <<>>
    BY <1>1, <1>3 DEF PresenceInv, ChanInv, Early
  <2>2. ASSUME NEW p \in Conns, NEW k PROVE Announced(p, k)' <=> Announced(p, k)
    <3>1. CASE p = c
      <4> DEFINE n == Len(chan[c])
      <4>1. /\ n \in Nat
            /\ DOMAIN chan[c] = 1 .. n
            /\ DOMAIN chan'[c] = 1 .. (n + 1)
            /\ chan'[c][n + 1].type = "peers"
            /\ \A j \in 1 .. n : chan'[c][j] = chan[c][j]
        <5>1. /\ chan[c] \in Seq(PresenceMessage) /\ m.type = "peers"
              /\ chan'[c] = Append(chan[c], m) /\ m \in PresenceMessage
          BY <1>2, <1>3
        <5> HIDE DEF m
        <5> QED BY <5>1
      <4>2. Heard(c, k)' = Heard(c, k)
            /\ \A j \in Heard(c, k) : chan'[c][j] = chan[c][j]
        BY <4>1 DEF Heard
      <4> QED BY <1>1, <3>1, <4>2 DEF Announced
    <3>2. CASE p # c
      BY <1>1, <1>3, <3>2, AnnouncedSame
    <3> QED BY <3>1, <3>2
  <2> QED BY <1>1, <1>4, <1>6, <2>1, <2>2 DEF PresenceInv, ChanInv, ChanTypeOK, Exact
<1>8. \A p \in welcomed' : p \in Conns /\ pc'[p] \notin Early
  BY <1>1 DEF PresenceInv, Early
<1>9. ASSUME NEW p \in Conns, p \in room'[ip'[p]] PROVE Knows(p)'
  <2>1. Knows(p)
    BY <1>1, <1>9 DEF PresenceInv
  <2>2. CASE p = c
    <3>1. View(c)' = View(c) \cup existing[c]
      BY <1>2, <1>3, ViewAppend DEF Names
    <3>2. ToldOfDeparture(c) => LeftBeforeList(c)'
      BY <1>2, <1>3, RaceAppend
    <3> QED BY <1>1, <1>6, <2>1, <2>2, <3>1, <3>2 DEF Knows, KnowsByNews, KnowsByList
  <2>3. CASE p # c
    <3>1. ToldOfDeparture(p)' <=> ToldOfDeparture(p)
      BY <1>3, <2>3 DEF ToldOfDeparture
    <3> QED BY <1>1, <1>3, <1>6, <2>1, <2>3, <3>1, ViewSame
        DEF Knows, KnowsByNews, KnowsByList
  <2> QED BY <2>2, <2>3
<1> QED BY <1>5, <1>7, <1>8, <1>9 DEF PresenceInv

(* A task registers or leaves: those listed afterwards have heard of it.   *)
LEMMA TableStepKnown ==
    ASSUME PresenceInv, NEW c \in Conns, AddPeer(c) \/ RemovePeer(c),
           welcomed' = welcomed, NEW p \in Conns, p \in room'[ip'[p]]
    PROVE  Knows(p)'
<1> USE DEF Knows, KnowsByList, KnowsByNews
<1>1. RoomInv /\ chan[p] \in Seq(PresenceMessage) /\ welcomed' = welcomed
  BY DEF PresenceInv, RoomInv, TypeOK, ChanInv, ChanTypeOK
<1>2. /\ PeerJoined(code[c]) \in PresenceMessage
      /\ PeerLeft(code[c]) \in PresenceMessage
  BY <1>1 DEF RoomInv, TypeOK, PeerJoined, PeerLeft, PresenceMessage
<1>3. CASE Insert(c) /\ p = c
  <2>1. pc[c] \in Early /\ c \notin welcomed
    BY <1>3 DEF Insert, Early, PresenceInv
  <2>2. chan'[c] = <<>> /\ existing'[c] = OthersInRoom(c)'
    BY <1>1, <1>3, <2>1, InsertSeen DEF PresenceInv, ChanInv
  <2>3. View(c)' = {}
    BY <2>2 DEF View, LastNaming
  <2> QED BY <1>1, <1>3, <2>1, <2>2, <2>3
<1>4. CASE Insert(c) /\ p # c
  <2>1. /\ p \in room[ip[p]] /\ existing'[p] = existing[p] /\ Knows(p)
    BY <1>1, <1>4, InsertSeen DEF PresenceInv
  <2>2. CASE p \in Kept(c)
    <3>1. /\ chan'[p] = Append(chan[p], PeerJoined(code[c]))
          /\ OthersInRoom(p)' = OthersInRoom(p) \cup {code[c]}
      BY <1>1, <1>4, <2>2, InsertSeen
    <3>2. View(p)' = View(p) \cup {code[c]}
      BY <1>1, <1>2, <3>1, ViewAppend DEF Names, PeerJoined
    <3>3. /\ LeftBeforeList(p) => LeftBeforeList(p)'
          /\ ToldOfDeparture(p) => ToldOfDeparture(p)'
      BY <1>1, <1>2, <3>1, RaceAppend
    <3> QED BY <1>1, <2>1, <3>1, <3>2, <3>3
  <2>3. CASE p \notin Kept(c)
    <3>1. chan'[p] = chan[p] /\ OthersInRoom(p)' = OthersInRoom(p)
      BY <1>1, <1>4, <2>3, InsertSeen
    <3> QED BY <1>1, <2>1, <3>1, ViewSame DEF ToldOfDeparture
  <2> QED BY <2>2, <2>3
<1>5. CASE Leave(c)
  <2>1. /\ p \in room[ip[p]] /\ existing'[p] = existing[p] /\ Knows(p)
    BY <1>1, <1>5, LeaveSeen DEF PresenceInv
  <2>2. CASE ip[p] = ip[c]
    <3>1. /\ chan'[p] = Append(chan[p], PeerLeft(code[c]))
          /\ OthersInRoom(p)' = OthersInRoom(p) \ {code[c]}
      BY <1>1, <1>5, <2>2, LeaveSeen
    <3>2. View(p)' = View(p) \ {code[c]}
      BY <1>1, <1>2, <3>1, ViewAppend DEF PeerLeft
    <3>3. (LeftBeforeList(p) => LeftBeforeList(p)') /\ ToldOfDeparture(p)'
      BY <1>1, <1>2, <3>1, RaceAppend DEF PeerLeft
    <3> QED BY <1>1, <2>1, <3>1, <3>2, <3>3
  <2>3. CASE ip[p] # ip[c]
    <3>1. chan'[p] = chan[p] /\ OthersInRoom(p)' = OthersInRoom(p)
      BY <1>1, <1>5, <2>3, LeaveSeen
    <3> QED BY <1>1, <2>1, <3>1, ViewSame DEF ToldOfDeparture
  <2> QED BY <2>2, <2>3
<1>6. CASE QuietStep(c)
  <2>1. /\ p \in room[ip[p]] /\ existing'[p] = existing[p] /\ Knows(p)
        /\ chan'[p] = chan[p] /\ OthersInRoom(p)' = OthersInRoom(p)
    BY <1>1, <1>6, QuietSeen DEF PresenceInv
  <2> QED BY <1>1, <2>1, ViewSame DEF ToldOfDeparture
<1> QED BY <1>3, <1>4, <1>5, <1>6 DEF AddPeer, RemovePeer, QuietStep

LEMMA PresenceStep == PresenceInv /\ [PresenceNext]_presenceVars => PresenceInv'
<1> SUFFICES ASSUME PresenceInv, [PresenceNext]_presenceVars PROVE PresenceInv'
  OBVIOUS
<1>1. CASE UNCHANGED presenceVars
  <2>1. RoomInv'
    BY <1>1, StepInv DEF presenceVars, PresenceInv
  <2>2. ChanInv'
    <3>1. ChanInv /\ UNCHANGED roomVars
      BY <1>1 DEF presenceVars, PresenceInv
    <3>2. ChanTypeOK'
      BY <3>1, ChanTypeSame DEF roomVars, ChanInv
    <3>3. \A p \in Conns : pc'[p] \in Early => chan'[p] = <<>>
      BY <3>1 DEF roomVars, ChanInv
    <3>4. ASSUME NEW p \in Conns, p \in room'[ip'[p]] PROVE Exact(p)'
      <4>1. Exact(p) /\ chan'[p] = chan[p] /\ existing'[p] = existing[p]
        BY <3>1, <3>4 DEF roomVars, ChanInv
      <4>2. OthersInRoom(p)' = OthersInRoom(p)
        BY <3>1 DEF roomVars, OthersInRoom, CodesIn
      <4>3. \A k \in Codes : Announced(p, k)' <=> Announced(p, k)
        BY <4>1, AnnouncedSame
      <4> QED BY <4>1, <4>2, <4>3 DEF Exact
    <3> QED BY <3>2, <3>3, <3>4 DEF ChanInv
  <2>3. ASSUME NEW p \in Conns, p \in room'[ip'[p]] PROVE Knows(p)'
    <3>1. Knows(p) /\ chan'[p] = chan[p] /\ existing'[p] = existing[p] /\ welcomed' = welcomed
      BY <1>1, <2>3 DEF presenceVars, roomVars, PresenceInv
    <3>2. OthersInRoom(p)' = OthersInRoom(p)
      BY <1>1 DEF presenceVars, roomVars, OthersInRoom, CodesIn
    <3> QED BY <3>1, <3>2, ViewSame DEF Knows, KnowsByList, KnowsByNews, ToldOfDeparture
  <2>4. \A p \in welcomed' : p \in Conns /\ pc'[p] \notin Early
    BY <1>1 DEF presenceVars, roomVars, PresenceInv
  <2> QED BY <2>1, <2>2, <2>3, <2>4 DEF PresenceInv
<1>2. ASSUME NEW c \in Conns, Welcome(c) PROVE PresenceInv'
  BY <1>2, WelcomeInv
<1>3. ASSUME NEW c \in Conns, Register(c) \/ Depart(c) PROVE PresenceInv'
  <2>1. (AddPeer(c) \/ RemovePeer(c)) /\ welcomed' = welcomed
    BY <1>3 DEF Register, Depart
  <2>2. RoomInv' /\ ChanInv'
    BY <2>1, StepInv, ChanStep DEF Next, PresenceInv
  <2>3. \A p \in welcomed : p \in Conns /\ pc'[p] \notin Early
    BY <2>1, EarlyStep DEF PresenceInv
  <2> QED BY <2>1, <2>2, <2>3, TableStepKnown DEF PresenceInv
<1> QED BY <1>1, <1>2, <1>3 DEF PresenceNext

(* Presence is inductive. *)
THEOREM PresenceInvariant == PresenceSpec => []PresenceInv
  BY PresenceStart, PresenceStep, PTL DEF PresenceSpec

LEMMA PresenceFacts ==
    ASSUME PresenceInv
    PROVE  NoPeerMissed /\ ViewExactWithoutRace /\ BroadcastsExact
<1>1. \A c \in Conns : Settled(c) => KnowsByList(c)
  BY DEF PresenceInv, Knows, Settled
<1> QED BY <1>1, ExactBroadcasts
    DEF PresenceInv, NoPeerMissed, ViewExactWithoutRace, KnowsByList

(* Whatever was queued around its list, no client misses a peer. *)
THEOREM NobodyIsMissed == PresenceSpec => []NoPeerMissed
  BY PresenceInvariant, PresenceFacts, PTL

(* Only a departure queued ahead of its list can mislead a client. *)
THEOREM ViewsAreExact == PresenceSpec => []ViewExactWithoutRace
  BY PresenceInvariant, PresenceFacts, PTL

-----------------------------------------------------------------------------
(* The manual lookup.  It only reads, and so all of the above holds while  *)
(* it runs.                                                                *)
THEOREM LookupOnlyReads == ManualSpec => PresenceSpec
<1>1. ManualInit => PresenceInit
  BY DEF ManualInit
<1>2. [ManualNext]_manualVars => [PresenceNext]_presenceVars
  BY DEF ManualNext, TableStep, Ask, VisitShard, PresenceNext, manualVars
<1> QED BY <1>1, <1>2, PTL DEF ManualSpec, PresenceSpec

(* While a lookup runs, every steady entry of a shard already visited has  *)
(* been met; when it has ended, it has not been wrong about them.          *)
LookupInv ==
    /\ found \subseteq Conns
    /\ steady \subseteq ever
    /\ ever \subseteq Conns
    /\ asker # {} =>
          /\ shard \in 0 .. (Shards - 1)
          /\ answer = "none"
          /\ found \cup Entries(target) \subseteq ever
          /\ \A p \in steady : /\ p \in Listed /\ code[p] = target
                               /\ ShardOf[ip[p]] <= shard => p \in found
    /\ SteadyPeerFound
    /\ SteadyPairAmbiguous

LEMMA VisitInv ==
    ASSUME RoomInv, LookupInv, VisitShard
    PROVE  LookupInv'
<1> DEFINE s == shard + 1
<1> USE ShardsAssumption DEF LookupInv
<1>1. /\ s \in 1 .. Shards /\ Shards \in Nat
      /\ found' = Met(s) /\ answer' = Verdict(s) /\ UNCHANGED <<steady, ever>>
      /\ shard' = IF Verdict(s) = "none" THEN s ELSE 0
      /\ asker' = IF Verdict(s) = "none" THEN asker ELSE {}
      /\ Listed' = Listed /\ code' = code /\ ip' = ip /\ target' = target
  BY DEF VisitShard, presenceVars, roomVars, Listed
<1>2. Listed \subseteq Conns /\ \A p \in Listed : ShardOf[ip[p]] \in 1 .. Shards
  BY ListedAreMembers
<1>3. Met(s) \subseteq Conns /\ Met(s) \subseteq ever
  BY <1>2 DEF VisitShard, Met, Entries
<1>4. \A p \in steady : ShardOf[ip[p]] <= s => p \in Met(s)
  BY <1>1, <1>2 DEF VisitShard, Met, Entries
<1>5. CASE Verdict(s) = "none"
  <2>1. s \in 0 .. (Shards - 1)
    BY <1>1, <1>5 DEF Verdict
  <2>2. SteadyPeerFound' /\ SteadyPairAmbiguous'
    BY <1>1, <1>5 DEF SteadyPeerFound, SteadyPairAmbiguous
  <2>3. Entries(target)' = Entries(target)
    BY <1>1 DEF Entries
  <2> QED BY <1>1, <1>3, <1>4, <1>5, <2>1, <2>2, <2>3 DEF VisitShard
<1>6. CASE Verdict(s) = "ambiguous"
  <2>1. Cardinality(Met(s)) > 1
    BY <1>6, <1>1 DEF Verdict
  <2>2. \A p : ever # {p}
    <3>1. SUFFICES ASSUME NEW p, ever = {p} PROVE FALSE
      OBVIOUS
    <3>2. /\ IsFiniteSet({p}) /\ Cardinality({p}) = 1
          /\ Cardinality(Met(s)) <= Cardinality({p}) /\ Cardinality(Met(s)) \in Nat
      BY <1>3, <3>1, FS_Singleton, FS_Subset, FS_CardinalityType
    <3> QED BY <2>1, <3>2
  <2> QED BY <1>1, <1>3, <1>6, <2>2 DEF SteadyPeerFound, SteadyPairAmbiguous
<1>7. CASE Verdict(s) \in {"not_found", "found"}
  <2>1. s = Shards /\ ~ Cardinality(Met(s)) > 1
    BY <1>1, <1>7 DEF Verdict
  <2>2. steady \subseteq Met(s)
    BY <1>1, <1>2, <1>4, <2>1 DEF VisitShard
  <2>3. Verdict(s) = "not_found" => steady = {}
    BY <2>2 DEF Verdict
  <2>4. IsFiniteSet(Met(s))
    BY <1>3, FS_Subset
  <2>5. ~ Cardinality(steady) > 1
    BY <2>1, <2>2, <2>4, FS_Subset, FS_CardinalityType
  <2>6. ASSUME NEW p \in steady PROVE Met(s) = {p}
    <3>1. /\ {p} \subseteq Met(s) /\ Cardinality({p}) = 1
          /\ Cardinality(Met(s)) \in Nat /\ Cardinality({p}) <= Cardinality(Met(s))
      BY <2>2, <2>4, <2>6, FS_Singleton, FS_Subset, FS_CardinalityType
    <3> QED BY <2>1, <2>4, <3>1, FS_Subset
  <2> QED BY <1>1, <1>3, <1>7, <2>3, <2>5, <2>6 DEF SteadyPeerFound, SteadyPairAmbiguous
<1> QED BY <1>5, <1>6, <1>7 DEF Verdict

LEMMA TableStepKeepsInv ==
    ASSUME RoomInv, NEW c \in Conns, TableStep(c)
    PROVE  RoomInv'
<1>1. CASE AddPeer(c) \/ RemovePeer(c)
  BY <1>1, StepInv DEF Next
<1>2. CASE Welcome(c)
  BY <1>2 DEF Welcome, RoomInv, TypeOK, SessionsDistinct, AbsentRoomsEmpty,
     OneEntryPerCode, EntriesAreServed, RoomsBounded, EmptyRoomsHaveReaper,
     LateJoinersKnown
<1> QED BY <1>1, <1>2 DEF TableStep, Register, Depart

LEMMA LookupStep ==
    ASSUME RoomInv, LookupInv, [ManualNext]_manualVars
    PROVE  LookupInv'
<1> USE DEF LookupInv
<1>1. CASE UNCHANGED manualVars
  BY <1>1 DEF manualVars, lookupVars, presenceVars, roomVars, Listed, Entries,
     SteadyPeerFound, SteadyPairAmbiguous
<1>2. ASSUME NEW c \in Conns, TableStep(c) PROVE LookupInv'
  <2>1. /\ UNCHANGED <<asker, target, shard, found, answer, ip, code>>
        /\ steady' = IF asker = {} THEN steady ELSE steady \cap Entries(target)'
        /\ ever' = IF asker = {} THEN ever ELSE ever \cup Entries(target)'
    BY <1>2 DEF TableStep, Register, Welcome, Depart, AddPeer, RemovePeer, FetchSession,
       Lookup, CountRooms, Insert, InsertRefused, LeaveReplaced, Leave, Reap
  <2>2. CASE asker = {}
    BY <2>1, <2>2 DEF SteadyPeerFound, SteadyPairAmbiguous
  <2>3. CASE asker # {}
    <3>1. SteadyPeerFound' /\ SteadyPairAmbiguous'
      BY <2>1, <2>3 DEF SteadyPeerFound, SteadyPairAmbiguous
    <3>2. \A p \in steady' : p \in steady /\ p \in Listed'
      BY <2>1, <2>3 DEF Entries
    <3>3. Entries(target)' \subseteq Conns
      <4>1. Listed' \subseteq Conns
        BY <1>2, TableStepKeepsInv, ListedFactsNext
      <4> QED BY <4>1 DEF Entries
    <3> QED BY <2>1, <2>3, <3>1, <3>2, <3>3
  <2> QED BY <2>2, <2>3
<1>3. ASSUME NEW c \in Conns, NEW k \in Codes, Ask(c, k) PROVE LookupInv'
  <2>1. /\ UNCHANGED <<ip, code>> /\ Listed' = Listed
        /\ shard' = 0 /\ found' = {} /\ answer' = "none" /\ target' = k
        /\ steady' = Entries(k) /\ ever' = Entries(k)
        /\ Entries(target)' = Entries(k)
    BY <1>3 DEF Ask, presenceVars, roomVars, Listed, Entries
  <2>2. \A p \in Entries(k) : /\ p \in Conns /\ p \in Listed /\ code[p] = k
                              /\ ShardOf[ip[p]] \in 1 .. Shards
    BY ListedAreMembers, ShardsAssumption DEF Entries
  <2>3. ~ \E p \in Entries(k) : ShardOf[ip[p]] <= 0
    BY <2>2
  <2> QED BY <2>1, <2>2, <2>3, ShardsAssumption DEF SteadyPeerFound, SteadyPairAmbiguous
<1>4. CASE VisitShard
  BY <1>4, VisitInv
<1> QED BY <1>1, <1>2, <1>3, <1>4 DEF ManualNext

(* The lookup's account of its progress is inductive. *)
THEOREM LookupInvariant == ManualSpec => []LookupInv
<1>1. ManualInit => LookupInv
  BY DEF ManualInit, LookupInv, SteadyPeerFound, SteadyPairAmbiguous
<1>2. RoomInv /\ LookupInv /\ [ManualNext]_manualVars => LookupInv'
  BY LookupStep
<1>3. PresenceInv => RoomInv
  BY DEF PresenceInv
<1> QED BY <1>1, <1>2, <1>3, LookupOnlyReads, PresenceInvariant, PTL DEF ManualSpec

(* A peer that stays registered while the lookup runs is not missed, is    *)
(* the one found if any is, and is found if no other was listed under its  *)
(* code meanwhile.                                                         *)
THEOREM SteadyPeersAreFound == ManualSpec => []SteadyPeerFound
  BY LookupInvariant, PTL DEF LookupInv

(* Of two peers of a code that both stay, the lookup never picks one. *)
THEOREM SteadyPairsAreAmbiguous == ManualSpec => []SteadyPairAmbiguous
  BY LookupInvariant, PTL DEF LookupInv
=============================================================================
