---------------------------- MODULE ManualLookup ----------------------------
(***************************************************************************)
(* find_peer_manual: the lookup of a typed-in peer code across all rooms,  *)
(* concurrent with connections that come and go.  The DashMap is split in  *)
(* shards by key; its iterator visits them in order, takes the read lock   *)
(* of the next shard before it releases that of the current one, and so    *)
(* never sees the whole table at one instant.                              *)
(*                                                                         *)
(* One lookup at a time: lookups only read, and delay each other no more   *)
(* than any reader delays a writer.                                        *)
(***************************************************************************)
EXTENDS Presence

CONSTANTS
    Shards,     \* how many shards the DashMap has
    ShardOf     \* the shard of each key

ASSUME ShardsAssumption ==
    /\ Shards \in Nat \ {0}
    /\ ShardOf \in [IPs -> 1..Shards]
    /\ IsFiniteSet(Conns)

VARIABLES
    asker,      \* the connection whose task runs the lookup: {} or {c}
    target,     \* the peer code looked up
    shard,      \* the shard under the iterator's read lock, 0 before the first
    found,      \* matching entries met so far
    answer,     \* what the last finished lookup returned
    steady,     \* history: matching entries listed at every instant of the
                \* lookup,
    ever        \* and at some instant of it

lookupVars == <<asker, target, shard, found, answer, steady, ever>>
manualVars == <<presenceVars, lookupVars>>

Entries(k) == {c \in Listed : code[c] = k}

ManualInit ==
    /\ PresenceInit
    /\ asker = {}
    /\ target \in Codes
    /\ shard = 0
    /\ found = {}
    /\ answer = "none"
    /\ steady = {}
    /\ ever = {}

(* A registered connection sends manual_signal to k. *)
Ask(c, k) ==
    /\ asker = {}
    /\ c \in welcomed
    /\ pc[c] = "member"
    /\ asker' = {c}
    /\ target' = k
    /\ shard' = 0
    /\ found' = {}
    /\ answer' = "none"
    /\ steady' = Entries(k)
    /\ ever' = Entries(k)
    /\ UNCHANGED presenceVars

BadMet(s) ==
    LET here == {p \in Entries(target) : ShardOf[ip[p]] = s}
    IN  IF here = {} THEN found ELSE here

(* The matches under the lock of one shard, with those met before. *)
Met(s) == found \cup {p \in Entries(target) : ShardOf[ip[p]] = s}

BadVerdict(s) ==
    IF Cardinality(Met(s)) > 1 THEN "ambiguous"
    ELSE IF s < Shards - 1 THEN "none"
    ELSE IF Met(s) = {} THEN "not_found" ELSE "found"

(* A second match ends the loop at once; otherwise the last shard does.    *)
Verdict(s) ==
    IF Cardinality(Met(s)) > 1 THEN "ambiguous"
    ELSE IF s < Shards THEN "none"
    ELSE IF Met(s) = {} THEN "not_found" ELSE "found"

(* The iterator moves on to the next shard and reads all of it. *)
VisitShard ==
    /\ asker # {}
    /\ LET s == shard + 1 IN
       /\ found' = Met(s)
       /\ answer' = Verdict(s)
       /\ shard' = IF Verdict(s) = "none" THEN s ELSE 0
       /\ asker' = IF Verdict(s) = "none" THEN asker ELSE {}
    /\ UNCHANGED <<presenceVars, target, steady, ever>>

(* Writers of the shard under the read lock wait. *)
WritesTable(c) == pc[c] \in {"insert", "member", "reap"}
MayRun(c) == asker # {} /\ WritesTable(c) => ShardOf[ip[c]] # shard

(* A step of a connection that is not asking: in add_peer, in remove_peer, *)
(* or between them, where it queues its peers message.                     *)
TableStep(c) ==
    /\ c \notin asker
    /\ MayRun(c)
    /\ Register(c) \/ Welcome(c) \/ Depart(c)
    /\ UNCHANGED <<asker, target, shard, found, answer>>
    /\ IF asker = {} THEN UNCHANGED <<steady, ever>>
       ELSE /\ steady' = steady \cap Entries(target)'
            /\ ever' = ever \cup Entries(target)'

ManualNext ==
    \/ \E c \in Conns : TableStep(c) \/ \E k \in Codes : Ask(c, k)
    \/ VisitShard

ManualSpec == ManualInit /\ [][ManualNext]_manualVars

-----------------------------------------------------------------------------
(* A peer that stays registered while the lookup runs is not reported      *)
(* missing, whatever registers or leaves meanwhile; whoever the lookup     *)
(* finds is that peer; and it is found, unless another registered under    *)
(* its code was listed while the lookup ran.                               *)
SteadyPeerFound ==
    \A p \in steady :
        /\ answer # "not_found"
        /\ answer = "found" => found = {p}
        /\ answer = "ambiguous" => ever # {p}

(* Two peers that both stay registered are always told apart from one: the *)
(* lookup never picks one of them.                                         *)
SteadyPairAmbiguous == Cardinality(steady) > 1 => answer # "found"

=============================================================================
