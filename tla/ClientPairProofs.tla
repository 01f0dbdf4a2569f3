-------------------------- MODULE ClientPairProofs --------------------------
(***************************************************************************)
(* Two clients that ask each other for a connection agree on their session *)
(* once the signals between them are delivered (SettledSidesAgree), for    *)
(* any two peers, however often and however long they ask.                 *)
(*                                                                         *)
(* The argument follows one request r through its life.  Either its signal *)
(* is still under way, and then the other side is not in r yet; or one side*)
(* is in r alone, and then a decline of r is under way to it; or both are, *)
(* in phases that match, but for an acceptance that is under way.  Every   *)
(* handler keeps that for each request it does not spoil.                  *)
(***************************************************************************)
EXTENDS ClientPair, TLAPS

USE PageAssumption

-----------------------------------------------------------------------------
(* The other of the two.                                                   *)
LEMMA OtherFacts ==
    \A x \in Peers : /\ Other(x) \in Peers /\ Other(x) # x
                     /\ Other(Other(x)) = x
                     /\ \A z \in Peers : z = x \/ z = Other(x)
<1>1. PICK p, q \in Peers : p # q /\ Peers = {p, q}
  BY PairAssumption
<1>2. Other(p) = q /\ Other(q) = p
  BY <1>1 DEF Other
<1> QED BY <1>1, <1>2

-----------------------------------------------------------------------------
(* What is under way on a wire w.                                          *)
Kinds == {"request", "accepted", "declined", "offer"}
Requests == Peers \X Nat
Signals == [kind : Kinds, about : Requests]

Bears(w, s) == \E i \in 1 .. Len(w) : w[i] = s

Once(w, s) == \A i, j \in 1 .. Len(w) : w[i] = s /\ w[j] = s => i = j

\* Every s is followed by a t.
Followed(w, s, t) ==
    \A i \in 1 .. Len(w) : w[i] = s => \E j \in 1 .. Len(w) : j > i /\ w[j] = t

LEMMA TailFacts ==
    ASSUME NEW w \in Seq(Signals), w # <<>>, NEW s, NEW t
    PROVE  /\ Tail(w) \in Seq(Signals)
           /\ Bears(Tail(w), s) => Bears(w, s)
           /\ Bears(w, s) /\ Head(w) # s => Bears(Tail(w), s)
           /\ Once(w, s) => Once(Tail(w), s)
           /\ Once(w, s) /\ Head(w) = s => ~ Bears(Tail(w), s)
           /\ Followed(w, s, t) => Followed(Tail(w), s, t)
           /\ Followed(w, s, t) /\ Head(w) = s => Bears(Tail(w), t)
<1>1. PICK v : v = Tail(w)
  OBVIOUS
<1>2. /\ v \in Seq(Signals) /\ Len(w) \in Nat /\ Len(w) > 0 /\ Len(v) = Len(w) - 1
      /\ Head(w) = w[1] /\ \A i \in 1 .. Len(v) : v[i] = w[i + 1]
  BY <1>1
<1>3. Bears(v, s) => Bears(w, s)
  BY <1>2 DEF Bears
<1>4. ASSUME NEW i \in 2 .. Len(w)
      PROVE  i - 1 \in 1 .. Len(v) /\ v[i - 1] = w[i]
  BY <1>2
<1>5. Bears(w, s) /\ Head(w) # s => Bears(v, s)
  BY <1>2, <1>4 DEF Bears
<1>6. Once(w, s) => Once(v, s)
  BY <1>2 DEF Once
<1>7. Once(w, s) /\ Head(w) = s => ~ Bears(v, s)
  BY <1>2 DEF Once, Bears
<1>8. ASSUME Followed(w, s, t), NEW i \in 1 .. Len(v), v[i] = s
      PROVE  \E j \in 1 .. Len(v) : j > i /\ v[j] = t
  <2>1. i + 1 \in 1 .. Len(w) /\ w[i + 1] = s
    BY <1>2, <1>8
  <2>2. PICK j \in 1 .. Len(w) : j > i + 1 /\ w[j] = t
    BY <1>8, <2>1 DEF Followed
  <2>3. j \in 2 .. Len(w) /\ j - 1 > i
    BY <2>1, <2>2
  <2> QED BY <1>4, <2>2, <2>3
<1>9. Followed(w, s, t) /\ Head(w) = s => Bears(v, t)
  BY <1>2, <1>4 DEF Followed, Bears
<1> QED BY <1>1, <1>2, <1>3, <1>5, <1>6, <1>7, <1>8, <1>9 DEF Followed

LEMMA AppendFacts ==
    ASSUME NEW w \in Seq(Signals), NEW e \in Signals, NEW s, NEW t
    PROVE  /\ Append(w, e) \in Seq(Signals)
           /\ Bears(Append(w, e), s) <=> Bears(w, s) \/ e = s
           /\ Once(w, s) /\ ~ (e = s /\ Bears(w, s)) => Once(Append(w, e), s)
           /\ Followed(w, s, t) /\ e # s => Followed(Append(w, e), s, t)
           /\ e = t /\ e # s => Followed(Append(w, e), s, t)
<1>1. PICK v : v = Append(w, e)
  OBVIOUS
<1>2. /\ v \in Seq(Signals) /\ Len(w) \in Nat /\ Len(v) = Len(w) + 1
      /\ v[Len(w) + 1] = e /\ \A i \in 1 .. Len(w) : v[i] = w[i]
  BY <1>1
<1>3. Bears(v, s) <=> Bears(w, s) \/ e = s
  BY <1>2 DEF Bears
<1>4. Once(w, s) /\ ~ (e = s /\ Bears(w, s)) => Once(v, s)
  BY <1>2 DEF Once, Bears
<1>5. Followed(w, s, t) /\ e # s => Followed(v, s, t)
  BY <1>2 DEF Followed
<1>6. e = t /\ e # s => Followed(v, s, t)
  BY <1>2 DEF Followed
<1> QED BY <1>1, <1>2, <1>3, <1>4, <1>5, <1>6

\* What becomes of a wire w when its head e is taken, and when e is added.
Drops(w, v, e) ==
    /\ Bears(w, e)
    /\ \A s : Bears(v, s) => Bears(w, s)
    /\ \A s : Bears(w, s) /\ e # s => Bears(v, s)
    /\ \A s : Once(w, s) => Once(v, s)
    /\ Once(w, e) => ~ Bears(v, e)
    /\ \A s, t : Followed(w, s, t) => Followed(v, s, t)
    /\ \A t : Followed(w, e, t) => Bears(v, t)

Adds(w, v, e) ==
    /\ \A s : Bears(v, s) <=> Bears(w, s) \/ e = s
    /\ \A s : Once(w, s) /\ ~ (e = s /\ Bears(w, s)) => Once(v, s)
    /\ \A s, t : Followed(w, s, t) /\ e # s => Followed(v, s, t)
    /\ \A s : e # s => Followed(v, s, e)

LEMMA TailDrops ==
    ASSUME NEW w \in Seq(Signals), w # <<>>
    PROVE  Tail(w) \in Seq(Signals) /\ Head(w) \in Signals /\ Drops(w, Tail(w), Head(w))
<1>1. Head(w) \in Signals /\ Bears(w, Head(w))
  BY DEF Bears
<1> QED BY <1>1, TailFacts DEF Drops

LEMMA AppendAdds ==
    ASSUME NEW w \in Seq(Signals), NEW e \in Signals
    PROVE  Append(w, e) \in Seq(Signals) /\ Adds(w, Append(w, e), e)
  BY AppendFacts DEF Adds

-----------------------------------------------------------------------------
(* The client.                                                             *)
Transports == [st : {"none", "ready", "dialing", "answering", "up", "rejected", "over"},
               peer : Peers \cup {NoPeer}, fallback : BOOLEAN, report : {"legacy"}]

Clients == [phase : Phases, gen : Nat \ {0}, peer : Peers \cup {NoPeer},
            verification : {"legacy"}, to : Peers \cup {NoPeer},
            incoming : Peers \cup {NoPeer}, isConnected : BOOLEAN,
            device : Peers \cup {NoPeer}, ready : {TRUE}, pending : {"rtc"},
            svc : Transports, svcGen : Nat, wsRef : {NoRef}, wtRef : {NoRef},
            fileDirect : {NoRef}, fileRtc : BOOLEAN]

\* The service of this generation is at work on a connection.
AtWork(c) == c.svcGen = c.gen /\ c.svc.st \in {"dialing", "answering"}

\* It still listens, in a session that has not accepted anything.
Listens(c) == c.svcGen = c.gen /\ c.svc.st = "ready" /\ c.phase # "connecting"

\* What c's store shows, y being the other side, goes with its phase.
Shows(c, y) ==
    /\ c.phase = "idle" => c.to = NoPeer /\ c.incoming = NoPeer
    /\ c.phase = "requesting" => c.to = y /\ c.incoming = NoPeer
    /\ c.phase = "incoming_request" => c.to = NoPeer /\ c.incoming = y
    /\ c.phase = "connecting" => c.to \in {y, NoPeer} /\ c.incoming = NoPeer
    /\ c.phase = "connected" => c.to = NoPeer /\ c.incoming = NoPeer

\* Client c of x fits a session about request r.
Fits(x, c, r) ==
    /\ c \in Clients /\ r \in Requests \cup {NoRequest}
    /\ Shows(c, Other(x))
    /\ c.svcGen <= c.gen
    /\ AtWork(c) => c.phase = "connecting"
    /\ c.phase = "idle" <=> r = NoRequest
    /\ c.phase = "requesting" => r[1] = x
    /\ c.phase = "incoming_request" => r[1] = Other(x)

PairTypeOK ==
    /\ me \in [Peers -> Clients]
    /\ about \in [Peers -> Requests \cup {NoRequest}]
    /\ wire \in [Peers -> Seq(Signals)]

ClientsOK == \A x \in Peers : Fits(x, me[x], about[x])

\* A request is named by its requester's generation: that of the present one is the
\* present session's, and there is none of a later one.
Current(r) == about[r[1]] = r /\ r[2] = me[r[1]].gen
Named(r) == Current(r) \/ r[2] < me[r[1]].gen

NamesOK ==
    /\ \A x \in Peers : about[x] # NoRequest =>
          Named(about[x]) /\ (about[x][1] = x => Current(about[x]))
    /\ \A x \in Peers, s \in Signals : Bears(wire[x], s) =>
          Named(s.about) /\ (s.kind = "request" => s.about[1] = Other(x))

\* The life of request r of x, y being the other side.
Life(r, x, y) ==
    LET asked == Signal("request", r)
        accepted == Signal("accepted", r)
        declined == Signal("declined", r)
    IN  /\ Once(wire[y], asked)
        /\ Bears(wire[y], asked) =>
              /\ about[y] # r
              /\ ~ Bears(wire[x], accepted) /\ ~ Bears(wire[x], declined)
              /\ about[x] = r => me[x].phase = "requesting"
              /\ about[x] # r => Followed(wire[y], asked, declined)
        /\ about[x] = r /\ about[y] # r =>
              Bears(wire[y], asked) \/ Bears(wire[x], declined)
        /\ about[y] = r /\ about[x] # r => Bears(wire[y], declined)
        /\ Bears(wire[x], declined) => about[y] # r
        /\ Bears(wire[y], declined) => about[x] # r
        /\ about[y] = r /\ me[y].phase = "incoming_request" => ~ Bears(wire[x], accepted)
        /\ about[x] = r /\ about[y] = r =>
              \/ me[x].phase = "requesting" /\ me[y].phase = "incoming_request"
              \/ /\ me[x].phase = "requesting" /\ Bears(wire[x], accepted)
                 /\ me[y].phase \in {"connecting", "connected"}
              \/ /\ me[x].phase \in {"connecting", "connected"}
                 /\ me[y].phase \in {"connecting", "connected"}
        /\ \A z \in {x, y} :
              about[z] = r /\ me[z].phase = "connecting" => me[z].to = Other(z)

LivesOK ==
    \A r \in Requests : r \notin spoiled => Life(r, r[1], Other(r[1]))

PairInv == PairTypeOK /\ ClientsOK /\ NamesOK /\ LivesOK

\* No offer is coming to who has accepted nothing, nor its cause, an acceptance of his.
Unoffered ==
    \A x \in Peers : Listens(me[x]) =>
        \A r \in Requests : /\ ~ Bears(wire[Other(x)], Signal("accepted", r))
                            /\ ~ Bears(wire[x], Signal("offer", r))

-----------------------------------------------------------------------------
(* What a step leaves of a wire, as far as r is concerned.                 *)
Keeps(w, v, r) ==
    LET asked == Signal("request", r)
        declined == Signal("declined", r)
    IN  /\ \A kind \in Kinds \ {"offer"} :
              Bears(v, Signal(kind, r)) <=> Bears(w, Signal(kind, r))
        /\ Once(w, asked) => Once(v, asked)
        /\ Followed(w, asked, declined) => Followed(v, asked, declined)

LEMMA SignalFacts ==
    ASSUME NEW kind \in Kinds, NEW r \in Requests
    PROVE  /\ Signal(kind, r) \in Signals
           /\ Signal(kind, r).kind = kind /\ Signal(kind, r).about = r
           /\ \A k \in Kinds, q \in Requests :
                 Signal(kind, r) = Signal(k, q) <=> kind = k /\ r = q
  BY DEF Signals, Signal

\* A signal about another request, or an offer.
Foreign(e, r) == e.about # r \/ e.kind = "offer"

LEMMA ForeignFacts ==
    ASSUME NEW e \in Signals, NEW r \in Requests, Foreign(e, r),
           NEW kind \in Kinds \ {"offer"}
    PROVE  e # Signal(kind, r)
  BY SignalFacts DEF Foreign

LEMMA KeepsDrops ==
    ASSUME NEW w, NEW v, NEW e \in Signals, Drops(w, v, e), NEW r \in Requests, Foreign(e, r)
    PROVE  Keeps(w, v, r)
<1>1. \A kind \in Kinds \ {"offer"} : e # Signal(kind, r)
  BY ForeignFacts
<1> QED BY <1>1 DEF Keeps, Kinds, Drops

LEMMA KeepsAdds ==
    ASSUME NEW w, NEW v, NEW e \in Signals, Adds(w, v, e), NEW r \in Requests, Foreign(e, r)
    PROVE  Keeps(w, v, r)
<1>1. \A kind \in Kinds \ {"offer"} : e # Signal(kind, r)
  BY ForeignFacts
<1> QED BY <1>1 DEF Keeps, Kinds, Adds

LEMMA KeepsSame ==
    ASSUME NEW w, NEW r
    PROVE  Keeps(w, w, r)
  BY DEF Keeps

(* A request none of whose participants and signals changes goes on.       *)
LEMMA LifeGoesOn ==
    ASSUME NEW r \in Requests, NEW x \in Peers, Life(r, x, Other(x)),
           \A z \in Peers : /\ Keeps(wire[z], wire'[z], r)
                            /\ about'[z] = r <=> about[z] = r
                            /\ about[z] = r => /\ me'[z].phase = me[z].phase
                                               /\ me'[z].to = me[z].to
    PROVE  Life(r, x, Other(x))'
  BY OtherFacts, SignalFacts DEF Life, Keeps, Kinds

LEMMA RequestFacts ==
    /\ \A r \in Requests : r[1] \in Peers /\ r[2] \in Nat
    /\ NoRequest \notin Requests
    /\ \A x \in Peers, g \in Nat : <<x, g>> \in Requests
<1>1. \A p, g : <<p, g>> # <<>>
  OBVIOUS
<1> QED BY <1>1 DEF Requests, NoRequest

(* Names stay names when the generations only grow, and the session of a   *)
(* generation ends with it.                                                *)
LEMMA NamedStays ==
    ASSUME PairTypeOK, NEW x \in Peers, NEW c, NEW a,
           me' = [me EXCEPT ![x] = c], about' = [about EXCEPT ![x] = a],
           c.gen \in Nat, \/ c.gen = me[x].gen /\ (a = about[x] \/ about[x] = NoRequest)
                          \/ c.gen = me[x].gen + 1,
           NEW r \in Requests, Named(r)
    PROVE  Named(r)'
<1>1. r[1] \in Peers /\ r[2] \in Nat /\ r # NoRequest /\ me[x].gen \in Nat
  BY RequestFacts DEF PairTypeOK, Clients
<1>2. CASE r[1] = x
  <2>1. me'[x] = c /\ about'[x] = a
    BY DEF PairTypeOK
  <2>2. CASE r[2] < me[x].gen
    BY <1>1, <1>2, <2>1, <2>2 DEF Named
  <2>3. CASE about[x] = r /\ r[2] = me[x].gen
    BY <1>1, <1>2, <2>1, <2>3 DEF Named, Current
  <2> QED BY <1>2, <2>2, <2>3 DEF Named, Current
<1>3. CASE r[1] # x
  BY <1>1, <1>3 DEF Named, Current, PairTypeOK
<1> QED BY <1>2, <1>3

(* What every handler has to show for itself, but for the requests' lives: *)
(* x becomes client c in a session about a.                                *)
LEMMA Handled ==
    ASSUME PairTypeOK, ClientsOK, NamesOK, NEW x \in Peers, NEW c, NEW a,
           me' = [me EXCEPT ![x] = c], about' = [about EXCEPT ![x] = a], Fits(x, c, a),
           \/ c.gen = me[x].gen /\ (a = about[x] \/ about[x] = NoRequest)
           \/ c.gen = me[x].gen + 1 /\ a = NoRequest,
           \/ a \in {NoRequest, about[x], <<x, c.gen>>}
           \/ a[1] = Other(x) /\ \E s \in Signals : Bears(wire[x], s) /\ s.about = a,
           wire' \in [Peers -> Seq(Signals)],
           \A z \in Peers, s \in Signals : Bears(wire'[z], s) =>
              \/ Bears(wire[z], s)
              \/ Named(s.about)' /\ (s.kind = "request" => s.about[1] = Other(z))
    PROVE  PairTypeOK' /\ ClientsOK' /\ NamesOK'
<1>1. c \in Clients /\ a \in Requests \cup {NoRequest} /\ c.gen \in Nat
  BY DEF Fits, Clients
<1>2. PairTypeOK'
  BY <1>1 DEF PairTypeOK
<1>3. /\ me'[x] = c /\ about'[x] = a
      /\ \A z \in Peers : z # x => me'[z] = me[z] /\ about'[z] = about[z]
  BY DEF PairTypeOK
<1>4. ClientsOK'
  BY <1>3 DEF ClientsOK
<1>5. \A r \in Requests : Named(r) => Named(r)'
  BY <1>1, NamedStays
<1>6. ASSUME NEW z \in Peers, NEW r \in Requests, about'[z] = r
      PROVE  Named(r)' /\ (r[1] = z => Current(r)')
  <2>1. CASE z # x
    <3>1. about[z] = r /\ Named(r) /\ (r[1] = z => Current(r))
      <4>1. about[z] = r /\ r # NoRequest
        BY <1>3, <1>6, <2>1, RequestFacts
      <4> QED BY <4>1 DEF NamesOK
    <3>2. Named(r)'
      BY <1>5, <3>1
    <3>3. ASSUME r[1] = z PROVE Current(r)'
      <4>1. me'[z] = me[z] /\ about'[z] = about[z]
        BY <1>3, <2>1
      <4> QED BY <3>1, <3>3, <4>1 DEF Current
    <3> QED BY <3>2, <3>3
  <2>2. CASE z = x
    <3>1. a = r /\ a # NoRequest /\ c.gen = me[x].gen
      BY <1>3, <1>6, <2>2, RequestFacts
    <3>2. CASE a = about[x]
      <4>1. Named(r) /\ (r[1] = x => Current(r))
        BY <3>1, <3>2 DEF NamesOK
      <4> QED BY <1>3, <1>5, <2>2, <3>1, <3>2, <4>1 DEF Current
    <3>3. CASE a = <<x, c.gen>>
      BY <1>3, <2>2, <3>1, <3>3 DEF Named, Current
    <3>4. CASE a[1] = Other(x) /\ \E s \in Signals : Bears(wire[x], s) /\ s.about = a
      <4>1. Named(r)
        BY <3>1, <3>4 DEF NamesOK
      <4> QED BY <1>5, <2>2, <3>1, <3>4, <4>1, OtherFacts
    <3> QED BY <3>1, <3>2, <3>3, <3>4
  <2> QED BY <2>1, <2>2
<1>7. ASSUME NEW z \in Peers, NEW s \in Signals, Bears(wire'[z], s)
      PROVE  Named(s.about)' /\ (s.kind = "request" => s.about[1] = Other(z))
  <2>1. s.about \in Requests
    BY DEF Signals
  <2> QED BY <1>5, <1>7, <2>1 DEF NamesOK
<1>8. \A z \in Peers : about'[z] # NoRequest => about'[z] \in Requests
  BY <1>2 DEF PairTypeOK
<1> QED BY <1>2, <1>4, <1>6, <1>7, <1>8 DEF NamesOK

-----------------------------------------------------------------------------
(* The handlers, as far as Fits goes.                                      *)
LEMMA ResetFits ==
    ASSUME NEW x \in Peers, NEW c \in Clients, c.svcGen <= c.gen
    PROVE  /\ Fits(x, Reset(c), NoRequest)
           /\ Reset(c).phase = "idle" /\ Reset(c).gen = c.gen + 1
<1>1. Reset(c) \in Clients
  <2>1. PICK g \in Nat \ {0} : g = c.gen + 1
    BY DEF Clients
  <2> QED BY <2>1 DEF Reset, Clients, Phases
<1>2. /\ Reset(c).phase = "idle" /\ Reset(c).gen = c.gen + 1
      /\ Reset(c).to = NoPeer /\ Reset(c).incoming = NoPeer
      /\ Reset(c).svcGen = c.svcGen /\ c.gen \in Nat /\ c.svcGen \in Nat
  BY DEF Reset, Clients
<1> QED BY <1>1, <1>2 DEF Fits, Shows, AtWork

LEMMA SelectFits ==
    ASSUME NEW x \in Peers, NEW c, NEW r, Fits(x, c, r), c.phase = "idle",
           NEW d, d = OnSelectPeer(c, Other(x))
    PROVE  Fits(x, d, <<x, c.gen>>) /\ d.phase = "requesting" /\ d.gen = c.gen
<1>1. c \in Clients /\ c.gen \in Nat
  BY DEF Fits, Clients
<1>2. d \in Clients
  BY <1>1, OtherFacts DEF OnSelectPeer, Clients, Phases
<1>3. /\ d.phase = "requesting" /\ d.gen = c.gen /\ d.to = Other(x)
      /\ d.incoming = c.incoming /\ d.svc = c.svc /\ d.svcGen = c.svcGen
  BY <1>1 DEF OnSelectPeer, Clients
<1>4. <<x, c.gen>> \in Requests /\ <<x, c.gen>>[1] = x /\ <<x, c.gen>> # NoRequest
  BY <1>1, RequestFacts
<1> QED BY <1>2, <1>3, <1>4 DEF Fits, Shows, AtWork

LEMMA AcceptFits ==
    ASSUME NEW x \in Peers, NEW c, NEW r, Fits(x, c, r), c.incoming # NoPeer,
           NEW d, d = OnAccept(c)
    PROVE  /\ Fits(x, d, r) /\ c.phase = "incoming_request"
           /\ d.phase = "connecting" /\ d.to = Other(x) /\ d.gen = c.gen
<1>1. c \in Clients /\ c.gen \in Nat \ {0}
  BY DEF Fits, Clients
<1>2. c.phase = "incoming_request" /\ c.incoming = Other(x) /\ c.pending = "rtc" /\ c.ready
  BY <1>1 DEF Fits, Shows, Clients, Phases
<1>3. d = [c EXCEPT !.phase = "connecting", !.incoming = NoPeer, !.to = Other(x),
                    !.svc = Service("ready", NoPeer, FALSE), !.svcGen = c.gen,
                    !.fileRtc = FALSE]
  BY <1>1, <1>2, ZenonT(60) DEF OnAccept, Attempt, BeginConnecting, FreshService, Clients
<1>4. d \in Clients
  <2>1. PICK y \in Peers, s \in Transports :
           y = Other(x) /\ s = Service("ready", NoPeer, FALSE)
    BY OtherFacts DEF Service, Transports
  <2> QED BY <1>1, <1>3, <2>1, ZenonT(60) DEF Clients, Phases
<1>5. /\ d.phase = "connecting" /\ d.gen = c.gen /\ d.to = Other(x)
      /\ d.incoming = NoPeer /\ d.svcGen = c.gen
  BY <1>1, <1>3 DEF Clients
<1> QED BY <1>1, <1>2, <1>4, <1>5 DEF Fits, Shows

LEMMA AcceptedFits ==
    ASSUME NEW x \in Peers, NEW c, NEW r, Fits(x, c, r),
           NEW d, d = OnAccepted(c, Other(x), {})
    PROVE  /\ c.phase = "requesting" =>
                /\ Fits(x, d, r) /\ d.phase = "connecting"
                /\ d.to = Other(x) /\ d.gen = c.gen
           /\ c.phase # "requesting" => d = c
<1>1. c \in Clients /\ c.gen \in Nat \ {0}
  BY DEF Fits, Clients
<1>2. CASE c.phase = "requesting"
  <2>1. c.to = Other(x) /\ c.incoming = NoPeer /\ c.ready
    BY <1>1, <1>2 DEF Fits, Shows, Clients
  <2>2. d = [c EXCEPT !.phase = "connecting", !.svc = Service("dialing", Other(x), FALSE),
                      !.svcGen = c.gen, !.fileRtc = FALSE]
    BY <1>1, <1>2, <2>1 DEF OnAccepted, Attempt, BeginConnecting, Dial, FreshService,
                            Route, Clients
  <2>3. d \in Clients
    <3>1. PICK s \in Transports : s = Service("dialing", Other(x), FALSE)
      BY OtherFacts DEF Service, Transports
    <3> QED BY <1>1, <2>2, <3>1, ZenonT(60) DEF Clients, Phases
  <2>4. /\ d.phase = "connecting" /\ d.gen = c.gen /\ d.to = Other(x)
        /\ d.incoming = NoPeer /\ d.svcGen = c.gen
    BY <1>1, <2>1, <2>2 DEF Clients
  <2> QED BY <1>1, <1>2, <2>3, <2>4 DEF Fits, Shows
<1>3. CASE c.phase # "requesting"
  BY <1>3 DEF OnAccepted
<1> QED BY <1>2, <1>3

LEMMA RequestFits ==
    ASSUME NEW x \in Peers, NEW c, NEW r, Fits(x, c, r),
           NEW q \in Requests, q[1] = Other(x),
           NEW d, d = OnRequest(c, Other(x), {})
    PROVE  /\ c.phase = "idle" =>
                Fits(x, d, q) /\ d.phase = "incoming_request" /\ d.gen = c.gen
           /\ c.phase # "idle" => d = c
<1>1. c \in Clients /\ c.gen \in Nat
  BY DEF Fits, Clients
<1>2. CASE c.phase = "idle"
  <2>1. d = [c EXCEPT !.phase = "incoming_request", !.peer = Other(x),
                      !.incoming = Other(x), !.pending = "rtc"]
    BY <1>2 DEF OnRequest, Route
  <2>2. d \in Clients
    <3>1. PICK y \in Peers : y = Other(x)
      BY OtherFacts
    <3> QED BY <1>1, <2>1, <3>1, ZenonT(60) DEF Clients, Phases
  <2>3. /\ d.phase = "incoming_request" /\ d.gen = c.gen /\ d.to = c.to
        /\ d.incoming = Other(x) /\ d.svc = c.svc /\ d.svcGen = c.svcGen
    BY <1>1, <2>1 DEF Clients
  <2> QED BY <1>2, <2>2, <2>3, RequestFacts DEF Fits, Shows, AtWork
<1>3. CASE c.phase # "idle"
  BY <1>3 DEF OnRequest
<1> QED BY <1>2, <1>3

(* Handlers that keep the session or end it.                               *)
Within(r, d) == IF d.phase = "idle" THEN NoRequest ELSE r

GoesOn(x, c, r, d) ==
    /\ Fits(x, d, Within(r, d))
    /\ \/ d.gen = c.gen /\ (c.phase = "idle" <=> d.phase = "idle")
       \/ d.gen = c.gen + 1 /\ d.phase = "idle"

LEMMA ResetGoesOn ==
    ASSUME NEW x \in Peers, NEW c, NEW r, NEW d \in Clients, d.svcGen <= d.gen, d.gen = c.gen
    PROVE  GoesOn(x, c, r, Reset(d))
  BY ResetFits DEF GoesOn, Within

LEMMA SameGoesOn ==
    ASSUME NEW x, NEW c, NEW r, Fits(x, c, r)
    PROVE  GoesOn(x, c, r, c)
  BY DEF GoesOn, Within, Fits

\* Only the service of a session that fits is changed, and nothing is set to work.
LEMMA ServiceGoesOn ==
    ASSUME NEW x \in Peers, NEW c, NEW r, Fits(x, c, r), NEW s \in Transports,
           NEW d, d = [c EXCEPT !.svc = s],
           c.phase = "connecting" \/ c.svcGen # c.gen \/ s.st \in {"none", "rejected", "up", "over"}
    PROVE  /\ GoesOn(x, c, r, d) /\ d \in Clients
           /\ d.phase = c.phase /\ d.to = c.to /\ d.gen = c.gen /\ d.svcGen = c.svcGen
           /\ d.incoming = c.incoming /\ d.svc = s
<1>1. c \in Clients
  BY DEF Fits
<1>2. d \in Clients
  BY <1>1 DEF Clients
<1>3. /\ d.phase = c.phase /\ d.to = c.to /\ d.gen = c.gen /\ d.svcGen = c.svcGen
      /\ d.incoming = c.incoming /\ d.svc = s
  BY <1>1 DEF Clients
<1>4. AtWork(d) => d.phase = "connecting"
  BY <1>3 DEF AtWork
<1> QED BY <1>2, <1>3, <1>4 DEF GoesOn, Fits, Shows, Within

LEMMA ServiceState ==
    ASSUME NEW c \in Clients, NEW st \in {"dialing", "answering", "up", "rejected", "over"}
    PROVE  \E s \in Transports : s.st = st /\ [c EXCEPT !.svc.st = st] = [c EXCEPT !.svc = s]
<1>1. PICK s : s = [c.svc EXCEPT !.st = st]
  OBVIOUS
<1>2. s \in Transports /\ s.st = st
  BY <1>1 DEF Clients, Transports
<1>3. [c EXCEPT !.svc.st = st] = [c EXCEPT !.svc = s]
  BY <1>1 DEF Clients
<1> QED BY <1>2, <1>3

LEMMA OfferState ==
    ASSUME NEW c \in Clients, NEW y \in Peers \cup {NoPeer}
    PROVE  \E s \in Transports : s.st = "answering" /\ OnOffer(c, y) = [c EXCEPT !.svc = s]
<1>1. PICK s : s = [c.svc EXCEPT !.st = "answering", !.peer = y]
  OBVIOUS
<1>2. s \in Transports /\ s.st = "answering"
  BY <1>1 DEF Clients, Transports
<1>3. OnOffer(c, y) = [c EXCEPT !.svc = s]
  BY <1>1 DEF OnOffer, Clients
<1> QED BY <1>2, <1>3

\* So is the store's attempt.
LEMMA ShownGoesOn ==
    ASSUME NEW x \in Peers, NEW c, NEW r, Fits(x, c, r), c.phase = "connecting", NEW d,
           d = [c EXCEPT !.to = NoPeer]
    PROVE  GoesOn(x, c, r, d) /\ d \in Clients /\ d.gen = c.gen /\ d.svcGen = c.svcGen
<1>1. c \in Clients
  BY DEF Fits
<1>2. d \in Clients
  BY <1>1 DEF Clients
<1>3. /\ d.phase = c.phase /\ d.to = NoPeer /\ d.gen = c.gen /\ d.svcGen = c.svcGen
      /\ d.incoming = c.incoming /\ d.svc = c.svc
  BY <1>1 DEF Clients
<1> QED BY <1>2, <1>3 DEF GoesOn, Fits, Shows, Within

LEMMA DisconnectFits ==
    ASSUME NEW x \in Peers, NEW c, NEW r, Fits(x, c, r)
    PROVE  GoesOn(x, c, r, OnDisconnect(c))
<1>1. c \in Clients
  BY DEF Fits
<1>2. CASE c.phase = "idle"
  BY <1>2, SameGoesOn DEF OnDisconnect
<1>3. CASE c.phase # "idle"
  <2>1. PICK s \in Transports : s = NoService
    BY DEF Transports, NoService, Service
  <2>2. c.wtRef = NoRef /\ c.wsRef = NoRef /\ c.fileDirect = NoRef
    BY <1>1 DEF Clients
  <2>3. PICK d : d = [c EXCEPT !.svc = s, !.fileRtc = FALSE, !.wtRef = NoRef, !.wsRef = NoRef]
    OBVIOUS
  <2>4. OnDisconnect(c) = Reset(d)
    <3>1. [c EXCEPT !.svc = NoService, !.fileRtc = FALSE, !.wtRef = NoRef, !.wsRef = NoRef,
                    !.fileDirect = c.fileDirect] = d
      BY <1>1, <2>1, <2>3 DEF Clients
    <3> QED BY <1>3, <2>2, <3>1 DEF OnDisconnect
  <2>5. d \in Clients /\ d.svcGen <= d.gen /\ d.gen = c.gen
    BY <1>1, <2>3 DEF Fits, Clients
  <2> QED BY <2>4, <2>5, ResetGoesOn
<1> QED BY <1>2, <1>3

LEMMA EndedFits ==
    ASSUME NEW x \in Peers, NEW c, NEW r, Fits(x, c, r)
    PROVE  GoesOn(x, c, r, OnServiceEnded(c))
<1>1. c \in Clients
  BY DEF Fits
<1>2. PICK s \in Transports : s.st = "over" /\ [c EXCEPT !.svc.st = "over"] = [c EXCEPT !.svc = s]
  BY <1>1, ServiceState
<1>3. PICK over : over = [c EXCEPT !.svc = s]
  OBVIOUS
<1>4. /\ GoesOn(x, c, r, over) /\ over \in Clients
      /\ over.gen = c.gen /\ over.svcGen = c.svcGen
  BY <1>2, <1>3, ServiceGoesOn
<1>5. OnServiceEnded(c) = IF c.svcGen = c.gen THEN Reset([over EXCEPT !.fileRtc = FALSE]) ELSE over
  BY <1>2, <1>3 DEF OnServiceEnded
<1>6. PICK d : d = [over EXCEPT !.fileRtc = FALSE]
  OBVIOUS
<1>7. d \in Clients /\ d.gen = c.gen /\ d.svcGen = c.svcGen
  BY <1>4, <1>6 DEF Clients
<1>8. GoesOn(x, c, r, Reset(d))
  BY <1>7, ResetGoesOn DEF Fits
<1> QED BY <1>4, <1>5, <1>6, <1>8

LEMMA RejectedFits ==
    ASSUME NEW x \in Peers, NEW c, NEW r, Fits(x, c, r), c.svc.st = "dialing", NEW e \in BOOLEAN
    PROVE  GoesOn(x, c, r, OnDialRejected(c, e))
<1>1. c \in Clients
  BY DEF Fits
<1>2. PICK s \in Transports :
          s.st = "rejected" /\ [c EXCEPT !.svc.st = "rejected"] = [c EXCEPT !.svc = s]
  BY <1>1, ServiceState
<1>3. PICK d : d = [c EXCEPT !.svc = s]
  OBVIOUS
<1>4. /\ GoesOn(x, c, r, d) /\ d \in Clients /\ d.phase = c.phase
      /\ d.gen = c.gen /\ d.svcGen = c.svcGen
  BY <1>2, <1>3, ServiceGoesOn
<1>5. PICK shown : shown = [d EXCEPT !.to = NoPeer]
  OBVIOUS
<1>6. OnDialRejected(c, e) =
          IF c.svcGen # c.gen THEN d
          ELSE IF e \/ c.svc.fallback THEN Reset(shown) ELSE shown
  BY <1>2, <1>3, <1>5 DEF OnDialRejected
<1>7. ASSUME c.svcGen = c.gen
      PROVE  GoesOn(x, c, r, shown) /\ GoesOn(x, c, r, Reset(shown))
  <2>1. c.phase = "connecting"
    BY <1>7 DEF Fits, AtWork
  <2>2. Fits(x, d, r)
    BY <1>4, <2>1 DEF GoesOn, Within
  <2>3. /\ GoesOn(x, d, r, shown) /\ shown \in Clients
        /\ shown.gen = c.gen /\ shown.svcGen = c.svcGen
    BY <1>4, <1>5, <2>1, <2>2, ShownGoesOn
  <2> QED BY <1>4, <2>3, ResetGoesOn DEF GoesOn, Fits
<1> QED BY <1>4, <1>6, <1>7

\* Whoever hears of the connection was at work on it.
LEMMA ConnectedFits ==
    ASSUME NEW x \in Peers, NEW c, NEW r, Fits(x, c, r), c.svc.st \in {"dialing", "answering"},
           NEW d, d = OnServiceConnected(c, Other(x))
    PROVE  /\ GoesOn(x, c, r, d) /\ d.gen = c.gen
           /\ \/ d.phase = c.phase /\ d.to = c.to
              \/ c.phase = "connecting" /\ d.phase = "connected"
<1>1. c \in Clients
  BY DEF Fits
<1>2. PICK s \in Transports : s.st = "up" /\ [c EXCEPT !.svc.st = "up"] = [c EXCEPT !.svc = s]
  BY <1>1, ServiceState
<1>3. CASE c.svcGen # c.gen
  <2>1. d = [c EXCEPT !.svc = s]
    BY <1>2, <1>3 DEF OnServiceConnected
  <2> QED BY <1>2, <1>3, <2>1, ServiceGoesOn
<1>4. CASE c.svcGen = c.gen
  <2>1. c.phase = "connecting" /\ r # NoRequest /\ r \in Requests
    BY <1>4 DEF Fits, AtWork
  <2>2. PICK y \in Peers : y = Other(x)
    BY OtherFacts
  <2>3. PICK e : e = [c EXCEPT !.phase = "connected", !.isConnected = TRUE, !.device = y,
                               !.to = NoPeer, !.incoming = NoPeer]
    OBVIOUS
  <2>4. /\ d.phase = "connected" /\ d.to = NoPeer /\ d.incoming = NoPeer
        /\ d.gen = c.gen /\ d.svcGen = c.svcGen /\ d.svc.st = "up" /\ d \in Clients
    <3>1. ShowConnected(c, y) = e
      BY <1>1, <2>1, <2>3 DEF ShowConnected, MarkConnected, Clients
    <3>2. e \in Clients /\ e.phase = "connected" /\ e.to = NoPeer /\ e.incoming = NoPeer
          /\ e.gen = c.gen /\ e.svcGen = c.svcGen
      BY <1>1, <2>3 DEF Clients, Phases
    <3>3. PICK u \in Transports : u.st = "up" /\ [e EXCEPT !.svc.st = "up"] = [e EXCEPT !.svc = u]
      BY <3>2, ServiceState
    <3>4. PICK f : f = [e EXCEPT !.svc = u]
      OBVIOUS
    <3>5. d = [f EXCEPT !.fileRtc = TRUE]
      BY <1>4, <2>2, <3>1, <3>3, <3>4 DEF OnServiceConnected
    <3> QED BY <3>2, <3>3, <3>4, <3>5, ZenonT(60) DEF Clients
  <2> QED BY <2>1, <2>4 DEF GoesOn, Fits, Shows, Within, AtWork
<1> QED BY <1>3, <1>4

-----------------------------------------------------------------------------
(* The wires after a step of x.                                            *)
LEMMA SaidWires ==
    ASSUME PairTypeOK, NEW x \in Peers, NEW e \in Signals,
           wire' = [wire EXCEPT ![Other(x)] = Append(@, e)]
    PROVE  /\ wire' \in [Peers -> Seq(Signals)] /\ wire'[x] = wire[x]
           /\ Adds(wire[Other(x)], wire'[Other(x)], e)
<1>1. PICK y \in Peers : y = Other(x) /\ y # x
  BY OtherFacts
<1>2. wire[y] \in Seq(Signals)
  BY DEF PairTypeOK
<1>3. PICK v : v = Append(wire[y], e)
  OBVIOUS
<1>4. v \in Seq(Signals) /\ Adds(wire[y], v, e)
  BY <1>2, <1>3, AppendAdds
<1>5. wire' = [wire EXCEPT ![y] = v]
  BY <1>1, <1>3
<1>6. wire'[x] = wire[x] /\ wire'[y] = v /\ wire' \in [Peers -> Seq(Signals)]
  BY <1>1, <1>4, <1>5 DEF PairTypeOK
<1> QED BY <1>1, <1>4, <1>6

LEMMA AnswerFacts ==
    ASSUME NEW w \in Seq(Signals)
    PROVE  w \o <<>> = w /\ \A e \in Signals : w \o <<e>> = Append(w, e)
  OBVIOUS

LEMMA HeardWires ==
    ASSUME PairTypeOK, NEW x \in Peers, wire[x] # <<>>, NEW answers,
           \/ answers = <<>>
           \/ \E e \in Signals : answers = <<e>>,
           wire' = [wire EXCEPT ![x] = Tail(@), ![Other(x)] = @ \o answers]
    PROVE  /\ wire' \in [Peers -> Seq(Signals)]
           /\ Head(wire[x]) \in Signals /\ Drops(wire[x], wire'[x], Head(wire[x]))
           /\ answers = <<>> => wire'[Other(x)] = wire[Other(x)]
           /\ \A e \in Signals :
                  answers = <<e>> => Adds(wire[Other(x)], wire'[Other(x)], e)
<1>1. PICK y \in Peers : y = Other(x) /\ y # x
  BY OtherFacts
<1>2. wire[x] \in Seq(Signals) /\ wire[y] \in Seq(Signals)
  BY DEF PairTypeOK
<1>3. PICK u, v : u = Tail(wire[x]) /\ v = wire[y] \o answers
  OBVIOUS
<1>4. u \in Seq(Signals) /\ Head(wire[x]) \in Signals /\ Drops(wire[x], u, Head(wire[x]))
  BY <1>2, <1>3, TailDrops
<1>5. /\ answers = <<>> => v = wire[y]
      /\ \A e \in Signals : answers = <<e>> => v \in Seq(Signals) /\ Adds(wire[y], v, e)
  <2>1. answers = <<>> => v = wire[y]
    BY <1>2, <1>3, AnswerFacts
  <2>2. ASSUME NEW e \in Signals, answers = <<e>>
        PROVE  v \in Seq(Signals) /\ Adds(wire[y], v, e)
    <3>1. v = Append(wire[y], e)
      BY <1>2, <1>3, <2>2, AnswerFacts
    <3> QED BY <1>2, <3>1, AppendAdds
  <2> QED BY <2>1, <2>2
<1>6. wire' = [wire EXCEPT ![x] = u, ![y] = v]
  BY <1>1, <1>3
<1>7. v \in Seq(Signals)
  BY <1>2, <1>5
<1>8. wire'[x] = u /\ wire'[y] = v /\ wire' \in [Peers -> Seq(Signals)]
  BY <1>1, <1>4, <1>6, <1>7 DEF PairTypeOK
<1> QED BY <1>1, <1>4, <1>5, <1>8

-----------------------------------------------------------------------------
(* The lives of the requests when x becomes client c in a session about a. *)
Steps(x, c, a) ==
    /\ me'[x] = c /\ about'[x] = a
    /\ me'[Other(x)] = me[Other(x)] /\ about'[Other(x)] = about[Other(x)]

LEMMA StepFacts ==
    ASSUME PairTypeOK, NEW x \in Peers, NEW c, NEW a,
           me' = [me EXCEPT ![x] = c], about' = [about EXCEPT ![x] = a]
    PROVE  Steps(x, c, a)
  BY OtherFacts DEF PairTypeOK, Steps

\* A request that x is not in, or that x stays in as it is.
LEMMA UntouchedLife ==
    ASSUME NEW x \in Peers, NEW c, NEW a, Steps(x, c, a), NEW r \in Requests,
           Life(r, r[1], Other(r[1])),
           Keeps(wire[x], wire'[x], r), Keeps(wire[Other(x)], wire'[Other(x)], r),
           \/ about[x] # r /\ a # r
           \/ a = about[x] /\ c.phase = me[x].phase /\ c.to = me[x].to
    PROVE  Life(r, r[1], Other(r[1]))'
<1>1. \A z \in Peers : /\ Keeps(wire[z], wire'[z], r)
                       /\ about'[z] = r <=> about[z] = r
                       /\ about[z] = r => /\ me'[z].phase = me[z].phase
                                          /\ me'[z].to = me[z].to
  BY OtherFacts DEF Steps
<1> QED BY <1>1, LifeGoesOn, RequestFacts

\* x asks: nobody has ever heard of r.
LEMMA AskedLife ==
    ASSUME NEW x \in Peers, NEW c, NEW r \in Requests, Steps(x, c, r), r[1] = x,
           c.phase = "requesting", about[Other(x)] # r,
           \A z \in Peers, kind \in Kinds : ~ Bears(wire[z], Signal(kind, r)),
           wire'[x] = wire[x], Adds(wire[Other(x)], wire'[Other(x)], Signal("request", r))
    PROVE  Life(r, r[1], Other(r[1]))'
<1>1. Once(wire[Other(x)], Signal("request", r))
  BY OtherFacts DEF Kinds, Bears, Once
<1>2. /\ Bears(wire'[Other(x)], Signal("request", r)) /\ Once(wire'[Other(x)], Signal("request", r))
      /\ ~ Bears(wire'[Other(x)], Signal("declined", r))
      /\ ~ Bears(wire'[x], Signal("accepted", r)) /\ ~ Bears(wire'[x], Signal("declined", r))
  BY <1>1, OtherFacts, SignalFacts DEF Adds, Kinds
<1> QED BY <1>2, OtherFacts, RequestFacts DEF Life, Steps

\* x accepts the request of the other.
LEMMA AcceptedLife ==
    ASSUME NEW x \in Peers, NEW c, NEW r \in Requests, Steps(x, c, r), r[1] = Other(x),
           about[x] = r, me[x].phase = "incoming_request",
           c.phase = "connecting", c.to = Other(x), Life(r, r[1], Other(r[1])),
           wire'[x] = wire[x], Adds(wire[Other(x)], wire'[Other(x)], Signal("accepted", r))
    PROVE  Life(r, r[1], Other(r[1]))'
<1>1. /\ Other(Other(x)) = x /\ Other(x) # x /\ x \in Peers /\ Other(x) \in Peers
  BY OtherFacts
<1>2. /\ Bears(wire'[Other(x)], Signal("accepted", r))
      /\ Bears(wire'[Other(x)], Signal("declined", r)) <=> Bears(wire[Other(x)], Signal("declined", r))
  BY SignalFacts DEF Adds, Kinds
<1> QED BY <1>1, <1>2 DEF Life, Steps

\* x leaves its session, and tells.
LEMMA LeftLife ==
    ASSUME NEW x \in Peers, NEW c, NEW r \in Requests, Steps(x, c, NoRequest),
           about[x] = r, Life(r, r[1], Other(r[1])),
           wire'[x] = wire[x], Adds(wire[Other(x)], wire'[Other(x)], Signal("declined", r))
    PROVE  Life(r, r[1], Other(r[1]))'
<1>1. /\ Other(Other(x)) = x /\ Other(x) # x /\ x \in Peers /\ Other(x) \in Peers
      /\ NoRequest # r /\ (r[1] = x \/ r[1] = Other(x))
  BY OtherFacts, RequestFacts
<1>2. /\ Bears(wire'[Other(x)], Signal("declined", r))
      /\ \A kind \in {"request", "accepted"} :
            Bears(wire'[Other(x)], Signal(kind, r)) <=> Bears(wire[Other(x)], Signal(kind, r))
      /\ Once(wire[Other(x)], Signal("request", r)) => Once(wire'[Other(x)], Signal("request", r))
      /\ Followed(wire'[Other(x)], Signal("request", r), Signal("declined", r))
  BY SignalFacts DEF Adds, Kinds
<1>3. CASE r[1] = x
  BY <1>1, <1>2, <1>3 DEF Life, Steps
<1>4. CASE r[1] = Other(x)
  BY <1>1, <1>2, <1>4 DEF Life, Steps
<1> QED BY <1>1, <1>3, <1>4

\* The request arrives at x, who is idle ...
LEMMA ShownLife ==
    ASSUME NEW x \in Peers, NEW c, NEW r \in Requests, Steps(x, c, r), r[1] = Other(x),
           c.phase = "incoming_request", Life(r, r[1], Other(r[1])),
           Drops(wire[x], wire'[x], Signal("request", r)), wire'[Other(x)] = wire[Other(x)]
    PROVE  Life(r, r[1], Other(r[1]))'
<1>1. Other(Other(x)) = x /\ Other(x) # x /\ x \in Peers /\ Other(x) \in Peers
  BY OtherFacts
<1>2. Signal("request", r) # Signal("declined", r)
  BY SignalFacts DEF Kinds
<1> QED BY <1>1, <1>2 DEF Life, Steps, Drops

\* ... or not.
LEMMA RefusedLife ==
    ASSUME NEW x \in Peers, NEW r \in Requests, Steps(x, me[x], about[x]), r[1] = Other(x),
           Life(r, r[1], Other(r[1])),
           Drops(wire[x], wire'[x], Signal("request", r)),
           Adds(wire[Other(x)], wire'[Other(x)], Signal("declined", r))
    PROVE  Life(r, r[1], Other(r[1]))'
<1>1. Other(Other(x)) = x /\ Other(x) # x /\ x \in Peers /\ Other(x) \in Peers
  BY OtherFacts
<1>2. /\ Signal("request", r) # Signal("declined", r)
      /\ Signal("accepted", r) # Signal("declined", r)
  BY SignalFacts DEF Kinds
<1> QED BY <1>1, <1>2 DEF Life, Steps, Drops, Adds

\* x hears that its request is accepted, and connects ...
LEMMA ConnectsLife ==
    ASSUME NEW x \in Peers, NEW c, NEW r \in Requests, Steps(x, c, r), r[1] = x,
           about[x] = r, me[x].phase = "requesting",
           c.phase = "connecting", c.to = Other(x), Life(r, r[1], Other(r[1])),
           Drops(wire[x], wire'[x], Signal("accepted", r)),
           Keeps(wire[Other(x)], wire'[Other(x)], r)
    PROVE  Life(r, r[1], Other(r[1]))'
<1>1. Other(Other(x)) = x /\ Other(x) # x /\ x \in Peers /\ Other(x) \in Peers
  BY OtherFacts
<1>2. Signal("accepted", r) # Signal("declined", r)
  BY SignalFacts DEF Kinds
<1>3. /\ \A kind \in {"request", "accepted", "declined"} :
            Bears(wire'[Other(x)], Signal(kind, r)) <=> Bears(wire[Other(x)], Signal(kind, r))
      /\ Once(wire[Other(x)], Signal("request", r)) => Once(wire'[Other(x)], Signal("request", r))
  BY DEF Keeps, Kinds
<1> QED BY <1>1, <1>2, <1>3 DEF Life, Steps, Drops

\* ... unless it does not ask any more.
LEMMA PastLife ==
    ASSUME NEW x \in Peers, NEW r \in Requests, Steps(x, me[x], about[x]),
           about[x] = r => me[x].phase # "requesting", Life(r, r[1], Other(r[1])),
           Drops(wire[x], wire'[x], Signal("accepted", r)), wire'[Other(x)] = wire[Other(x)]
    PROVE  Life(r, r[1], Other(r[1]))'
<1>1. /\ Other(Other(x)) = x /\ Other(x) # x /\ x \in Peers /\ Other(x) \in Peers
      /\ r[1] = x \/ r[1] = Other(x)
  BY OtherFacts, RequestFacts
<1>2. /\ Signal("accepted", r) # Signal("declined", r)
      /\ Signal("accepted", r) # Signal("request", r)
  BY SignalFacts DEF Kinds
<1>3. CASE r[1] = x
  BY <1>1, <1>2, <1>3 DEF Life, Steps, Drops
<1>4. CASE r[1] = Other(x)
  BY <1>1, <1>2, <1>4 DEF Life, Steps, Drops
<1> QED BY <1>1, <1>3, <1>4

\* x hears that the other side has left ...
LEMMA EndedLife ==
    ASSUME NEW x \in Peers, NEW c, NEW r \in Requests, Steps(x, c, NoRequest),
           about[x] = r, Life(r, r[1], Other(r[1])),
           Drops(wire[x], wire'[x], Signal("declined", r)), wire'[Other(x)] = wire[Other(x)]
    PROVE  Life(r, r[1], Other(r[1]))'
<1>1. /\ Other(Other(x)) = x /\ Other(x) # x /\ x \in Peers /\ Other(x) \in Peers
      /\ r # NoRequest /\ (r[1] = x \/ r[1] = Other(x))
  BY OtherFacts, RequestFacts
<1>2. /\ Signal("declined", r) # Signal("accepted", r)
      /\ Signal("declined", r) # Signal("request", r)
  BY SignalFacts DEF Kinds
<1>3. CASE r[1] = x
  BY <1>1, <1>2, <1>3 DEF Life, Steps, Drops
<1>4. CASE r[1] = Other(x)
  BY <1>1, <1>2, <1>4 DEF Life, Steps, Drops
<1> QED BY <1>1, <1>3, <1>4

\* ... a session that x is not in.
LEMMA StaleLife ==
    ASSUME NEW x \in Peers, NEW r \in Requests, Steps(x, me[x], about[x]),
           about[x] # r, Life(r, r[1], Other(r[1])),
           Drops(wire[x], wire'[x], Signal("declined", r)), wire'[Other(x)] = wire[Other(x)]
    PROVE  Life(r, r[1], Other(r[1]))'
<1>1. /\ Other(Other(x)) = x /\ Other(x) # x /\ x \in Peers /\ Other(x) \in Peers
      /\ r[1] = x \/ r[1] = Other(x)
  BY OtherFacts, RequestFacts
<1>2. /\ Signal("declined", r) # Signal("accepted", r)
      /\ Signal("declined", r) # Signal("request", r)
  BY SignalFacts DEF Kinds
<1>3. CASE r[1] = x
  BY <1>1, <1>2, <1>3 DEF Life, Steps, Drops
<1>4. CASE r[1] = Other(x)
  BY <1>1, <1>2, <1>4 DEF Life, Steps, Drops
<1> QED BY <1>1, <1>3, <1>4

\* The connection of x is up.
LEMMA UpLife ==
    ASSUME NEW x \in Peers, NEW c, NEW r \in Requests, Steps(x, c, r),
           about[x] = r, me[x].phase = "connecting", c.phase = "connected",
           Life(r, r[1], Other(r[1])), wire' = wire
    PROVE  Life(r, r[1], Other(r[1]))'
<1>1. /\ Other(Other(x)) = x /\ Other(x) # x /\ x \in Peers /\ Other(x) \in Peers
      /\ r[1] = x \/ r[1] = Other(x)
  BY OtherFacts, RequestFacts
<1>2. CASE r[1] = x
  BY <1>1, <1>2 DEF Life, Steps
<1>3. CASE r[1] = Other(x)
  BY <1>1, <1>3 DEF Life, Steps
<1> QED BY <1>1, <1>2, <1>3

-----------------------------------------------------------------------------
(* The steps.                                                              *)
LEMMA SaidMentions ==
    ASSUME NEW x \in Peers, NEW e \in Signals, wire'[x] = wire[x],
           Adds(wire[Other(x)], wire'[Other(x)], e), Named(e.about)',
           e.kind = "request" => e.about[1] = x,
           NEW z \in Peers, NEW s \in Signals, Bears(wire'[z], s)
    PROVE  \/ Bears(wire[z], s)
           \/ Named(s.about)' /\ (s.kind = "request" => s.about[1] = Other(z))
<1>1. z = x \/ (z = Other(x) /\ Other(z) = x)
  BY OtherFacts
<1>2. CASE z = x
  BY <1>2
<1>3. CASE z = Other(x) /\ Other(z) = x
  <2>1. Bears(wire[z], s) \/ s = e
    BY <1>3 DEF Adds
  <2> QED BY <1>3, <2>1
<1> QED BY <1>1, <1>2, <1>3

LEMMA SelectStep ==
    ASSUME PairInv, NEW x \in Peers, SelectPeer(x)
    PROVE  PairInv'
<1>1. PairTypeOK /\ ClientsOK /\ NamesOK /\ LivesOK /\ Fits(x, me[x], about[x])
  BY DEF PairInv, ClientsOK
<1>2. PICK c, r, e : /\ c = OnSelectPeer(me[x], Other(x))
                     /\ r = <<x, me[x].gen>> /\ e = Signal("request", r)
  OBVIOUS
<1>3. me[x].phase = "idle" /\ Fits(x, c, r) /\ c.phase = "requesting" /\ c.gen = me[x].gen
  BY <1>1, <1>2, SelectFits DEF SelectPeer
<1>4. /\ me[x].gen \in Nat /\ r \in Requests /\ r[1] = x /\ r[2] = me[x].gen
      /\ about[x] = NoRequest
  <2>1. me[x].gen \in Nat
    BY <1>1 DEF PairTypeOK, Clients
  <2> QED BY <1>1, <1>2, <1>3, <2>1, RequestFacts DEF Fits
<1>5. e \in Signals /\ e.kind = "request" /\ e.about = r
  BY <1>2, <1>4, SignalFacts DEF Kinds
<1>6. /\ me' = [me EXCEPT ![x] = c] /\ about' = [about EXCEPT ![x] = r]
      /\ wire' = [wire EXCEPT ![Other(x)] = Append(@, e)] /\ spoiled' = spoiled
  BY <1>2, <1>3 DEF SelectPeer, Says, Becomes
<1>7. Steps(x, c, r)
  BY <1>1, <1>6, StepFacts
<1>8. /\ wire' \in [Peers -> Seq(Signals)] /\ wire'[x] = wire[x]
      /\ Adds(wire[Other(x)], wire'[Other(x)], e)
  BY <1>1, <1>5, <1>6, SaidWires
<1>9. Named(r)'
  BY <1>3, <1>4, <1>7 DEF Named, Current, Steps
<1>10. PairTypeOK' /\ ClientsOK' /\ NamesOK'
  <2>1. \A z \in Peers, s \in Signals : Bears(wire'[z], s) =>
          \/ Bears(wire[z], s)
          \/ Named(s.about)' /\ (s.kind = "request" => s.about[1] = Other(z))
    BY <1>4, <1>5, <1>8, <1>9, SaidMentions
  <2>2. r \in {NoRequest, about[x], <<x, c.gen>>}
    BY <1>2, <1>3
  <2>3. c.gen = me[x].gen /\ (r = about[x] \/ about[x] = NoRequest)
    BY <1>3, <1>4
  <2> QED BY <1>1, <1>3, <1>6, <1>8, <2>1, <2>2, <2>3, Handled
<1>11. ~ Named(r)
  BY <1>4, RequestFacts DEF Named, Current
<1>12. /\ \A z \in Peers : about[z] # r
       /\ \A z \in Peers, kind \in Kinds : ~ Bears(wire[z], Signal(kind, r))
  BY <1>1, <1>4, <1>11, SignalFacts, RequestFacts DEF NamesOK
<1>13. ASSUME NEW q \in Requests, q \notin spoiled'
       PROVE  Life(q, q[1], Other(q[1]))'
  <2>1. CASE q = r
    <3>1. Adds(wire[Other(x)], wire'[Other(x)], Signal("request", r))
      BY <1>2, <1>8
    <3>2. about[Other(x)] # r
      BY <1>12, OtherFacts
    <3>3. Life(r, r[1], Other(r[1]))'
      BY <1>3, <1>4, <1>7, <1>8, <1>12, <3>1, <3>2, AskedLife
    <3> QED BY <2>1, <3>3
  <2>2. CASE q # r
    <3>1. Keeps(wire[x], wire'[x], q) /\ Keeps(wire[Other(x)], wire'[Other(x)], q)
      BY <1>5, <1>8, <2>2, KeepsSame, KeepsAdds DEF Foreign
    <3>2. about[x] # q /\ Life(q, q[1], Other(q[1]))
      BY <1>1, <1>4, <1>6, <1>13, RequestFacts DEF LivesOK
    <3> QED BY <1>7, <2>2, <3>1, <3>2, UntouchedLife
  <2> QED BY <2>1, <2>2
<1> QED BY <1>10, <1>13 DEF PairInv, LivesOK

\* x goes on with its session or ends it, and the wires bear nothing of a new request.
LEMMA GoneOn ==
    ASSUME PairInv, NEW x \in Peers, NEW c, GoesOn(x, me[x], about[x], c),
           me' = [me EXCEPT ![x] = c], about' = [about EXCEPT ![x] = Within(about[x], c)],
           wire' \in [Peers -> Seq(Signals)],
           \A z \in Peers, s \in Signals : Bears(wire'[z], s) =>
              \/ Bears(wire[z], s)
              \/ Named(s.about)' /\ (s.kind = "request" => s.about[1] = Other(z))
    PROVE  PairTypeOK' /\ ClientsOK' /\ NamesOK'
<1>1. PairTypeOK /\ ClientsOK /\ NamesOK /\ Fits(x, me[x], about[x])
  BY DEF PairInv, ClientsOK
<1>2. PICK a : a = Within(about[x], c)
  OBVIOUS
<1>3. /\ Fits(x, c, a) /\ a \in {NoRequest, about[x], <<x, c.gen>>}
      /\ \/ c.gen = me[x].gen /\ (a = about[x] \/ about[x] = NoRequest)
         \/ c.gen = me[x].gen + 1 /\ a = NoRequest
  BY <1>1, <1>2 DEF GoesOn, Within, Fits
<1> QED BY <1>1, <1>2, <1>3, Handled

\* Every request that is named stays so.
LEMMA NamesGoOn ==
    ASSUME PairInv, NEW x \in Peers, NEW c, GoesOn(x, me[x], about[x], c),
           me' = [me EXCEPT ![x] = c], about' = [about EXCEPT ![x] = Within(about[x], c)],
           NEW r \in Requests, Named(r)
    PROVE  Named(r)'
<1>1. PairTypeOK /\ Fits(x, me[x], about[x])
  BY DEF PairInv, ClientsOK
<1>2. PICK a : a = Within(about[x], c)
  OBVIOUS
<1>3. /\ c.gen \in Nat
      /\ \/ c.gen = me[x].gen /\ (a = about[x] \/ about[x] = NoRequest)
         \/ c.gen = me[x].gen + 1
  BY <1>1, <1>2 DEF GoesOn, Within, Fits, Clients
<1> QED BY <1>1, <1>2, <1>3, NamedStays

\* The user of x answers, or takes back, the request of the session.
LEMMA Said ==
    ASSUME PairInv, NEW x \in Peers, NEW c, GoesOn(x, me[x], about[x], c),
           me[x].phase # "idle", NEW kind \in {"accepted", "declined"},
           Says(x, c, kind, about[x])
    PROVE  /\ PairTypeOK' /\ ClientsOK' /\ NamesOK'
           /\ about[x] \in Requests /\ Steps(x, c, Within(about[x], c))
           /\ wire'[x] = wire[x]
           /\ Adds(wire[Other(x)], wire'[Other(x)], Signal(kind, about[x]))
           /\ \A q \in Requests : q # about[x] /\ q \notin spoiled' => Life(q, q[1], Other(q[1]))'
<1>1. PairTypeOK /\ NamesOK /\ LivesOK /\ Fits(x, me[x], about[x])
  BY DEF PairInv, ClientsOK
<1>2. PICK r, e : r = about[x] /\ e = Signal(kind, r)
  OBVIOUS
<1>3. r \in Requests /\ Named(r) /\ e \in Signals /\ e.kind # "request" /\ e.about = r
  <2>1. r \in Requests /\ r # NoRequest
    BY <1>1, <1>2, RequestFacts DEF Fits
  <2> QED BY <1>1, <1>2, <2>1, SignalFacts DEF NamesOK, Kinds
<1>4. /\ me' = [me EXCEPT ![x] = c] /\ about' = [about EXCEPT ![x] = Within(r, c)]
      /\ wire' = [wire EXCEPT ![Other(x)] = Append(@, e)] /\ spoiled' = spoiled
  BY <1>2 DEF Says, Becomes, Within
<1>5. Steps(x, c, Within(r, c))
  BY <1>1, <1>4, StepFacts
<1>6. /\ wire' \in [Peers -> Seq(Signals)] /\ wire'[x] = wire[x]
      /\ Adds(wire[Other(x)], wire'[Other(x)], e)
  BY <1>1, <1>3, <1>4, SaidWires
<1>7. Named(r)'
  BY <1>2, <1>3, <1>4, NamesGoOn
<1>8. \A z \in Peers, s \in Signals : Bears(wire'[z], s) =>
          \/ Bears(wire[z], s)
          \/ Named(s.about)' /\ (s.kind = "request" => s.about[1] = Other(z))
  BY <1>3, <1>6, <1>7, SaidMentions
<1>9. PairTypeOK' /\ ClientsOK' /\ NamesOK'
  BY <1>2, <1>4, <1>6, <1>8, GoneOn
<1>10. ASSUME NEW q \in Requests, q # r, q \notin spoiled'
       PROVE  Life(q, q[1], Other(q[1]))'
  <2>1. Keeps(wire[x], wire'[x], q) /\ Keeps(wire[Other(x)], wire'[Other(x)], q)
    BY <1>3, <1>6, <1>10, KeepsSame, KeepsAdds DEF Foreign
  <2>2. Within(r, c) # q /\ Life(q, q[1], Other(q[1]))
    BY <1>1, <1>4, <1>10, RequestFacts DEF LivesOK, Within
  <2> QED BY <1>2, <1>5, <1>10, <2>1, <2>2, UntouchedLife
<1> QED BY <1>2, <1>3, <1>5, <1>6, <1>9, <1>10

LEMMA AcceptStep ==
    ASSUME PairInv, NEW x \in Peers, AcceptRequest(x)
    PROVE  PairInv'
<1>1. Fits(x, me[x], about[x]) /\ LivesOK
  BY DEF PairInv, ClientsOK
<1>2. PICK c, r : c = OnAccept(me[x]) /\ r = about[x]
  OBVIOUS
<1>3. /\ Fits(x, c, r) /\ me[x].phase = "incoming_request"
      /\ c.phase = "connecting" /\ c.to = Other(x) /\ c.gen = me[x].gen
  BY <1>1, <1>2, AcceptFits DEF AcceptRequest
<1>4. GoesOn(x, me[x], r, c) /\ Within(r, c) = r
  BY <1>3 DEF GoesOn, Within
<1>5. Says(x, c, "accepted", r) /\ spoiled' = spoiled
  BY <1>2 DEF AcceptRequest, Says
<1>6. /\ PairTypeOK' /\ ClientsOK' /\ NamesOK'
      /\ r \in Requests /\ Steps(x, c, r)
      /\ wire'[x] = wire[x] /\ Adds(wire[Other(x)], wire'[Other(x)], Signal("accepted", r))
      /\ \A q \in Requests : q # r /\ q \notin spoiled' => Life(q, q[1], Other(q[1]))'
  BY <1>2, <1>3, <1>4, <1>5, Said
<1>7. ASSUME r \notin spoiled'
      PROVE  Life(r, r[1], Other(r[1]))'
  <2>1. r[1] = Other(x) /\ Life(r, r[1], Other(r[1]))
    BY <1>1, <1>2, <1>3, <1>5, <1>6, <1>7 DEF Fits, LivesOK
  <2> QED BY <1>2, <1>3, <1>6, <2>1, AcceptedLife
<1> QED BY <1>6, <1>7 DEF PairInv, LivesOK

LEMMA LeaveStep ==
    ASSUME PairInv, NEW x \in Peers, DeclineRequest(x) \/ CancelRequest(x)
    PROVE  PairInv'
<1>1. Fits(x, me[x], about[x]) /\ LivesOK
  BY DEF PairInv, ClientsOK
<1>2. PICK c, r : c = Reset(me[x]) /\ r = about[x]
  OBVIOUS
<1>3. Says(x, c, "declined", r) /\ spoiled' = spoiled /\ me[x].phase # "idle"
  BY <1>1, <1>2 DEF DeclineRequest, CancelRequest, OnDecline, OnCancel, Says, Fits, Shows
<1>4. GoesOn(x, me[x], r, c) /\ c.phase = "idle"
  <2>1. me[x] \in Clients /\ me[x].svcGen <= me[x].gen
    BY <1>1 DEF Fits
  <2> QED BY <1>2, <2>1, ResetGoesOn, ResetFits
<1>5. /\ PairTypeOK' /\ ClientsOK' /\ NamesOK'
      /\ r \in Requests /\ Steps(x, c, NoRequest)
      /\ wire'[x] = wire[x] /\ Adds(wire[Other(x)], wire'[Other(x)], Signal("declined", r))
      /\ \A q \in Requests : q # r /\ q \notin spoiled' => Life(q, q[1], Other(q[1]))'
  BY <1>2, <1>3, <1>4, Said DEF Within
<1>6. ASSUME r \notin spoiled'
      PROVE  Life(r, r[1], Other(r[1]))'
  <2>1. Life(r, r[1], Other(r[1]))
    BY <1>1, <1>3, <1>5, <1>6 DEF LivesOK
  <2> QED BY <1>2, <1>5, <2>1, LeftLife
<1> QED BY <1>5, <1>6 DEF PairInv, LivesOK

\* x takes the signal h; e is what it answers.
LEMMA HeardMentions ==
    ASSUME NEW x \in Peers, NEW h, Drops(wire[x], wire'[x], h),
           \/ wire'[Other(x)] = wire[Other(x)]
           \/ \E e \in Signals : /\ Adds(wire[Other(x)], wire'[Other(x)], e)
                                /\ Named(e.about)' /\ e.kind # "request",
           NEW z \in Peers, NEW s \in Signals, Bears(wire'[z], s)
    PROVE  \/ Bears(wire[z], s)
           \/ Named(s.about)' /\ (s.kind = "request" => s.about[1] = Other(z))
<1>1. z = x \/ z = Other(x)
  BY OtherFacts
<1>2. CASE z = x
  BY <1>2 DEF Drops
<1>3. CASE z = Other(x)
  BY <1>3 DEF Adds
<1> QED BY <1>1, <1>2, <1>3

LEMMA HeadFacts ==
    ASSUME PairInv, NEW x \in Peers, NEW kind \in Kinds, Receives(x, kind), NEW r, r = Topic(x)
    PROVE  /\ r \in Requests /\ Named(r) /\ wire[x] # <<>>
           /\ Head(wire[x]) = Signal(kind, r) /\ Bears(wire[x], Signal(kind, r))
           /\ kind = "request" => r[1] = Other(x)
<1>1. wire[x] \in Seq(Signals) /\ wire[x] # <<>> /\ NamesOK
  BY DEF PairInv, PairTypeOK, Receives
<1>2. PICK h \in Signals : h = Head(wire[x]) /\ Bears(wire[x], h)
  BY <1>1, TailDrops DEF Drops
<1>3. h.kind = kind /\ h.about = r /\ r \in Requests
  BY <1>2 DEF Receives, Topic, Signals
<1>4. h = Signal(kind, r)
  BY <1>2, <1>3 DEF Signals, Signal
<1> QED BY <1>1, <1>2, <1>3, <1>4 DEF NamesOK

LEMMA RequestStep ==
    ASSUME PairInv, NEW x \in Peers, RequestArrives(x)
    PROVE  PairInv'
<1>1. PairTypeOK /\ ClientsOK /\ NamesOK /\ LivesOK /\ Fits(x, me[x], about[x])
  BY DEF PairInv, ClientsOK
<1>2. PICK c, r, asked, declined :
        /\ c = OnRequest(me[x], Other(x), {}) /\ r = Topic(x)
        /\ asked = Signal("request", r) /\ declined = Signal("declined", r)
  OBVIOUS
<1>3. /\ r \in Requests /\ Named(r) /\ wire[x] # <<>> /\ r[1] = Other(x)
      /\ Head(wire[x]) = asked /\ Bears(wire[x], asked)
  BY <1>2, HeadFacts DEF RequestArrives, Kinds
<1>4. /\ asked \in Signals /\ asked.about = r
      /\ declined \in Signals /\ declined.about = r /\ declined.kind = "declined"
  BY <1>2, <1>3, SignalFacts DEF Kinds
<1>5. PICK answers : answers = IF Busy(x) THEN <<declined>> ELSE <<>>
  OBVIOUS
<1>6. /\ me' = [me EXCEPT ![x] = c]
      /\ about' = [about EXCEPT ![x] = IF c.phase = "idle" THEN NoRequest
                                       ELSE IF me[x].phase = "idle" THEN r ELSE about[x]]
      /\ wire' = [wire EXCEPT ![x] = Tail(@), ![Other(x)] = @ \o answers]
      /\ spoiled' = IF me[x].incoming = Other(x) /\ about[x] # r
                     THEN spoiled \cup {r, about[x]} ELSE spoiled
  BY <1>2, <1>5 DEF RequestArrives, Hears, Becomes
<1>7. /\ wire' \in [Peers -> Seq(Signals)] /\ Drops(wire[x], wire'[x], asked)
      /\ ~ Busy(x) => wire'[Other(x)] = wire[Other(x)]
      /\ Busy(x) => Adds(wire[Other(x)], wire'[Other(x)], declined)
  BY <1>1, <1>3, <1>4, <1>5, <1>6, HeardWires
<1>8. /\ me[x].phase = "idle" =>
            Fits(x, c, r) /\ c.phase = "incoming_request" /\ c.gen = me[x].gen
      /\ me[x].phase # "idle" => c = me[x]
  BY <1>1, <1>2, <1>3, RequestFits
<1>9. \A q \in Requests : q # r => /\ Keeps(wire[x], wire'[x], q)
                                  /\ Keeps(wire[Other(x)], wire'[Other(x)], q)
  BY <1>4, <1>7, KeepsDrops, KeepsAdds, KeepsSame DEF Foreign
<1>10. \A q \in Requests : q \notin spoiled' => Life(q, q[1], Other(q[1]))
  BY <1>1, <1>6 DEF LivesOK
<1>11. CASE me[x].phase = "idle"
  <2>1. about' = [about EXCEPT ![x] = r] /\ about[x] = NoRequest /\ ~ Busy(x)
    BY <1>1, <1>6, <1>8, <1>11 DEF Fits, Busy
  <2>2. Steps(x, c, r)
    BY <1>1, <1>6, <2>1, StepFacts
  <2>3. PairTypeOK' /\ ClientsOK' /\ NamesOK'
    <3>1. \A z \in Peers, s \in Signals : Bears(wire'[z], s) =>
            \/ Bears(wire[z], s)
            \/ Named(s.about)' /\ (s.kind = "request" => s.about[1] = Other(z))
      BY <1>7, <2>1, HeardMentions
    <3>2. c.gen = me[x].gen /\ (r = about[x] \/ about[x] = NoRequest) /\ Fits(x, c, r)
      BY <1>8, <1>11, <2>1
    <3>3. r[1] = Other(x) /\ \E s \in Signals : Bears(wire[x], s) /\ s.about = r
      BY <1>3, <1>4
    <3> QED BY <1>1, <1>6, <1>7, <2>1, <3>1, <3>2, <3>3, Handled
  <2>4. ASSUME NEW q \in Requests, q \notin spoiled'
        PROVE  Life(q, q[1], Other(q[1]))'
    <3>1. CASE q = r
      BY <1>2, <1>3, <1>7, <1>8, <1>10, <1>11, <2>1, <2>2, <2>4, <3>1, ShownLife
    <3>2. CASE q # r
      BY <1>9, <1>10, <2>1, <2>2, <2>4, <3>2, UntouchedLife, RequestFacts
    <3> QED BY <3>1, <3>2
  <2> QED BY <2>3, <2>4 DEF PairInv, LivesOK
<1>12. CASE me[x].phase # "idle"
  <2>1. c = me[x] /\ about' = [about EXCEPT ![x] = Within(about[x], c)]
        /\ Within(about[x], c) = about[x]
    BY <1>6, <1>8, <1>12 DEF Within
  <2>2. Steps(x, me[x], about[x]) /\ GoesOn(x, me[x], about[x], c)
    BY <1>1, <1>6, <2>1, StepFacts, SameGoesOn
  <2>3. PairTypeOK' /\ ClientsOK' /\ NamesOK'
    <3>1. Named(r)'
      BY <1>3, <1>6, <2>1, <2>2, NamesGoOn
    <3>2. \A z \in Peers, s \in Signals : Bears(wire'[z], s) =>
            \/ Bears(wire[z], s)
            \/ Named(s.about)' /\ (s.kind = "request" => s.about[1] = Other(z))
      BY <1>4, <1>7, <3>1, HeardMentions
    <3> QED BY <1>6, <1>7, <2>1, <2>2, <3>2, GoneOn
  <2>4. ASSUME NEW q \in Requests, q \notin spoiled'
        PROVE  Life(q, q[1], Other(q[1]))'
    <3>1. CASE q = r /\ Busy(x)
      BY <1>2, <1>3, <1>7, <1>10, <2>2, <2>4, <3>1, RefusedLife
    <3>2. CASE q = r /\ ~ Busy(x)
      <4>1. about[x] = r
        BY <1>6, <1>12, <2>4, <3>2 DEF Busy
      <4>2. Life(r, Other(x), x)
        BY <1>3, <1>10, <2>4, <3>2, OtherFacts
      <4> QED BY <1>2, <1>3, <4>1, <4>2 DEF Life
    <3>3. CASE q # r
      BY <1>9, <1>10, <2>2, <2>4, <3>3, UntouchedLife
    <3> QED BY <3>1, <3>2, <3>3
  <2> QED BY <2>3, <2>4 DEF PairInv, LivesOK
<1> QED BY <1>11, <1>12

LEMMA ConnectStep ==
    ASSUME PairInv, NEW x \in Peers, AcceptArrives(x)
    PROVE  PairInv'
<1>1. PairTypeOK /\ ClientsOK /\ NamesOK /\ LivesOK /\ Fits(x, me[x], about[x])
  BY DEF PairInv, ClientsOK
<1>2. PICK c, r, accepted, offer :
        /\ c = OnAccepted(me[x], Other(x), {}) /\ r = Topic(x)
        /\ accepted = Signal("accepted", r) /\ offer = Signal("offer", about[x])
  OBVIOUS
<1>3. /\ r \in Requests /\ wire[x] # <<>>
      /\ Head(wire[x]) = accepted /\ accepted \in Signals /\ accepted.about = r
  BY <1>2, HeadFacts, SignalFacts DEF AcceptArrives, Kinds
<1>4. PICK answers : answers = IF c # me[x] THEN <<offer>> ELSE <<>>
  OBVIOUS
<1>5. /\ me' = [me EXCEPT ![x] = c]
      /\ about' = [about EXCEPT ![x] = IF c.phase = "idle" THEN NoRequest
                                       ELSE IF me[x].phase = "idle" THEN r ELSE about[x]]
      /\ wire' = [wire EXCEPT ![x] = Tail(@), ![Other(x)] = @ \o answers]
      /\ spoiled' = IF Misread(x, c) THEN spoiled \cup {r, about[x]} ELSE spoiled
  BY <1>2, <1>4 DEF AcceptArrives, Hears, Becomes
<1>6. /\ me[x].phase = "requesting" =>
            /\ Fits(x, c, about[x]) /\ c.phase = "connecting"
            /\ c.to = Other(x) /\ c.gen = me[x].gen
      /\ me[x].phase # "requesting" => c = me[x]
  BY <1>1, <1>2, AcceptedFits
<1>7. about' = [about EXCEPT ![x] = Within(about[x], c)] /\ Within(about[x], c) = about[x]
  BY <1>1, <1>5, <1>6 DEF Within, Fits
<1>8. Steps(x, c, about[x]) /\ GoesOn(x, me[x], about[x], c)
  BY <1>1, <1>5, <1>6, <1>7, StepFacts, SameGoesOn DEF GoesOn
<1>9. \A q \in Requests : q \notin spoiled' => Life(q, q[1], Other(q[1]))
  BY <1>1, <1>5 DEF LivesOK
<1>10. CASE me[x].phase = "requesting"
  <2>1. about[x] \in Requests /\ about[x][1] = x /\ c # me[x]
    BY <1>1, <1>6, <1>10 DEF Fits
  <2>2. offer \in Signals /\ offer.about = about[x] /\ offer.kind = "offer" /\ Named(about[x])
    BY <1>1, <1>2, <2>1, SignalFacts, RequestFacts DEF Kinds, NamesOK
  <2>3. answers = <<offer>>
    BY <1>4, <2>1
  <2>4. /\ wire' \in [Peers -> Seq(Signals)] /\ Drops(wire[x], wire'[x], accepted)
        /\ Adds(wire[Other(x)], wire'[Other(x)], offer)
    BY <1>1, <1>3, <1>5, <2>2, <2>3, HeardWires
  <2>5. PairTypeOK' /\ ClientsOK' /\ NamesOK'
    <3>1. PICK p \in Requests : p = about[x] /\ p = offer.about /\ Named(p)
      BY <2>1, <2>2
    <3>2. Named(offer.about)'
      <4>1. Named(p)'
        BY <1>5, <1>7, <1>8, <3>1, NamesGoOn
      <4> QED BY <3>1, <4>1
    <3>3. \A z \in Peers, s \in Signals : Bears(wire'[z], s) =>
            \/ Bears(wire[z], s)
            \/ Named(s.about)' /\ (s.kind = "request" => s.about[1] = Other(z))
      BY <2>2, <2>4, <3>2, HeardMentions
    <3> QED BY <1>5, <1>7, <1>8, <2>4, <3>3, GoneOn
  <2>6. ASSUME NEW q \in Requests, q \notin spoiled'
        PROVE  Life(q, q[1], Other(q[1]))'
    <3>1. Keeps(wire[Other(x)], wire'[Other(x)], q)
      BY <2>2, <2>4, KeepsAdds DEF Foreign
    <3>2. CASE q = about[x]
      <4>1. r = q
        BY <1>2, <1>5, <1>10, <2>1, <2>6, <3>2 DEF Misread
      <4> QED BY <1>2, <1>6, <1>8, <1>9, <1>10, <2>1, <2>4, <2>6, <3>1, <3>2, <4>1, ConnectsLife
    <3>3. CASE q # about[x]
      <4>1. q # r
        BY <1>2, <1>5, <1>10, <2>1, <2>6, <3>3 DEF Misread
      <4>2. Keeps(wire[x], wire'[x], q)
        BY <1>3, <2>4, <4>1, KeepsDrops DEF Foreign
      <4> QED BY <1>8, <1>9, <2>6, <3>1, <3>3, <4>2, UntouchedLife
    <3> QED BY <3>2, <3>3
  <2> QED BY <2>5, <2>6 DEF PairInv, LivesOK
<1>11. CASE me[x].phase # "requesting"
  <2>1. c = me[x] /\ answers = <<>>
    BY <1>4, <1>6, <1>11
  <2>2. /\ wire' \in [Peers -> Seq(Signals)] /\ Drops(wire[x], wire'[x], accepted)
        /\ wire'[Other(x)] = wire[Other(x)]
    BY <1>1, <1>3, <1>5, <2>1, HeardWires
  <2>3. PairTypeOK' /\ ClientsOK' /\ NamesOK'
    <3>1. \A z \in Peers, s \in Signals : Bears(wire'[z], s) =>
            \/ Bears(wire[z], s)
            \/ Named(s.about)' /\ (s.kind = "request" => s.about[1] = Other(z))
      BY <2>2, HeardMentions
    <3> QED BY <1>5, <1>7, <1>8, <2>2, <3>1, GoneOn
  <2>4. ASSUME NEW q \in Requests, q \notin spoiled'
        PROVE  Life(q, q[1], Other(q[1]))'
    <3>1. CASE q = r
      BY <1>2, <1>8, <1>9, <1>11, <2>1, <2>2, <2>4, <3>1, PastLife
    <3>2. CASE q # r
      BY <1>3, <1>8, <1>9, <2>1, <2>2, <2>4, <3>2, KeepsDrops, KeepsSame, UntouchedLife
         DEF Foreign
    <3> QED BY <3>1, <3>2
  <2> QED BY <2>3, <2>4 DEF PairInv, LivesOK
<1> QED BY <1>10, <1>11

LEMMA EndStep ==
    ASSUME PairInv, NEW x \in Peers, DeclineArrives(x)
    PROVE  PairInv'
<1>1. PairTypeOK /\ ClientsOK /\ NamesOK /\ LivesOK /\ Fits(x, me[x], about[x])
  BY DEF PairInv, ClientsOK
<1>2. PICK c, r, declined :
        /\ c = OnDeclined(me[x], Other(x)) /\ r = Topic(x) /\ declined = Signal("declined", r)
  OBVIOUS
<1>3. /\ r \in Requests /\ wire[x] # <<>>
      /\ Head(wire[x]) = declined /\ declined \in Signals /\ declined.about = r
  BY <1>2, HeadFacts, SignalFacts DEF DeclineArrives, Kinds
<1>4. /\ me' = [me EXCEPT ![x] = c]
      /\ about' = [about EXCEPT ![x] = IF c.phase = "idle" THEN NoRequest
                                       ELSE IF me[x].phase = "idle" THEN r ELSE about[x]]
      /\ wire' = [wire EXCEPT ![x] = Tail(@), ![Other(x)] = @ \o <<>>]
      /\ spoiled' = IF Misread(x, c) THEN spoiled \cup {r, about[x]} ELSE spoiled
  BY <1>2 DEF DeclineArrives, Hears, Becomes
<1>5. /\ wire' \in [Peers -> Seq(Signals)] /\ Drops(wire[x], wire'[x], declined)
      /\ wire'[Other(x)] = wire[Other(x)]
  BY <1>1, <1>3, <1>4, HeardWires
<1>6. /\ me[x] \in Clients /\ me[x].gen \in Nat /\ me[x].svcGen <= me[x].gen
      /\ Other(x) \in Peers /\ Other(x) # NoPeer
  BY <1>1, OtherFacts DEF Fits, Clients
<1> DEFINE ends == Other(x) \in {me[x].to, me[x].incoming}
<1>7. ends <=> Other(x) = me[x].to \/ Other(x) = me[x].incoming
  OBVIOUS
<1> HIDE DEF ends
<1>8. /\ ends => /\ c = Reset(me[x]) /\ GoesOn(x, me[x], about[x], c)
                /\ c.phase = "idle" /\ c.gen = me[x].gen + 1 /\ c # me[x]
                /\ me[x].phase \notin {"idle", "connected"}
      /\ ~ ends => c = me[x] /\ GoesOn(x, me[x], about[x], c)
  <2>1. CASE ends
    <3>1. c = Reset(me[x])
      BY <1>2, <1>7, <2>1 DEF OnDeclined
    <3>2. GoesOn(x, me[x], about[x], c) /\ c.phase = "idle" /\ c.gen = me[x].gen + 1
      BY <1>6, <3>1, ResetGoesOn, ResetFits
    <3>3. me[x].phase \notin {"idle", "connected"}
      BY <1>1, <1>6, <1>7, <2>1 DEF Fits, Shows
    <3> QED BY <1>6, <2>1, <3>1, <3>2, <3>3
  <2>2. CASE ~ ends
    BY <1>1, <1>2, <1>7, <2>2, SameGoesOn DEF OnDeclined, ends
  <2> QED BY <2>1, <2>2
<1>9. about' = [about EXCEPT ![x] = Within(about[x], c)]
  BY <1>1, <1>4, <1>8 DEF Within, Fits
<1>10. Steps(x, c, Within(about[x], c))
  BY <1>1, <1>4, <1>9, StepFacts
<1>11. PairTypeOK' /\ ClientsOK' /\ NamesOK'
  <2>1. \A z \in Peers, s \in Signals : Bears(wire'[z], s) =>
          \/ Bears(wire[z], s)
          \/ Named(s.about)' /\ (s.kind = "request" => s.about[1] = Other(z))
    BY <1>5, HeardMentions
  <2> QED BY <1>4, <1>5, <1>8, <1>9, <2>1, GoneOn
<1>12. ASSUME NEW q \in Requests, q \notin spoiled'
       PROVE  Life(q, q[1], Other(q[1]))'
  <2>1. Life(q, q[1], Other(q[1]))
    BY <1>1, <1>4, <1>12 DEF LivesOK
  <2>2. q # r => Keeps(wire[x], wire'[x], q) /\ Keeps(wire[Other(x)], wire'[Other(x)], q)
    BY <1>3, <1>5, KeepsDrops, KeepsSame DEF Foreign
  <2>3. CASE ends
    <3>1. c.phase = "idle" /\ me[x].phase # "idle" /\ c # me[x] /\ Steps(x, c, NoRequest)
      BY <1>8, <1>10, <2>3 DEF Within
    <3>2. CASE q = about[x]
      <4>1. r = q
        BY <1>2, <1>4, <1>12, <3>1, <3>2 DEF Misread
      <4> QED BY <1>2, <1>5, <2>1, <3>1, <3>2, <4>1, EndedLife
    <3>3. CASE q # about[x]
      <4>1. q # r
        BY <1>2, <1>4, <1>12, <3>1, <3>3 DEF Misread
      <4> QED BY <2>1, <2>2, <3>1, <3>3, <4>1, UntouchedLife, RequestFacts
    <3> QED BY <3>2, <3>3
  <2>4. CASE ~ ends
    <3>1. c = me[x] /\ Steps(x, me[x], about[x])
      BY <1>1, <1>8, <1>10, <2>4 DEF Within, Fits
    <3>2. CASE q = r
      <4>1. about[x] # q
        <5>1. SUFFICES ASSUME about[x] = q PROVE FALSE
          OBVIOUS
        <5>2. me[x].phase \notin {"idle", "connected"}
          BY <1>1, <1>2, <1>3, <1>4, <1>12, <3>2, <5>1, RequestFacts DEF Misread, Fits
        <5>3. me[x].phase = "connecting" /\ me[x].to # Other(x)
          BY <1>1, <1>6, <1>7, <2>4, <5>2 DEF Fits, Shows, Clients, Phases
        <5>4. q[1] = x \/ q[1] = Other(x)
          BY OtherFacts, RequestFacts
        <5> QED BY <2>1, <5>1, <5>3, <5>4, OtherFacts DEF Life
      <4> QED BY <1>2, <1>5, <2>1, <3>1, <3>2, <4>1, StaleLife
    <3>3. CASE q # r
      BY <2>1, <2>2, <3>1, <3>3, UntouchedLife
    <3> QED BY <3>2, <3>3
  <2> QED BY <2>3, <2>4
<1> QED BY <1>11, <1>12 DEF PairInv, LivesOK

\* Nothing that the requests' lives are about changes.
LEMMA QuietStep ==
    ASSUME PairInv, NEW x \in Peers, NEW c, GoesOn(x, me[x], about[x], c),
           me' = [me EXCEPT ![x] = c], about' = [about EXCEPT ![x] = Within(about[x], c)],
           wire' \in [Peers -> Seq(Signals)], wire'[Other(x)] = wire[Other(x)],
           \/ wire'[x] = wire[x]
           \/ \E e \in Signals : e.kind = "offer" /\ Drops(wire[x], wire'[x], e),
           \/ spoiled' = spoiled \cup {about[x]}
           \/ spoiled' = spoiled /\ c.phase = me[x].phase /\ c.to = me[x].to
    PROVE  PairInv'
<1>1. PairTypeOK /\ LivesOK /\ Fits(x, me[x], about[x])
  BY DEF PairInv, ClientsOK
<1>2. Steps(x, c, Within(about[x], c))
  BY <1>1, StepFacts
<1>3. PairTypeOK' /\ ClientsOK' /\ NamesOK'
  <2>1. ASSUME NEW z \in Peers, NEW s \in Signals, Bears(wire'[z], s)
        PROVE  Bears(wire[z], s)
    BY <2>1, OtherFacts DEF Drops
  <2> QED BY <2>1, GoneOn
<1>4. ASSUME NEW q \in Requests, q \notin spoiled'
      PROVE  Life(q, q[1], Other(q[1]))'
  <2>1. Keeps(wire[x], wire'[x], q) /\ Keeps(wire[Other(x)], wire'[Other(x)], q)
    BY KeepsSame, KeepsDrops DEF Foreign
  <2>2. Life(q, q[1], Other(q[1]))
    BY <1>1, <1>4 DEF LivesOK
  <2>3. CASE about[x] # q
    BY <1>2, <2>1, <2>2, <2>3, UntouchedLife, RequestFacts DEF Within
  <2>4. CASE about[x] = q
    <3>1. c.phase = me[x].phase /\ c.to = me[x].to /\ Within(about[x], c) = about[x]
      BY <1>1, <1>4, <2>4, RequestFacts DEF Within, Fits
    <3> QED BY <1>2, <2>1, <2>2, <3>1, UntouchedLife
  <2> QED BY <2>3, <2>4
<1> QED BY <1>3, <1>4 DEF PairInv, LivesOK

LEMMA OfferStep ==
    ASSUME PairInv, Unoffered, NEW x \in Peers, OfferArrives(x)
    PROVE  PairInv'
<1>1. PairTypeOK /\ Fits(x, me[x], about[x])
  BY DEF PairInv, ClientsOK
<1>2. me[x] \in Clients /\ wire[x] \in Seq(Signals) /\ wire[x] # <<>>
  BY <1>1 DEF Fits, PairTypeOK, OfferArrives, Receives
<1>3. PICK u, h : u = Tail(wire[x]) /\ h = Head(wire[x])
  OBVIOUS
<1>4. u \in Seq(Signals) /\ h \in Signals /\ h.kind = "offer" /\ Drops(wire[x], u, h)
  BY <1>2, <1>3, TailDrops DEF OfferArrives, Receives
<1>5. wire' = [wire EXCEPT ![x] = u] /\ about' = about /\ spoiled' = spoiled
  BY <1>3 DEF OfferArrives
<1>6. /\ wire' \in [Peers -> Seq(Signals)] /\ wire'[Other(x)] = wire[Other(x)]
      /\ Drops(wire[x], wire'[x], h)
  BY <1>1, <1>4, <1>5, OtherFacts DEF PairTypeOK
<1>7. \E c : /\ me' = [me EXCEPT ![x] = c] /\ GoesOn(x, me[x], about[x], c)
            /\ c.phase = me[x].phase /\ c.to = me[x].to
  <2>1. CASE me[x].svc.st = "ready"
    <3>1. PICK c : c = OnOffer(me[x], Other(x))
      OBVIOUS
    <3>2. me' = [me EXCEPT ![x] = c]
      BY <1>1, <2>1, <3>1 DEF OfferArrives, PairTypeOK
    <3>3. PICK s \in Transports : s.st = "answering" /\ c = [me[x] EXCEPT !.svc = s]
      <4>1. me[x] \in Clients /\ Other(x) \in Peers \cup {NoPeer}
        BY <1>2, OtherFacts
      <4>2. \E s \in Transports : /\ s.st = "answering"
                                 /\ OnOffer(me[x], Other(x)) = [me[x] EXCEPT !.svc = s]
        BY <4>1, OfferState
      <4> QED BY <3>1, <4>2
    <3>4. me[x].phase = "connecting" \/ me[x].svcGen # me[x].gen
      <4>1. h = Signal("offer", h.about) /\ h.about \in Requests
        BY <1>4 DEF Signals, Signal
      <4> QED BY <1>4, <2>1, <4>1 DEF Unoffered, Listens, Drops
    <3>5. GoesOn(x, me[x], about[x], c) /\ c.phase = me[x].phase /\ c.to = me[x].to
      BY <1>1, <3>3, <3>4, ServiceGoesOn
    <3> QED BY <3>2, <3>5
  <2>2. CASE me[x].svc.st # "ready"
    <3>1. me' = [me EXCEPT ![x] = me[x]]
      BY <2>2 DEF OfferArrives
    <3> QED BY <1>1, <3>1, SameGoesOn
  <2> QED BY <2>1, <2>2
<1>8. about' = [about EXCEPT ![x] = about[x]]
  BY <1>1, <1>5 DEF PairTypeOK
<1>9. PICK c : /\ me' = [me EXCEPT ![x] = c] /\ GoesOn(x, me[x], about[x], c)
               /\ c.phase = me[x].phase /\ c.to = me[x].to
  BY <1>7
<1>10. Within(about[x], c) = about[x]
  BY <1>1, <1>9 DEF Within, Fits
<1> QED BY <1>4, <1>5, <1>6, <1>8, <1>9, <1>10, QuietStep

LEMMA SilentStep ==
    ASSUME PairInv, NEW x \in Peers, NEW c, GoesOn(x, me[x], about[x], c), Silently(x, c)
    PROVE  PairInv'
<1>1. PairTypeOK
  BY DEF PairInv
<1>2. /\ me' = [me EXCEPT ![x] = c] /\ about' = [about EXCEPT ![x] = Within(about[x], c)]
      /\ wire' = wire
      /\ \/ spoiled' = spoiled \cup {about[x]}
         \/ spoiled' = spoiled /\ c.phase = me[x].phase /\ c.to = me[x].to
  BY DEF Silently, Becomes, Within
<1> QED BY <1>1, <1>2, QuietStep DEF PairTypeOK

LEMMA ServiceStep ==
    ASSUME PairInv, NEW x \in Peers,
           Disconnect(x) \/ ServiceEnds(x) \/ ServiceFails(x) \/ DialRejected(x)
    PROVE  PairInv'
<1>1. Fits(x, me[x], about[x])
  BY DEF PairInv, ClientsOK
<1>2. CASE Disconnect(x)
  BY <1>1, <1>2, DisconnectFits, SilentStep DEF Disconnect
<1>3. CASE ServiceEnds(x)
  BY <1>1, <1>3, EndedFits, SilentStep DEF ServiceEnds
<1>4. CASE ServiceFails(x)
  <2>1. me[x] \in Clients /\ me[x].svcGen <= me[x].gen
    BY <1>1 DEF Fits
  <2>2. GoesOn(x, me[x], about[x], Reset(me[x]))
    BY <2>1, ResetGoesOn
  <2> QED BY <1>4, <2>2, SilentStep DEF ServiceFails, OnError
<1>5. CASE DialRejected(x)
  <2>1. PICK e \in BOOLEAN : me[x].svc.st = "dialing" /\ Silently(x, OnDialRejected(me[x], e))
    BY <1>5 DEF DialRejected
  <2> QED BY <1>1, <2>1, RejectedFits, SilentStep
<1> QED BY <1>2, <1>3, <1>4, <1>5

LEMMA UpStep ==
    ASSUME PairInv, NEW x \in Peers, ServiceConnected(x)
    PROVE  PairInv'
<1>1. PairTypeOK /\ LivesOK /\ Fits(x, me[x], about[x])
  BY DEF PairInv, ClientsOK
<1>2. PICK c : c = OnServiceConnected(me[x], Other(x))
  OBVIOUS
<1>3. /\ GoesOn(x, me[x], about[x], c) /\ c.gen = me[x].gen
      /\ \/ c.phase = me[x].phase /\ c.to = me[x].to
         \/ me[x].phase = "connecting" /\ c.phase = "connected"
  BY <1>1, <1>2, ConnectedFits DEF ServiceConnected
<1>4. /\ me' = [me EXCEPT ![x] = c] /\ about' = [about EXCEPT ![x] = Within(about[x], c)]
      /\ wire' = wire /\ spoiled' = spoiled
  BY <1>2 DEF ServiceConnected, Becomes, Within
<1>5. CASE c.phase = me[x].phase /\ c.to = me[x].to
  BY <1>1, <1>3, <1>4, <1>5, QuietStep DEF PairTypeOK
<1>6. CASE me[x].phase = "connecting" /\ c.phase = "connected"
  <2>1. Steps(x, c, about[x])
    BY <1>1, <1>4, <1>6, StepFacts DEF Within
  <2>2. PairTypeOK' /\ ClientsOK' /\ NamesOK'
    BY <1>1, <1>3, <1>4, GoneOn DEF PairTypeOK
  <2>3. ASSUME NEW q \in Requests, q \notin spoiled'
        PROVE  Life(q, q[1], Other(q[1]))'
    <3>1. Life(q, q[1], Other(q[1])) /\ \A z \in Peers : Keeps(wire[z], wire'[z], q)
      BY <1>1, <1>4, <2>3, KeepsSame DEF LivesOK
    <3>2. CASE about[x] = q
      BY <1>4, <1>6, <2>1, <3>1, <3>2, UpLife
    <3>3. CASE about[x] # q
      BY <2>1, <3>1, <3>3, UntouchedLife, OtherFacts
    <3> QED BY <3>2, <3>3
  <2> QED BY <2>2, <2>3 DEF PairInv, LivesOK
<1> QED BY <1>3, <1>5, <1>6

-----------------------------------------------------------------------------
LEMMA PairInit ==
    ASSUME Init
    PROVE  PairInv
<1>1. PICK c : c = OnIdentity(InitialClient)
  OBVIOUS
<1>2. /\ c \in Clients /\ c.phase = "idle" /\ c.to = NoPeer /\ c.incoming = NoPeer
      /\ c.gen = 1 /\ c.svcGen = 1 /\ c.svc = Service("ready", NoPeer, FALSE)
  <2>1. c = [InitialClient EXCEPT !.ready = TRUE, !.svc = Service("ready", NoPeer, FALSE),
                                  !.svcGen = 1, !.fileRtc = FALSE]
    BY <1>1 DEF OnIdentity, FreshService, InitialClient
  <2>2. PICK s \in Transports : s = Service("ready", NoPeer, FALSE)
    BY DEF Service, Transports
  <2>3. c = [phase |-> "idle", gen |-> 1, peer |-> NoPeer, verification |-> "legacy",
             to |-> NoPeer, incoming |-> NoPeer, isConnected |-> FALSE, device |-> NoPeer,
             ready |-> TRUE, pending |-> "rtc", svc |-> s, svcGen |-> 1,
             wsRef |-> NoRef, wtRef |-> NoRef, fileDirect |-> NoRef, fileRtc |-> FALSE]
    BY <2>1, <2>2 DEF InitialClient
  <2>4. c \in Clients
    <3>1. PICK one \in Nat \ {0} : one = 1
      OBVIOUS
    <3>2. "idle" \in Phases
      BY DEF Phases
    <3>3. c = [phase |-> "idle", gen |-> one, peer |-> NoPeer, verification |-> "legacy",
               to |-> NoPeer, incoming |-> NoPeer, isConnected |-> FALSE, device |-> NoPeer,
               ready |-> TRUE, pending |-> "rtc", svc |-> s, svcGen |-> one,
               wsRef |-> NoRef, wtRef |-> NoRef, fileDirect |-> NoRef, fileRtc |-> FALSE]
      BY <2>3, <3>1
    <3> QED BY <3>2, <3>3 DEF Clients
  <2> QED BY <2>2, <2>3, <2>4
<1>3. /\ me = [z \in Peers |-> c] /\ about = [z \in Peers |-> NoRequest]
      /\ wire = [z \in Peers |-> <<>>]
  BY <1>1 DEF Init
<1>4. <<>> \in Seq(Signals) /\ Len(<<>>) = 0
  OBVIOUS
<1>5. \A s : ~ Bears(<<>>, s) /\ Once(<<>>, s)
  BY <1>4 DEF Bears, Once
<1>6. PairTypeOK
  BY <1>2, <1>3, <1>4 DEF PairTypeOK
<1>7. ClientsOK
  BY <1>2, <1>3 DEF ClientsOK, Fits, Shows, AtWork, Service
<1>8. NamesOK
  BY <1>3, <1>5 DEF NamesOK
<1>9. LivesOK
  <2>1. \A r \in Requests, z \in Peers : about[z] # r
    BY <1>3, RequestFacts
  <2>2. \A z \in Peers : \A s : ~ Bears(wire[z], s) /\ Once(wire[z], s)
    BY <1>3, <1>5
  <2> QED BY <2>1, <2>2, OtherFacts, RequestFacts DEF LivesOK, Life
<1> QED BY <1>6, <1>7, <1>8, <1>9 DEF PairInv

LEMMA PairStep == PairInv /\ Unoffered /\ [Next]_vars => PairInv'
<1> SUFFICES ASSUME PairInv, Unoffered, [Next]_vars PROVE PairInv'
  OBVIOUS
<1>1. CASE UNCHANGED vars
  <2>1. me' = me /\ about' = about /\ wire' = wire /\ spoiled' = spoiled
    BY <1>1 DEF vars
  <2> QED BY <2>1 DEF PairInv, PairTypeOK, ClientsOK, NamesOK, Named, Current, LivesOK, Life
<1>2. ASSUME NEW x \in Peers, User(x) \/ Arrives(x) \/ Callbacks(x)
      PROVE  PairInv'
  <2>1. CASE User(x)
    BY <2>1, SelectStep, AcceptStep, LeaveStep, ServiceStep DEF User
  <2>2. CASE Arrives(x)
    BY <2>2, RequestStep, ConnectStep, EndStep, OfferStep DEF Arrives
  <2>3. CASE Callbacks(x)
    BY <2>3, ServiceStep, UpStep DEF Callbacks
  <2> QED BY <1>2, <2>1, <2>2, <2>3
<1> QED BY <1>1, <1>2 DEF Next

-----------------------------------------------------------------------------
(* Who has accepted nothing is offered nothing: an offer answers an        *)
(* acceptance, and the session that sent that is connecting, or over.      *)
LEMMA UnofferedInit == Init => Unoffered
<1> SUFFICES ASSUME Init PROVE Unoffered
  OBVIOUS
<1>1. \A z \in Peers : wire[z] = <<>>
  BY DEF Init
<1>2. \A s : ~ Bears(<<>>, s)
  BY DEF Bears
<1> QED BY <1>1, <1>2, OtherFacts DEF Unoffered

LEMMA UnofferedKept ==
    ASSUME PairTypeOK, Unoffered, NEW x \in Peers, NEW c, me' = [me EXCEPT ![x] = c],
           Listens(c) => Listens(me[x]),
           \A z \in Peers, s \in Signals : Bears(wire'[z], s) =>
              \/ Bears(wire[z], s)
              \/ /\ z = Other(x)
                 /\ \/ s.kind \in {"request", "declined"}
                    \/ s.kind = "accepted" /\ ~ Listens(c)
                    \/ /\ s.kind = "offer"
                       /\ \E r \in Requests : Bears(wire[x], Signal("accepted", r))
    PROVE  Unoffered'
<1> SUFFICES ASSUME NEW z \in Peers, Listens(me'[z]), NEW r \in Requests
             PROVE  /\ ~ Bears(wire'[Other(z)], Signal("accepted", r))
                    /\ ~ Bears(wire'[z], Signal("offer", r))
  BY DEF Unoffered
<1>1. /\ Signal("accepted", r) \in Signals /\ Signal("accepted", r).kind = "accepted"
      /\ Signal("offer", r) \in Signals /\ Signal("offer", r).kind = "offer"
  BY SignalFacts DEF Kinds
<1>2. CASE z = x
  <2>1. Listens(c) /\ Listens(me[x])
    BY <1>2 DEF PairTypeOK
  <2> QED BY <1>1, <1>2, <2>1, OtherFacts DEF Unoffered
<1>3. CASE z # x
  <2>1. z = Other(x) /\ Other(z) = x /\ me'[z] = me[z]
    BY <1>3, OtherFacts DEF PairTypeOK
  <2> QED BY <1>1, <1>3, <2>1, OtherFacts DEF Unoffered
<1> QED BY <1>2, <1>3

LEMMA SaidUnoffered ==
    ASSUME PairInv, Unoffered, NEW x \in Peers, NEW c, NEW r \in Requests,
           NEW kind \in {"request", "accepted", "declined"}, Says(x, c, kind, r),
           Listens(c) => Listens(me[x]) /\ kind # "accepted"
    PROVE  Unoffered'
<1>1. PICK e : e = Signal(kind, r)
  OBVIOUS
<1>2. e \in Signals /\ e.kind = kind
  BY <1>1, SignalFacts DEF Kinds
<1>3. /\ me' = [me EXCEPT ![x] = c]
      /\ wire' = [wire EXCEPT ![Other(x)] = Append(@, e)]
  BY <1>1 DEF Says, Becomes
<1>4. PairTypeOK
  BY DEF PairInv
<1>5. wire'[x] = wire[x] /\ Adds(wire[Other(x)], wire'[Other(x)], e)
  BY <1>2, <1>3, <1>4, SaidWires
<1>6. ASSUME NEW z \in Peers, NEW s \in Signals, Bears(wire'[z], s), ~ Bears(wire[z], s)
      PROVE  z = Other(x) /\ s.kind = kind
  BY <1>2, <1>5, <1>6, OtherFacts DEF Adds
<1>7. kind = "accepted" => ~ Listens(c)
  OBVIOUS
<1>8. \A z \in Peers, s \in Signals : Bears(wire'[z], s) =>
         \/ Bears(wire[z], s)
         \/ /\ z = Other(x)
            /\ \/ s.kind \in {"request", "declined"}
               \/ s.kind = "accepted" /\ ~ Listens(c)
  BY <1>6, <1>7
<1>9. Listens(c) => Listens(me[x])
  OBVIOUS
<1> QED BY <1>3, <1>4, <1>8, <1>9, UnofferedKept

LEMMA HeardUnoffered ==
    ASSUME PairInv, Unoffered, NEW x \in Peers, NEW c, wire[x] # <<>>,
           Listens(c) => Listens(me[x]), me' = [me EXCEPT ![x] = c],
           NEW answers,
           wire' = [wire EXCEPT ![x] = Tail(@), ![Other(x)] = @ \o answers],
           \/ answers = <<>>
           \/ \E e \in Signals :
                 /\ answers = <<e>>
                 /\ \/ e.kind = "declined"
                    \/ /\ e.kind = "offer"
                       /\ \E r \in Requests : Bears(wire[x], Signal("accepted", r))
    PROVE  Unoffered'
<1>1. PairTypeOK
  BY DEF PairInv
<1>2. /\ Drops(wire[x], wire'[x], Head(wire[x]))
      /\ answers = <<>> => wire'[Other(x)] = wire[Other(x)]
      /\ \A e \in Signals : answers = <<e>> => Adds(wire[Other(x)], wire'[Other(x)], e)
  BY <1>1, HeardWires
<1>3. ASSUME NEW z \in Peers, NEW s \in Signals, Bears(wire'[z], s), ~ Bears(wire[z], s)
      PROVE  /\ z = Other(x)
             /\ \/ s.kind = "declined"
                \/ /\ s.kind = "offer"
                   /\ \E r \in Requests : Bears(wire[x], Signal("accepted", r))
  <2>1. z = Other(x)
    BY <1>2, <1>3, OtherFacts DEF Drops
  <2>2. PICK e \in Signals :
          /\ answers = <<e>>
          /\ \/ e.kind = "declined"
             \/ /\ e.kind = "offer"
                /\ \E r \in Requests : Bears(wire[x], Signal("accepted", r))
    BY <1>2, <1>3, <2>1
  <2>3. s = e
    BY <1>2, <1>3, <2>1, <2>2 DEF Adds
  <2> QED BY <2>1, <2>2, <2>3
<1> QED BY <1>1, <1>3, UnofferedKept

LEMMA QuietUnoffered ==
    ASSUME PairInv, Unoffered, NEW x \in Peers, NEW c, me' = [me EXCEPT ![x] = c],
           Listens(c) => Listens(me[x]), wire' = wire
    PROVE  Unoffered'
  BY UnofferedKept DEF PairInv

LEMMA ResetListens ==
    ASSUME NEW c \in Clients, c.svcGen <= c.gen
    PROVE  ~ Listens(Reset(c))
<1>1. c.svcGen \in Nat /\ c.gen \in Nat
  BY DEF Clients
<1>2. Reset(c).gen = c.gen + 1 /\ Reset(c).svcGen = c.svcGen
  BY DEF Reset, Clients
<1> QED BY <1>1, <1>2 DEF Listens

LEMMA UserUnoffered ==
    ASSUME PairInv, Unoffered, NEW x \in Peers,
           SelectPeer(x) \/ AcceptRequest(x) \/ DeclineRequest(x) \/ CancelRequest(x)
    PROVE  Unoffered'
<1>1. /\ Fits(x, me[x], about[x]) /\ me[x] \in Clients /\ me[x].gen \in Nat
      /\ me[x].svcGen <= me[x].gen
  BY DEF PairInv, ClientsOK, Fits, Clients
<1>2. CASE SelectPeer(x)
  <2>1. PICK c : c = OnSelectPeer(me[x], Other(x))
    OBVIOUS
  <2>2. me[x].phase = "idle" /\ c.svc = me[x].svc /\ c.svcGen = me[x].svcGen /\ c.gen = me[x].gen
    BY <1>1, <1>2, <2>1 DEF SelectPeer, OnSelectPeer, Clients
  <2>3. Says(x, c, "request", <<x, me[x].gen>>) /\ <<x, me[x].gen>> \in Requests
    BY <1>1, <1>2, <2>1, RequestFacts DEF SelectPeer
  <2> QED BY <2>2, <2>3, SaidUnoffered DEF Listens
<1>3. CASE AcceptRequest(x)
  <2>1. PICK c : c = OnAccept(me[x])
    OBVIOUS
  <2>2. c.phase = "connecting" /\ me[x].phase = "incoming_request"
    BY <1>1, <1>3, <2>1, AcceptFits DEF AcceptRequest
  <2>3. about[x] \in Requests /\ Says(x, c, "accepted", about[x])
    BY <1>1, <1>3, <2>1, <2>2 DEF Fits, AcceptRequest
  <2> QED BY <2>2, <2>3, SaidUnoffered DEF Listens
<1>4. CASE DeclineRequest(x) \/ CancelRequest(x)
  <2>1. PICK c : c = Reset(me[x])
    OBVIOUS
  <2>2. Says(x, c, "declined", about[x]) /\ me[x].phase # "idle"
    BY <1>1, <1>4, <2>1 DEF DeclineRequest, CancelRequest, OnDecline, OnCancel, Fits, Shows
  <2>3. about[x] \in Requests
    BY <1>1, <2>2 DEF Fits
  <2> QED BY <1>1, <2>1, <2>2, <2>3, SaidUnoffered, ResetListens
<1> QED BY <1>2, <1>3, <1>4

LEMMA ArrivesUnoffered ==
    ASSUME PairInv, Unoffered, NEW x \in Peers, Arrives(x)
    PROVE  Unoffered'
<1>1. /\ PairTypeOK /\ Fits(x, me[x], about[x]) /\ me[x] \in Clients
      /\ me[x].svcGen <= me[x].gen /\ wire[x] # <<>>
  BY DEF PairInv, ClientsOK, Fits, Arrives, RequestArrives, AcceptArrives, DeclineArrives,
         OfferArrives, Receives
<1>2. CASE RequestArrives(x)
  <2>1. PICK c, r, answers :
          /\ c = OnRequest(me[x], Other(x), {}) /\ r = Topic(x)
          /\ answers = IF Busy(x) THEN <<Signal("declined", r)>> ELSE <<>>
    OBVIOUS
  <2>2. r \in Requests
    BY <1>2, <2>1, HeadFacts DEF RequestArrives, Kinds
  <2>3. Signal("declined", r) \in Signals /\ Signal("declined", r).kind = "declined"
    BY <2>2, SignalFacts DEF Kinds
  <2>4. /\ me' = [me EXCEPT ![x] = c]
        /\ wire' = [wire EXCEPT ![x] = Tail(@), ![Other(x)] = @ \o answers]
    BY <1>2, <2>1 DEF RequestArrives, Hears, Becomes
  <2>5. Listens(c) => Listens(me[x])
    <3>1. CASE me[x].phase = "idle"
      <4>1. c.svc = me[x].svc /\ c.svcGen = me[x].svcGen /\ c.gen = me[x].gen
        BY <1>1, <2>1, <3>1 DEF OnRequest, Clients
      <4> QED BY <3>1, <4>1 DEF Listens
    <3>2. CASE me[x].phase # "idle"
      BY <2>1, <3>2 DEF OnRequest
    <3> QED BY <3>1, <3>2
  <2> QED BY <1>1, <2>1, <2>3, <2>4, <2>5, HeardUnoffered
<1>3. CASE AcceptArrives(x)
  <2>1. PICK c, r, answers :
          /\ c = OnAccepted(me[x], Other(x), {}) /\ r = Topic(x)
          /\ answers = IF c # me[x] THEN <<Signal("offer", about[x])>> ELSE <<>>
    OBVIOUS
  <2>2. r \in Requests /\ Bears(wire[x], Signal("accepted", r))
    BY <1>3, <2>1, HeadFacts DEF AcceptArrives, Kinds
  <2>3. /\ me[x].phase = "requesting" => c.phase = "connecting"
        /\ me[x].phase # "requesting" => c = me[x]
    <3>1. Fits(x, me[x], about[x]) /\ c = OnAccepted(me[x], Other(x), {})
      BY <1>1, <2>1
    <3> QED BY <3>1, AcceptedFits
  <2>4. /\ me' = [me EXCEPT ![x] = c]
        /\ wire' = [wire EXCEPT ![x] = Tail(@), ![Other(x)] = @ \o answers]
    BY <1>3, <2>1 DEF AcceptArrives, Hears, Becomes
  <2>5. c # me[x] => /\ Signal("offer", about[x]) \in Signals
                     /\ Signal("offer", about[x]).kind = "offer"
    BY <1>1, <2>3, SignalFacts DEF Fits, Kinds
  <2>6. Listens(c) => Listens(me[x])
    BY <2>3 DEF Listens
  <2> QED BY <1>1, <2>1, <2>2, <2>4, <2>5, <2>6, HeardUnoffered
<1>4. CASE DeclineArrives(x)
  <2>1. PICK c, answers : c = OnDeclined(me[x], Other(x)) /\ answers = <<>>
    OBVIOUS
  <2>2. /\ me' = [me EXCEPT ![x] = c]
        /\ wire' = [wire EXCEPT ![x] = Tail(@), ![Other(x)] = @ \o answers]
    BY <1>4, <2>1 DEF DeclineArrives, Hears, Becomes
  <2>3. c = me[x] \/ c = Reset(me[x])
    BY <2>1 DEF OnDeclined
  <2> QED BY <1>1, <2>1, <2>2, <2>3, ResetListens, HeardUnoffered
<1>5. CASE OfferArrives(x)
  <2>1. PICK c, u : /\ c = IF me[x].svc.st = "ready" THEN OnOffer(me[x], Other(x)) ELSE me[x]
                    /\ u = Tail(wire[x])
    OBVIOUS
  <2>2. me' = [me EXCEPT ![x] = c] /\ wire' = [wire EXCEPT ![x] = u]
    BY <1>1, <1>5, <2>1 DEF OfferArrives, PairTypeOK
  <2>3. Listens(c) => Listens(me[x])
    BY <1>1, <2>1 DEF Listens, OnOffer, Clients, Transports
  <2>4. \A s : Bears(u, s) => Bears(wire[x], s)
    BY <1>1, <2>1, TailDrops DEF Drops, PairTypeOK
  <2>5. \A z \in Peers, s \in Signals : Bears(wire'[z], s) => Bears(wire[z], s)
    BY <1>1, <2>2, <2>4 DEF PairTypeOK
  <2> QED BY <1>1, <2>2, <2>3, <2>5, UnofferedKept
<1> QED BY <1>2, <1>3, <1>4, <1>5 DEF Arrives

LEMMA ServiceUnoffered ==
    ASSUME PairInv, Unoffered, NEW x \in Peers, Disconnect(x) \/ Callbacks(x)
    PROVE  Unoffered'
<1>1. /\ Fits(x, me[x], about[x]) /\ me[x] \in Clients /\ me[x].svcGen <= me[x].gen
  BY DEF PairInv, ClientsOK, Fits
<1>2. SUFFICES \E c : /\ me' = [me EXCEPT ![x] = c] /\ wire' = wire
                      /\ Listens(c) => Listens(me[x])
  BY QuietUnoffered
<1>3. CASE Disconnect(x)
  <2>1. PICK s \in Transports : s = NoService
    BY DEF Transports, NoService, Service
  <2>2. PICK d : d = [me[x] EXCEPT !.svc = s, !.fileRtc = FALSE, !.wtRef = NoRef,
                                   !.wsRef = NoRef]
    OBVIOUS
  <2>3. d \in Clients /\ d.svcGen <= d.gen
    BY <1>1, <2>2 DEF Clients
  <2>4. OnDisconnect(me[x]) \in {me[x], Reset(d)}
    <3>1. me[x].wtRef = NoRef /\ me[x].wsRef = NoRef
      BY <1>1 DEF Clients
    <3>2. [me[x] EXCEPT !.svc = NoService, !.fileRtc = FALSE, !.wtRef = NoRef,
                        !.wsRef = NoRef, !.fileDirect = me[x].fileDirect] = d
      BY <1>1, <2>1, <2>2 DEF Clients
    <3> QED BY <3>1, <3>2 DEF OnDisconnect
  <2> QED BY <1>3, <2>3, <2>4, ResetListens DEF Disconnect, Silently, Becomes
<1>4. CASE ServiceConnected(x)
  <2>1. OnServiceConnected(me[x], Other(x)).svc.st = "up"
    BY <1>1 DEF OnServiceConnected, ShowConnected, MarkConnected, Clients, Transports
  <2> QED BY <1>4, <2>1 DEF ServiceConnected, Becomes, Listens
<1>5. CASE ServiceEnds(x)
  <2>1. PICK over : over = [me[x] EXCEPT !.svc.st = "over"]
    OBVIOUS
  <2>2. /\ over \in Clients /\ over.svc.st = "over"
        /\ over.svcGen = me[x].svcGen /\ over.gen = me[x].gen
    BY <1>1, <2>1 DEF Clients, Transports
  <2>3. PICK d : d = [over EXCEPT !.fileRtc = FALSE]
    OBVIOUS
  <2>4. d \in Clients /\ d.svcGen <= d.gen
    BY <1>1, <2>2, <2>3 DEF Clients
  <2>5. OnServiceEnded(me[x]) \in {over, Reset(d)}
    BY <2>1, <2>3 DEF OnServiceEnded
  <2>6. ~ Listens(OnServiceEnded(me[x]))
    BY <2>2, <2>4, <2>5, ResetListens DEF Listens
  <2> QED BY <1>5, <2>6 DEF ServiceEnds, Silently, Becomes
<1>6. CASE ServiceFails(x)
  BY <1>1, <1>6, ResetListens DEF ServiceFails, OnError, Silently, Becomes
<1>7. CASE DialRejected(x)
  <2>1. PICK e \in BOOLEAN : Silently(x, OnDialRejected(me[x], e))
    BY <1>7 DEF DialRejected
  <2>2. PICK d : d = [me[x] EXCEPT !.svc.st = "rejected"]
    OBVIOUS
  <2>3. /\ d \in Clients /\ d.svc.st = "rejected"
        /\ d.svcGen = me[x].svcGen /\ d.gen = me[x].gen
    BY <1>1, <2>2 DEF Clients, Transports
  <2>4. PICK shown : shown = [d EXCEPT !.to = NoPeer]
    OBVIOUS
  <2>5. shown \in Clients /\ shown.svcGen <= shown.gen /\ shown.svc.st = "rejected"
    BY <1>1, <2>3, <2>4 DEF Clients
  <2>6. OnDialRejected(me[x], e) \in {d, shown, Reset(shown)}
    BY <2>2, <2>4 DEF OnDialRejected
  <2>7. ~ Listens(OnDialRejected(me[x], e))
    BY <2>3, <2>5, <2>6, ResetListens DEF Listens
  <2> QED BY <2>1, <2>7 DEF Silently, Becomes
<1> QED BY <1>3, <1>4, <1>5, <1>6, <1>7 DEF Callbacks

LEMMA UnofferedStep == PairInv /\ Unoffered /\ [Next]_vars => Unoffered'
<1> SUFFICES ASSUME PairInv, Unoffered, [Next]_vars PROVE Unoffered'
  OBVIOUS
<1>1. CASE UNCHANGED vars
  BY <1>1 DEF vars, Unoffered, Listens
<1>2. ASSUME NEW x \in Peers, User(x) \/ Arrives(x) \/ Callbacks(x)
      PROVE  Unoffered'
  BY <1>2, UserUnoffered, ArrivesUnoffered, ServiceUnoffered DEF User
<1> QED BY <1>1, <1>2 DEF Next

-----------------------------------------------------------------------------
(* Every request whose signals nobody misread lives as Life says: it is     *)
(* under way, or shown, or accepted on its way back, or both sides connect,*)
(* or the side that is left alone has its decline coming.                  *)
THEOREM PairInvariant == Spec => []PairInv
<1>1. Init => PairInv /\ Unoffered
  BY PairInit, UnofferedInit
<1>2. PairInv /\ Unoffered /\ [Next]_vars => (PairInv /\ Unoffered)'
  BY PairStep, UnofferedStep
<1> QED BY <1>1, <1>2, PTL DEF Spec

LEMMA Agreement == PairInv => SettledSidesAgree
<1> SUFFICES ASSUME PairInv, NEW x \in Peers, Quiet, Engaged(x)
             PROVE  /\ about[Other(x)] = about[x]
                    /\ me[Other(x)].phase \in Matching(me[x].phase)
  BY DEF SettledSidesAgree
<1>1. PICK y \in Peers, r \in Requests \cup {NoRequest} :
        r = about[x] /\ y = Other(x) /\ x = Other(y) /\ x # y
  BY OtherFacts DEF PairInv, PairTypeOK
<1>2. r \in Requests /\ r \notin spoiled /\ (r[1] = x \/ r[1] = y)
  BY <1>1, OtherFacts, RequestFacts DEF Engaged
<1>3. \A z \in Peers : \A s : ~ Bears(wire[z], s)
  <2>1. \A s : ~ Bears(<<>>, s)
    BY DEF Bears
  <2> QED BY <2>1 DEF Quiet
<1>4. Life(r, x, y) \/ Life(r, y, x)
  BY <1>1, <1>2 DEF PairInv, LivesOK
<1>5. /\ about[y] = r
      /\ \/ me[x].phase = "requesting" /\ me[y].phase = "incoming_request"
         \/ me[x].phase = "incoming_request" /\ me[y].phase = "requesting"
         \/ /\ me[x].phase \in {"connecting", "connected"}
            /\ me[y].phase \in {"connecting", "connected"}
  BY <1>1, <1>3, <1>4 DEF Life
<1> QED BY <1>1, <1>5 DEF Matching

(* Once all signals are delivered, a side whose request nobody misread is in*)
(* one session with the other, in matching phases.                         *)
THEOREM SidesAgree == Spec => []SettledSidesAgree
  BY PairInvariant, Agreement, PTL
=============================================================================
