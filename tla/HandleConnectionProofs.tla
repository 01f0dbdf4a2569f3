----------------------- MODULE HandleConnectionProofs -----------------------
(* Machine-checked proofs about one connection, for any limits, addresses, *)
(* headers, settings and codes.                                            *)
EXTENDS HandleConnection, WellFoundedInduction, TLAPS

-----------------------------------------------------------------------------
(* The limiter's budget.                                                   *)
LEMMA BudgetInit == HandleInit => BudgetInv
  BY RateLimitAssumption
  DEF HandleInit, Init, BudgetInv, TypeOK, Stages

(* A message that is let through pays for one answer, or for the peers     *)
(* message a registration is about to be given.                            *)
LEMMA AllowInv ==
    ASSUME BudgetInv, Allow, NEW n \in 0 .. 1, Answers(n),
           stage' \in Stages, stage # "joining", stage' = "joining" => n = 0
    PROVE  BudgetInv'
<1> USE RateLimitAssumption DEF BudgetInv, TypeOK
<1>1. TypeOK'
  BY DEF Allow, Budget, WindowAge, Elapsed
<1>2. /\ open /\ open' = open /\ violations' = 0
      /\ remaining' = Budget - 1
      /\ answered' = (IF Elapsed THEN 0 ELSE answered) + n
  BY DEF Allow, Answers
<1>3. /\ answered' \in Nat
      /\ answered' + (IF stage' = "joining" THEN 1 ELSE 0) <= PerSecond - remaining'
  BY <1>2 DEF Allow, Budget
<1> QED BY <1>1, <1>2, <1>3

(* A refusal pays for itself: the window has not elapsed, and nothing of   *)
(* its budget is left.                                                     *)
LEMMA RefuseInv ==
    ASSUME BudgetInv, Refuse, Answers(1), UNCHANGED stage, stage # "joining"
    PROVE  BudgetInv'
<1> USE RateLimitAssumption DEF BudgetInv, TypeOK
<1>1. ~Elapsed /\ remaining = 0 /\ remaining' = 0
  BY DEF Refuse, Budget
<1>2. TypeOK'
  BY <1>1 DEF Refuse, WindowAge, Elapsed
<1>3. answered' = answered + 1
  BY <1>1 DEF Answers
<1> QED BY <1>1, <1>2, <1>3 DEF Refuse

(* The cut-off says nothing. *)
LEMMA CutOffInv ==
    ASSUME BudgetInv, Close, Answers(0), stage' = "closed", stage # "joining"
    PROVE  BudgetInv'
<1> USE RateLimitAssumption DEF BudgetInv, TypeOK
<1>1. ~Elapsed /\ remaining = 0 /\ remaining' = 0
  BY DEF Close, Budget
<1>2. TypeOK'
  <2>1. violations' \in 0 .. CloseThreshold /\ remaining' \in 0 .. PerSecond
    BY <1>1 DEF Close
  <2>2. age' \in 0 .. Second /\ passed' = passed
    BY <1>1 DEF Close, WindowAge, Elapsed
  <2>3. open' \in BOOLEAN
    BY Zenon DEF Close
  <2> QED BY <2>1, <2>2, <2>3
<1>3. answered' = answered
  BY <1>1 DEF Answers
<1> QED BY <1>1, <1>2, <1>3 DEF Close, Stages

LEMMA BudgetStep == BudgetInv /\ [HandleNext]_vars => BudgetInv'
<1> SUFFICES ASSUME BudgetInv, [HandleNext]_vars PROVE BudgetInv'
  OBVIOUS
<1> USE RateLimitAssumption
<1>1. CASE UNCHANGED vars
  BY <1>1 DEF vars, rateVars, BudgetInv, TypeOK
<1>2. CASE ServerStarts \/ ServerExits \/ StreamAccepted \/ HeadersRead
           \/ RegistrationBegins \/ HandshakeFails
  BY <1>2 DEF ServerStarts, ServerExits, StreamAccepted, HeadersRead,
     RegistrationBegins, HandshakeFails, rateVars, BudgetInv, TypeOK, Stages
<1>3. CASE Refused
  BY <1>3, RefuseInv DEF Refused, InLoop
<1>4. CASE CutOff
  BY <1>4, CutOffInv DEF CutOff, InLoop
<1>5. CASE Rejected \/ KeepAlive
  <2>1. /\ Allow /\ UNCHANGED stage /\ stage \in Stages /\ stage # "joining"
        /\ Answers(0) \/ Answers(1)
    BY <1>5 DEF Rejected, KeepAlive, InLoop, BudgetInv
  <2> QED BY <2>1, AllowInv
<1>6. CASE Registers
  <2>1. /\ Allow /\ stage # "joining"
        /\ \/ stage' = "joining" /\ Answers(0)
           \/ stage' = "closed" /\ Answers(1)
    BY <1>6 DEF Registers
  <2> QED BY <2>1, AllowInv DEF Stages
<1>7. CASE Signals
  <2>1. /\ Allow /\ UNCHANGED stage /\ stage \in Stages /\ stage # "joining"
        /\ Answers(0) \/ Answers(1)
    BY <1>7 DEF Signals, BudgetInv
  <2> QED BY <2>1, AllowInv
<1>8. CASE Joined
  BY <1>8 DEF Joined, rateVars, BudgetInv, TypeOK, Stages
<1>9. CASE Closes
  BY <1>9 DEF Closes, InLoop, rateVars, BudgetInv, TypeOK, Stages
<1>10. CASE TimePasses
  <2>1. TypeOK'
    BY <1>10 DEF TimePasses, Tick, BudgetInv, TypeOK
  <2> QED BY <1>10, <2>1 DEF TimePasses, Tick, BudgetInv
<1> QED BY <1>1, <1>2, <1>3, <1>4, <1>5, <1>6, <1>7, <1>8, <1>9, <1>10 DEF HandleNext

(* What was accepted within a second: the history's claim about the window *)
(* survives every use of the limiter.                                      *)
LEMMA WindowInit == HandleInit => WindowInv
<1> SUFFICES ASSUME HandleInit PROVE WindowInv
  OBVIOUS
<1>1. \A a \in 0 .. Second - 1 : passed[a] = 0
  BY DEF HandleInit, Init
<1> QED BY <1>1, RateLimitAssumption
        DEF HandleInit, Init, WindowInv, Elapsed, AcceptedLastSecond

(* Time moves every count one tick back, and elapses the window at last.   *)
LEMMA TickWindow ==
    ASSUME TypeOK, WindowInv, Tick
    PROVE  WindowInv'
<1> USE RateLimitAssumption DEF TypeOK
<1> DEFINE ticks == 0 .. Second - 1
<1>1. /\ \A a \in ticks : passed'[a] = IF a = 0 THEN 0 ELSE passed[a - 1]
      /\ \A a \in ticks : passed[a] \in Nat
      /\ \A a, b \in ticks : a <= b => passed[a] <= passed[b]
      /\ remaining' = remaining
  BY DEF Tick, WindowInv
<1>2. \A a, b \in ticks : a <= b => passed'[a] <= passed'[b]
  <2> TAKE a \in ticks, b \in ticks
  <2>1. CASE a = 0
    BY <1>1, <2>1
  <2>2. CASE a # 0
    BY <1>1, <2>2
  <2> QED BY <2>1, <2>2
<1>3. passed'[0] = 0 /\ passed'[Second - 1] <= passed[Second - 1]
  BY <1>1
<1>4. CASE age = Second
  BY <1>2, <1>3, <1>4 DEF Tick, WindowInv, Elapsed, AcceptedLastSecond
<1>5. CASE age < Second - 1
  <2>1. age' = age + 1 /\ passed'[age + 1] = passed[age]
    BY <1>1, <1>5 DEF Tick
  <2> QED BY <1>1, <1>2, <1>3, <1>5, <2>1 DEF WindowInv, Elapsed, AcceptedLastSecond
<1>6. CASE age = Second - 1
  <2>1. age' = Second
    BY <1>6 DEF Tick
  <2>2. passed[Second - 1] <= PerSecond
    BY <1>6 DEF WindowInv, Elapsed
  <2>3. passed'[Second - 1] <= PerSecond
    BY <1>1, <1>3, <2>2
  <2> QED BY <1>2, <1>3, <2>1, <2>3 DEF WindowInv, Elapsed, AcceptedLastSecond
<1> QED BY <1>4, <1>5, <1>6

(* A message that is let through is counted, and opens a window if the one *)
(* before it elapsed.                                                      *)
LEMMA AllowWindow ==
    ASSUME TypeOK, WindowInv, Allow
    PROVE  WindowInv'
<1> USE RateLimitAssumption DEF TypeOK
<1> DEFINE ticks == 0 .. Second - 1
<1>1. /\ \A a \in ticks : passed'[a] = passed[a] + 1 /\ passed[a] \in Nat
      /\ age' = WindowAge /\ remaining' = Budget - 1
  BY DEF Allow
<1>2. \A a, b \in ticks : a <= b => passed'[a] <= passed'[b]
  BY <1>1 DEF WindowInv
<1>3. CASE Elapsed
  BY <1>1, <1>2, <1>3 DEF WindowInv, WindowAge, Budget, Elapsed, AcceptedLastSecond
<1>4. CASE ~Elapsed
  <2>1. age' = age /\ age \in ticks /\ remaining' = remaining - 1
    BY <1>1, <1>4 DEF WindowAge, Budget, Elapsed
  <2>2. /\ passed'[age] = passed[age] + 1
        /\ passed'[Second - 1] = passed[Second - 1] + 1
    BY <1>1, <2>1
  <2> QED BY <1>2, <1>4, <2>1, <2>2 DEF WindowInv, Elapsed, AcceptedLastSecond
<1> QED BY <1>3, <1>4

(* A refusal leaves the window as it is: it has not elapsed. *)
LEMMA RefuseWindow ==
    ASSUME TypeOK, WindowInv, Refuse \/ Close
    PROVE  WindowInv'
<1> USE RateLimitAssumption DEF TypeOK
<1>1. ~Elapsed /\ UNCHANGED <<age, remaining, passed>>
  BY DEF Refuse, Close, Budget, WindowAge, Elapsed
<1> QED BY <1>1 DEF WindowInv, Elapsed, AcceptedLastSecond

LEMMA WindowStep == TypeOK /\ WindowInv /\ [HandleNext]_vars => WindowInv'
<1> SUFFICES ASSUME TypeOK, WindowInv, [HandleNext]_vars PROVE WindowInv'
  OBVIOUS
<1>1. CASE UNCHANGED rateVars
  BY <1>1 DEF rateVars, WindowInv, Elapsed, AcceptedLastSecond
<1>2. \/ UNCHANGED rateVars \/ Tick \/ Allow \/ Refuse \/ Close
  BY DEF vars, HandleNext, ServerStarts, ServerExits, StreamAccepted, HeadersRead,
     RegistrationBegins, HandshakeFails, Refused, CutOff, Rejected, KeepAlive,
     Registers, Signals, Joined, Closes, TimePasses
<1> QED BY <1>1, <1>2, TickWindow, AllowWindow, RefuseWindow

(* The inductive invariant of the limiter, the answers it pays for and the *)
(* messages it lets through.                                               *)
THEOREM LimiterInvariant == HandleSpec => []LimiterInv
<1>1. HandleInit => LimiterInv
  BY BudgetInit, WindowInit DEF LimiterInv
<1>2. LimiterInv /\ [HandleNext]_vars => LimiterInv'
  BY BudgetStep, WindowStep DEF LimiterInv, BudgetInv
<1> QED BY <1>1, <1>2, PTL DEF HandleSpec

(* Whatever a client sends, it is answered no more often within a window   *)
(* than the limit and the refusals before the cut-off, over both loops.    *)
THEOREM AnswersAreBounded == HandleSpec => []TextAnswersBounded
<1>1. LimiterInv => TextAnswersBounded
  BY RateLimitAssumption DEF LimiterInv, BudgetInv, TypeOK, TextAnswersBounded
<1> QED BY <1>1, LimiterInvariant, PTL

(* However a client times its messages, at most two windows' worth of them *)
(* get through within a second.                                            *)
THEOREM TwiceTheLimitAtMost == HandleSpec => []AtMostTwiceTheLimit
<1>1. LimiterInv => AtMostTwiceTheLimit
  <2> SUFFICES ASSUME LimiterInv PROVE AcceptedLastSecond <= 2 * PerSecond
    BY DEF AtMostTwiceTheLimit
  <2>1. AcceptedLastSecond \in Nat /\ remaining \in 0 .. PerSecond
    BY RateLimitAssumption DEF LimiterInv, BudgetInv, TypeOK, AcceptedLastSecond
  <2> QED BY <2>1, RateLimitAssumption DEF LimiterInv, WindowInv
<1> QED BY <1>1, LimiterInvariant, PTL

(* Who is refused was let through as often as the limit allows within the  *)
(* second before: no message of a client that keeps to it is dropped.      *)
THEOREM RefusalsAreDeserved == HandleSpec => RefusalIsDeserved
<1>1. LimiterInv /\ [HandleNext]_vars
        => [violations' > violations => AcceptedLastSecond >= PerSecond]_rateVars
  <2> SUFFICES ASSUME LimiterInv, HandleNext, violations' > violations
               PROVE  AcceptedLastSecond >= PerSecond
    BY DEF vars
  <2> USE RateLimitAssumption DEF LimiterInv, BudgetInv, TypeOK
  <2>1. Refuse \/ Close
    BY DEF HandleNext, ServerStarts, ServerExits, StreamAccepted, HeadersRead,
       RegistrationBegins, HandshakeFails, Refused, CutOff, Rejected, KeepAlive,
       Registers, Signals, Joined, Closes, TimePasses, rateVars, Tick, Allow
  <2>2. ~Elapsed /\ remaining = 0
    BY <2>1 DEF Refuse, Close, Budget
  <2>3. passed[age] = PerSecond /\ passed[age] <= passed[Second - 1]
    BY <2>2 DEF WindowInv, Elapsed
  <2> QED BY <2>3 DEF AcceptedLastSecond
<1> QED BY <1>1, LimiterInvariant, PTL DEF HandleSpec, RefusalIsDeserved

-----------------------------------------------------------------------------
(* The room's key.  The octet ranges and prefixes of the code are the      *)
(* blocks its comments name.                                               *)
LEMMA PrivateIsLan ==
    ASSUME NEW a, a.octets \in [1 .. 4 -> 0 .. 255]
    PROVE  PrivateV4(a) <=> (LanV4(a) \/ a.octets = <<127, 0, 0, 1>>)
<1> DEFINE x == a.octets[2]
<1>1. x \in 0 .. 255
  OBVIOUS
<1>2. /\ x \div 1 = 168 \div 1 <=> x = 168
      /\ x \div 1 = 254 \div 1 <=> x = 254
  BY <1>1
<1>3. x \div 16 = 16 \div 16 <=> x \in 16 .. 31
  BY <1>1
<1>4. x \div 64 = 64 \div 64 <=> x \in 64 .. 127
  BY <1>1
<1> QED BY <1>2, <1>3, <1>4 DEF PrivateV4, LanV4, InBlock

(* A key that is decided is that of the request whose headers were read,   *)
(* and is held during the handshake only.                                  *)
KeyInv ==
    /\ stage = "handshake" => socket \in Sockets /\ {fly, xff} \subseteq Headers
    /\ key # Absent =>
          stage = "handshake" /\ forwarded = ForwardedFor /\ key = RoomOf(RawIp)

LEMMA KeyStep == KeyInv /\ [HandleNext]_vars => KeyInv'
<1> SUFFICES ASSUME KeyInv, [HandleNext]_vars PROVE KeyInv'
  OBVIOUS
<1> USE DEF KeyInv, keyVars
<1>1. CASE UNCHANGED <<stage, keyVars>>
  BY <1>1 DEF ForwardedFor, RawIp
<1>2. CASE UNCHANGED keyVars /\ stage # "handshake" /\ stage' # "handshake"
  BY <1>2 DEF ForwardedFor, RawIp
<1>3. CASE StreamAccepted
  BY <1>3 DEF StreamAccepted, Request
<1>4. CASE HeadersRead
  <2>1. key = Absent /\ UNCHANGED <<trusted, socket, fly, xff, stage>> /\ stage = "handshake"
    BY <1>4 DEF HeadersRead, Callback, Decide
  <2>2. CASE Callback
    BY <2>1, <2>2 DEF Callback
  <2>3. CASE Decide
    BY <2>1, <2>3 DEF Decide, ForwardedFor, RawIp
  <2> QED BY <1>4, <2>2, <2>3 DEF HeadersRead
<1>5. CASE RegistrationBegins \/ HandshakeFails
  BY <1>5 DEF RegistrationBegins, HandshakeFails, Forget
<1>6. CASE UNCHANGED vars
  BY <1>1, <1>6 DEF vars
<1>7. ASSUME \/ ServerStarts \/ ServerExits \/ Refused \/ CutOff \/ Rejected \/ Registers
             \/ Joined \/ Signals \/ KeepAlive \/ Closes \/ TimePasses
      PROVE  UNCHANGED keyVars /\ stage # "handshake" /\ stage' # "handshake"
  BY <1>7 DEF ServerStarts, ServerExits, Refused, CutOff, Rejected, Registers, Joined,
     Signals, KeepAlive, Closes, TimePasses, InLoop, handshakeVars
<1> QED BY <1>2, <1>3, <1>4, <1>5, <1>6, <1>7 DEF HandleNext

(* The key of a request is a function of it, which the two theorems below  *)
(* need to speak of the functions.                                         *)
LEMMA KeyInvariant == HandleSpec => []KeyInv
<1>1. HandleInit => KeyInv
  BY DEF HandleInit, NoRequest, KeyInv
<1> QED BY <1>1, KeyStep, PTL DEF HandleSpec

(* A client outside every private block, and not a configured proxy, is in *)
(* the room of its own address, whatever headers it sends.                 *)
THEOREM OutsidersStayOutside == HandleSpec => []OutsiderKeepsOwnRoom
<1>1. KeyInv => OutsiderKeepsOwnRoom
  <2> SUFFICES ASSUME KeyInv, key # Absent, socket.kind = "v4", ~LanV4(socket),
                      ~Loopback(socket), socket \notin trusted
               PROVE  key = socket
    BY DEF OutsiderKeepsOwnRoom
  <2>1. key = RoomOf(RawIp) /\ socket.octets \in [1 .. 4 -> 0 .. 255]
    BY AddressAssumption DEF KeyInv
  <2>2. ~PrivateV4(socket)
    BY <2>1, PrivateIsLan DEF Loopback
  <2>3. ~IsPrivate(socket)
    BY <2>2 DEF IsPrivate
  <2>4. RawIp = socket
    BY <2>3 DEF RawIp
  <2> QED BY <2>1, <2>3, <2>4 DEF RoomOf
<1> QED BY <1>1, KeyInvariant, PTL

(* Every address of a private block is in the local room: a socket without *)
(* headers, and what a configured proxy reports.                           *)
THEOREM LanIsOneRoom == HandleSpec => []LanSharesOneRoom
<1>1. KeyInv => LanSharesOneRoom
  <2> SUFFICES ASSUME KeyInv, key # Absent, NEW a, a.kind = "v4",
                      LanV4(a) \/ a.octets = <<127, 0, 0, 1>>,
                      \/ ForwardedFor = Absent /\ a = socket
                      \/ socket \in trusted /\ a = ForwardedFor
               PROVE  key = Local
    BY DEF LanSharesOneRoom
  <2>1. key = RoomOf(RawIp) /\ forwarded = ForwardedFor
    BY DEF KeyInv
  <2>2. a \in Sockets \cup Headers
    BY AddressAssumption DEF KeyInv, ForwardedFor
  <2>3. IsPrivate(a)
    BY <2>2, AddressAssumption, PrivateIsLan DEF IsPrivate
  <2>4. RawIp = a
    BY <2>1 DEF RawIp, Address, Absent
  <2> QED BY <2>1, <2>3, <2>4 DEF RoomOf
<1> QED BY <1>1, KeyInvariant, PTL

-----------------------------------------------------------------------------
(* Induction, for sets of numbers: that the naturals are well-founded is   *)
(* all that is taken from the library.                                     *)
Less == OpToRel(<, Nat)

LEMMA LessPairs == \A i, j \in Nat : i < j => <<i, j>> \in Less
  BY Zenon DEF Less, OpToRel

LEMMA LeastExists ==
    ASSUME NEW S, S \subseteq Nat, S # {}
    PROVE  \E m \in S : \A n \in S : m <= n
<1>1. IsWellFoundedOn(Less, Nat)
  BY NatLessThanWellFounded DEF Less
<1>2. PICK m \in S : \A n \in S : <<n, m>> \notin Less
  BY <1>1, WFMin, Zenon
<1>3. \A n \in S : ~ (n < m)
  BY <1>2, LessPairs
<1> QED BY <1>3

LEMMA UpTo ==
    ASSUME NEW n \in Nat, NEW S, 0 \in S, \A k \in 0 .. n - 1 : k \in S => k + 1 \in S
    PROVE  0 .. n \subseteq S
<1> DEFINE Missing == {k \in 0 .. n : k \notin S}
<1>1. SUFFICES ASSUME Missing # {} PROVE FALSE
  OBVIOUS
<1>2. PICK b \in Missing : \A k \in Missing : b <= k
  <2>1. Missing \subseteq Nat
    OBVIOUS
  <2> HIDE DEF Missing
  <2> QED BY <1>1, <2>1, LeastExists
<1>3. b # 0 /\ b - 1 \in 0 .. n - 1
  BY <1>2
<1>4. b - 1 \in S
  BY <1>2, <1>3
<1> QED BY <1>2, <1>3, <1>4

-----------------------------------------------------------------------------
(* The server is the one the settings it was started with describe.        *)
ServerInv ==
    server # NoServer => server = [host |-> Host, port |-> Port,
                                   trusted |-> TrustedProxies, max |-> MaxConnections]

LEMMA ServerStep == ServerInv /\ [HandleNext]_vars => ServerInv'
<1> SUFFICES ASSUME ServerInv, [HandleNext]_vars PROVE ServerInv'
  OBVIOUS
<1>1. CASE UNCHANGED startVars
  BY <1>1 DEF ServerInv, startVars, Host, Port, TrustedProxies, MaxConnections, GetArg
<1>2. CASE ServerStarts
  BY <1>2 DEF ServerStarts, Listen, ServerInv, Host, Port, TrustedProxies,
     MaxConnections, GetArg
<1>3. CASE ServerExits \/ StreamAccepted
  BY <1>3 DEF ServerExits, StreamAccepted, ServerInv
<1>4. CASE UNCHANGED vars
  BY <1>1, <1>4 DEF vars
<1>5. ASSUME \/ HeadersRead \/ RegistrationBegins \/ HandshakeFails \/ Refused \/ CutOff
             \/ Rejected \/ Registers \/ Joined \/ Signals \/ KeepAlive \/ Closes
             \/ TimePasses
      PROVE  UNCHANGED startVars
  BY <1>5 DEF HeadersRead, RegistrationBegins, HandshakeFails, Forget, Refused, CutOff,
     Rejected, Registers, Joined, Signals, KeepAlive, Closes, TimePasses, handshakeVars
<1> QED BY <1>1, <1>2, <1>3, <1>4, <1>5 DEF HandleNext

(* The host main looks for on the command line is the one a reader sees    *)
(* there: what follows a "--host", and none if nothing does.               *)
LEMMA FirstNamed ==
    ASSUME args \in Seq(STRING \ {Unset}), NEW k
    PROVE  IF Named(k) # {} THEN GetArg(k) \in Named(k) /\ GetArg(k) # Unset
                            ELSE GetArg(k) = Unset
<1> DEFINE at == {i \in DOMAIN args : args[i] = k}
<1>1. Len(args) \in Nat /\ DOMAIN args = 1 .. Len(args)
  OBVIOUS
<1>2. ASSUME at # {}
      PROVE  Min(at) \in at /\ \A i \in at : Min(at) <= i
  <2>1. at \subseteq Nat
    BY <1>1
  <2> HIDE DEF at
  <2>2. \E m \in at : \A i \in at : m <= i
    BY <1>2, <2>1, LeastExists
  <2> QED BY <2>2 DEF Min
<1>3. ASSUME NEW i \in at, i < Len(args)
      PROVE  at # {} /\ Min(at) \in at /\ Min(at) < Len(args)
  <2> HIDE DEF at
  <2>1. at # {} /\ Min(at) \in at /\ Min(at) <= i
    BY <1>2, <1>3
  <2>2. at \subseteq Nat
    BY <1>1 DEF at
  <2>3. Min(at) \in Nat /\ i \in Nat /\ Len(args) \in Nat
    BY <1>1, <2>1, <2>2
  <2>4. Min(at) < Len(args)
    BY <1>3, <2>1, <2>3
  <2> QED BY <2>1, <2>4
<1>4. Named(k) # {} <=> at # {} /\ Min(at) < Len(args)
  <2>1. Named(k) # {} => \E i \in at : i < Len(args)
    BY DEF Named
  <2>2. ASSUME at # {}, Min(at) < Len(args)
        PROVE  args[Min(at) + 1] \in Named(k)
    BY <1>2, <2>2 DEF Named
  <2> HIDE DEF at
  <2> QED BY <1>3, <2>1, <2>2
<1>5. ASSUME at # {}, Min(at) < Len(args)
      PROVE  args[Min(at) + 1] \in Named(k) /\ args[Min(at) + 1] # Unset
  <2>1. Min(at) + 1 \in DOMAIN args
    BY <1>1, <1>2, <1>5
  <2> QED BY <1>2, <1>5, <2>1 DEF Named
<1>6. GetArg(k) = IF at # {} /\ Min(at) < Len(args) THEN args[Min(at) + 1] ELSE Unset
  BY DEF GetArg
<1> HIDE DEF at
<1> QED BY <1>4, <1>5, <1>6

(* Who names a host gets that host, or no server.                          *)
THEOREM ListensOnlyWhereAsked == HandleSpec => []ListensWhereAsked
<1> DEFINE ArgsInv == args \in ArgLists \cup {<<>>}
<1>1. HandleInit => ServerInv /\ ArgsInv
  BY DEF HandleInit, StartInit, ServerInv
<1>2. ArgsInv /\ [HandleNext]_vars => ArgsInv'
  <2>1. [HandleNext]_vars => UNCHANGED startVars \/ UNCHANGED args \/ args' = <<>>
    BY DEF vars, HandleNext, ServerStarts, Listen, ServerExits,
     StreamAccepted, HeadersRead, RegistrationBegins, HandshakeFails, Forget, Refused,
     CutOff, Rejected, Registers, Joined, Signals, KeepAlive, Closes, TimePasses,
     handshakeVars
  <2> QED BY <2>1 DEF startVars
<1>3. ServerInv /\ ArgsInv => ListensWhereAsked
  <2> SUFFICES ASSUME ServerInv, ArgsInv, server # NoServer
               PROVE  IF Named("--host") # {} THEN server.host \in Named("--host")
                      ELSE env.host # Unset => server.host = env.host
    BY DEF ListensWhereAsked
  <2>1. args \in Seq(STRING \ {Unset})
    <3>1. \A S : <<>> \in Seq(S)
      OBVIOUS
    <3> QED BY <3>1, ArgsAssumption, Zenon
  <2>2. server.host = Host
    BY DEF ServerInv
  <2> QED BY <2>1, <2>2, FirstNamed DEF Host, OrElse
<1> QED BY <1>1, <1>2, <1>3, ServerStep, PTL DEF HandleSpec

-----------------------------------------------------------------------------
(* Peer codes.  The recursion of Kept is well defined ...                  *)
LEMMA KeptExists ==
    ASSUME NEW text \in Seq(Characters)
    PROVE  \E f : f = [n \in 0 .. Len(text) |->
               IF n = 0 THEN <<>>
               ELSE IF text[n] = Hyphen THEN f[n - 1] ELSE Append(f[n - 1], text[n])]
<1> DEFINE Value(f, n) == IF n = 0 THEN <<>>
                          ELSE IF text[n] = Hyphen THEN f[n - 1]
                          ELSE Append(f[n - 1], text[n])
           Rec(f, k) == f = [n \in 0 .. k |-> Value(f, n)]
           Defined == {k \in 0 .. Len(text) : \E f : Rec(f, k)}
<1>1. Len(text) \in Nat
  OBVIOUS
<1>2. 0 \in Defined
  <2>1. Rec([n \in 0 .. 0 |-> <<>>], 0)
    OBVIOUS
  <2> HIDE DEF Rec
  <2> QED BY <1>1, <2>1
<1>3. ASSUME NEW k \in 0 .. Len(text) - 1, k \in Defined
      PROVE  k + 1 \in Defined
  <2>1. PICK g : Rec(g, k)
    BY <1>3
  <2>2. \A n \in 0 .. k : g[n] = Value(g, n)
    BY <2>1
  <2> DEFINE h == [n \in 0 .. k + 1 |-> IF n = k + 1 THEN Value(g, n) ELSE g[n]]
  <2>3. \A n \in 0 .. k : h[n] = g[n]
    BY <1>1
  <2>4. ASSUME NEW n \in 0 .. k + 1
        PROVE  h[n] = Value(h, n)
    <3>1. n = 0 \/ n - 1 \in 0 .. k
      BY <1>1
    <3>2. Value(g, n) = Value(h, n)
      BY <2>3, <3>1
    <3>3. CASE n = k + 1
      BY <3>2, <3>3
    <3>4. CASE n # k + 1
      <4>1. n \in 0 .. k
        BY <1>1, <3>4
      <4> HIDE DEF Value, h
      <4> QED BY <2>2, <2>3, <3>2, <4>1
    <3> QED BY <3>3, <3>4
  <2>5. h = [n \in 0 .. k + 1 |-> h[n]]
    OBVIOUS
  <2>6. Rec(h, k + 1)
    <3> HIDE DEF h, Value
    <3> QED BY <2>4, <2>5
  <2> HIDE DEF Rec
  <2> QED BY <1>1, <2>6
<1>4. Len(text) \in Defined
  <2> HIDE DEF Defined
  <2>1. 0 .. Len(text) \subseteq Defined
    BY <1>1, <1>2, <1>3, UpTo
  <2> QED BY <1>1, <2>1
<1> QED BY <1>4

(* ... so it may be unrolled.                                              *)
LEMMA KeptStep ==
    ASSUME NEW text \in Seq(Characters)
    PROVE  \A n \in 0 .. Len(text) :
              Kept(text)[n] = IF n = 0 THEN <<>>
                              ELSE IF text[n] = Hyphen THEN Kept(text)[n - 1]
                              ELSE Append(Kept(text)[n - 1], text[n])
<1> DEFINE k == Kept(text)
<1>1. k = [n \in 0 .. Len(text) |->
              IF n = 0 THEN <<>>
              ELSE IF text[n] = Hyphen THEN k[n - 1] ELSE Append(k[n - 1], text[n])]
  BY KeptExists, Zenon DEF Kept
<1> HIDE DEF k
<1> QED BY <1>1 DEF k

(* Facts about sequences. *)
LEMMA Appended ==
    ASSUME NEW S, NEW s \in Seq(S), NEW e \in S, NEW h, h = s \o <<e>>
    PROVE  /\ h \in Seq(S) /\ Len(h) = Len(s) + 1
           /\ \A n \in 1 .. Len(s) : h[n] = s[n]
           /\ h[Len(s) + 1] = e
<1>1. h = Append(s, e)
  OBVIOUS
<1> QED BY <1>1

LEMMA Concatenation ==
    ASSUME NEW S, NEW s \in Seq(S), NEW t \in Seq(S), NEW h, h = s \o t
    PROVE  /\ h \in Seq(S) /\ Len(h) = Len(s) + Len(t)
           /\ \A n \in 1 .. Len(s) : h[n] = s[n]
           /\ \A n \in 1 .. Len(t) : h[Len(s) + n] = t[n]
  OBVIOUS

(* What a hyphen more does to a text.                                      *)
LEMMA HyphenatedText ==
    ASSUME NEW s \in Seq(Characters), NEW i \in 0 .. Len(s)
    PROVE  \E h : /\ h = Hyphenated(s, i)
                  /\ h \in Seq(Characters) /\ Len(h) = Len(s) + 1
                  /\ \A n \in 1 .. i : h[n] = s[n]
                  /\ h[i + 1] = Hyphen
                  /\ \A n \in i + 1 .. Len(s) : h[n + 1] = s[n]
<1>1. PICK front : front = SubSeq(s, 1, i)
  OBVIOUS
<1>2. PICK back : back = SubSeq(s, i + 1, Len(s))
  OBVIOUS
<1>3. PICK start : start = front \o <<Hyphen>>
  OBVIOUS
<1>4. PICK h : h = start \o back
  OBVIOUS
<1>5. /\ front \in Seq(Characters) /\ Len(front) = i
      /\ \A n \in 1 .. i : front[n] = s[n]
  BY <1>1
<1>6. /\ back \in Seq(Characters) /\ Len(back) = Len(s) - i
      /\ \A n \in 1 .. Len(s) - i : back[n] = s[i + n]
  BY <1>2
<1>7. /\ start \in Seq(Characters) /\ Len(start) = i + 1
      /\ \A n \in 1 .. i : start[n] = s[n]
      /\ start[i + 1] = Hyphen
  <2>1. front \in Seq(Characters)
    BY <1>5
  <2>2. /\ start \in Seq(Characters) /\ Len(start) = Len(front) + 1
        /\ \A n \in 1 .. Len(front) : start[n] = front[n]
        /\ start[Len(front) + 1] = Hyphen
    BY <1>3, <2>1, CharactersAssumption, Appended
  <2> QED BY <1>5, <2>2
<1>8. /\ h \in Seq(Characters) /\ Len(h) = Len(start) + Len(back)
      /\ \A n \in 1 .. Len(start) : h[n] = start[n]
      /\ \A n \in 1 .. Len(back) : h[Len(start) + n] = back[n]
  <2>1. start \in Seq(Characters) /\ back \in Seq(Characters)
    BY <1>6, <1>7
  <2> QED BY <1>4, <2>1, Concatenation
<1>9. ASSUME NEW n \in i + 1 .. Len(s)
      PROVE  h[n + 1] = s[n]
  <2>1. n - i \in 1 .. Len(s) - i /\ Len(start) + (n - i) = n + 1 /\ i + (n - i) = n
    BY <1>7
  <2>2. h[n + 1] = back[n - i]
    BY <1>6, <1>8, <2>1
  <2> QED BY <1>6, <2>1, <2>2
<1>10. \A n \in 1 .. i + 1 : h[n] = start[n]
  BY <1>7, <1>8
<1>11. Len(h) = Len(s) + 1
  BY <1>6, <1>7, <1>8
<1>12. (\A n \in 1 .. i : h[n] = s[n]) /\ h[i + 1] = Hyphen
  BY <1>7, <1>10
<1>13. h = Hyphenated(s, i)
  BY <1>1, <1>2, <1>3, <1>4 DEF Hyphenated
<1> QED BY <1>8, <1>9, <1>11, <1>12, <1>13

LEMMA SubSeqGrows ==
    ASSUME NEW S, NEW s \in Seq(S)
    PROVE  /\ SubSeq(s, 1, 0) = <<>>
           /\ SubSeq(s, 1, Len(s)) = s
           /\ \A n \in 0 .. Len(s) - 1 :
                 SubSeq(s, 1, n + 1) = Append(SubSeq(s, 1, n), s[n + 1])
  OBVIOUS

(* What is left has no hyphen.                                             *)
LEMMA StripCleans ==
    ASSUME NEW text \in Seq(Characters)
    PROVE  Strip(text) \in Seq(Characters \ {Hyphen})
<1> DEFINE Clean == {n \in 0 .. Len(text) : Kept(text)[n] \in Seq(Characters \ {Hyphen})}
<1>1. Len(text) \in Nat /\ \A n \in 1 .. Len(text) : text[n] \in Characters
  OBVIOUS
<1>2. 0 \in Clean
  <2>1. Kept(text)[0] = <<>>
    BY <1>1, KeptStep
  <2>2. Kept(text)[0] \in Seq(Characters \ {Hyphen})
    BY <2>1
  <2> QED BY <1>1, <2>2
<1>3. ASSUME NEW n \in 0 .. Len(text) - 1, n \in Clean
      PROVE  n + 1 \in Clean
  <2>1. /\ n + 1 \in 1 .. Len(text) /\ n + 1 \in 0 .. Len(text)
        /\ n + 1 # 0 /\ (n + 1) - 1 = n
    BY <1>1
  <2>2. Kept(text)[n + 1] = IF text[n + 1] = Hyphen THEN Kept(text)[n]
                            ELSE Append(Kept(text)[n], text[n + 1])
    BY <2>1, KeptStep
  <2>3. Kept(text)[n] \in Seq(Characters \ {Hyphen}) /\ text[n + 1] \in Characters
    BY <1>1, <1>3, <2>1
  <2>4. Kept(text)[n + 1] \in Seq(Characters \ {Hyphen})
    BY <2>2, <2>3
  <2> QED BY <2>1, <2>4
<1>4. Len(text) \in Clean
  <2> HIDE DEF Clean
  <2>1. 0 .. Len(text) \subseteq Clean
    BY <1>1, <1>2, <1>3, UpTo
  <2> QED BY <1>1, <2>1
<1> QED BY <1>4 DEF Strip

(* A text without a hyphen is left as it is.                               *)
LEMMA StripOfClean ==
    ASSUME NEW text \in Seq(Characters \ {Hyphen})
    PROVE  Strip(text) = text
<1> DEFINE Same == {n \in 0 .. Len(text) : Kept(text)[n] = SubSeq(text, 1, n)}
<1>1. /\ Len(text) \in Nat /\ text \in Seq(Characters)
      /\ \A n \in 1 .. Len(text) : text[n] # Hyphen
  OBVIOUS
<1>2. 0 \in Same
  <2>1. Kept(text)[0] = <<>>
    BY <1>1, KeptStep
  <2>2. SubSeq(text, 1, 0) = <<>>
    BY <1>1, SubSeqGrows
  <2>3. Kept(text)[0] = SubSeq(text, 1, 0)
    BY <2>1, <2>2
  <2> QED BY <1>1, <2>3
<1>3. ASSUME NEW n \in 0 .. Len(text) - 1, n \in Same
      PROVE  n + 1 \in Same
  <2>1. /\ n + 1 \in 1 .. Len(text) /\ n + 1 \in 0 .. Len(text)
        /\ n + 1 # 0 /\ (n + 1) - 1 = n
    BY <1>1
  <2>2. Kept(text)[n + 1] = Append(Kept(text)[n], text[n + 1])
    BY <1>1, <2>1, KeptStep
  <2>3. Kept(text)[n + 1] = SubSeq(text, 1, n + 1)
    BY <1>1, <1>3, <2>2, SubSeqGrows
  <2> QED BY <2>1, <2>3
<1>4. Kept(text)[Len(text)] = SubSeq(text, 1, Len(text))
  <2>1. Len(text) \in Same
    <3> HIDE DEF Same
    <3>1. 0 .. Len(text) \subseteq Same
      BY <1>1, <1>2, <1>3, UpTo
    <3> QED BY <1>1, <3>1
  <2> QED BY <2>1
<1> QED BY <1>1, <1>4, SubSeqGrows DEF Strip

(* One more hyphen, wherever it is put, makes no difference.               *)
LEMMA StripHyphenated ==
    ASSUME NEW text \in Seq(Characters), NEW i \in 0 .. Len(text)
    PROVE  Strip(Hyphenated(text, i)) = Strip(text)
<1> DEFINE h == Hyphenated(text, i)
           Same == {n \in 0 .. Len(text) :
                       /\ n <= i => Kept(h)[n] = Kept(text)[n]
                       /\ n >= i => Kept(h)[n + 1] = Kept(text)[n]}
<1>1. /\ Len(text) \in Nat /\ h \in Seq(Characters) /\ Len(h) = Len(text) + 1
      /\ \A n \in 1 .. i : h[n] = text[n]
      /\ h[i + 1] = Hyphen
      /\ \A n \in i + 1 .. Len(text) : h[n + 1] = text[n]
  <2>1. \E f : /\ f = h /\ f \in Seq(Characters) /\ Len(f) = Len(text) + 1
               /\ \A n \in 1 .. i : f[n] = text[n]
               /\ f[i + 1] = Hyphen
               /\ \A n \in i + 1 .. Len(text) : f[n + 1] = text[n]
    BY HyphenatedText
  <2> HIDE DEF h
  <2>2. Len(text) \in Nat
    OBVIOUS
  <2> QED BY <2>1, <2>2
<1> HIDE DEF h
<1>2. \A n \in 0 .. Len(text) :
          Kept(text)[n] = IF n = 0 THEN <<>>
                          ELSE IF text[n] = Hyphen THEN Kept(text)[n - 1]
                          ELSE Append(Kept(text)[n - 1], text[n])
  BY KeptStep
<1>3. \A n \in 0 .. Len(text) + 1 :
          Kept(h)[n] = IF n = 0 THEN <<>>
                       ELSE IF h[n] = Hyphen THEN Kept(h)[n - 1]
                       ELSE Append(Kept(h)[n - 1], h[n])
  BY <1>1, KeptStep
<1>4. ASSUME NEW n \in 0 .. Len(text), n <= i => Kept(h)[n] = Kept(text)[n],
             n > i => Kept(h)[n + 1] = Kept(text)[n]
      PROVE  n \in Same
  <2>1. CASE n = i
    <3>1. i + 1 \in 0 .. Len(text) + 1 /\ i + 1 # 0 /\ (i + 1) - 1 = i
      BY <1>1
    <3>2. Kept(h)[i + 1] = Kept(h)[i]
      BY <1>1, <1>3, <3>1
    <3> QED BY <1>4, <2>1, <3>2
  <2>2. CASE n # i
    BY <1>4, <2>2
  <2> QED BY <2>1, <2>2
<1>5. 0 \in Same
  BY <1>1, <1>2, <1>3, <1>4
<1>6. ASSUME NEW n \in 0 .. Len(text) - 1, n \in Same
      PROVE  n + 1 \in Same
  <2>1. CASE n < i
    BY <1>1, <1>2, <1>3, <1>4, <1>6, <2>1
  <2>2. CASE n >= i
    <3>1. /\ n + 1 \in i + 1 .. Len(text) /\ n + 2 \in 0 .. Len(text) + 1
          /\ n + 1 # 0 /\ (n + 1) - 1 = n /\ (n + 2) - 1 = n + 1 /\ n + 2 # 0
          /\ (n + 1) + 1 = n + 2
      BY <1>1, <2>2
    <3>2. h[n + 2] = text[n + 1] /\ Kept(h)[n + 1] = Kept(text)[n]
      BY <1>1, <1>6, <2>2, <3>1
    <3>3. Kept(h)[n + 2] = Kept(text)[n + 1]
      BY <1>2, <1>3, <3>1, <3>2
    <3> QED BY <1>4, <2>2, <3>1, <3>3
  <2> QED BY <2>1, <2>2
<1>7. Len(text) \in Same
  <2> HIDE DEF Same
  <2>1. 0 .. Len(text) \subseteq Same
    BY <1>1, <1>5, <1>6, UpTo
  <2> QED BY <1>1, <2>1
<1> QED BY <1>1, <1>7 DEF Strip, h

(* What is registered is the code the client wrote, read as codes are. *)
CodeInv ==
    stage = "joining" => /\ registeredAs \in Texts
                         /\ peerCode = ValidatePeerCode(registeredAs)
                         /\ peerCode # Invalid

LEMMA CodeStep == CodeInv /\ [HandleNext]_vars => CodeInv'
<1> SUFFICES ASSUME CodeInv, [HandleNext]_vars PROVE CodeInv'
  OBVIOUS
<1>1. CASE Registers
  BY <1>1 DEF Registers, CodeInv
<1>2. CASE stage' # "joining" \/ UNCHANGED <<stage, codeVars>>
  BY <1>2 DEF CodeInv, codeVars
<1>3. CASE UNCHANGED vars
  BY <1>2, <1>3 DEF vars
<1>4. ASSUME \/ ServerStarts \/ ServerExits \/ StreamAccepted \/ HeadersRead
             \/ RegistrationBegins \/ HandshakeFails \/ Refused \/ CutOff \/ Rejected
             \/ Joined \/ Signals \/ KeepAlive \/ Closes \/ TimePasses
      PROVE  stage' # "joining" \/ UNCHANGED <<stage, codeVars>>
  BY <1>4 DEF ServerStarts, ServerExits, StreamAccepted, HeadersRead, RegistrationBegins,
     HandshakeFails, Refused, CutOff, Rejected, Joined, Signals, KeepAlive, Closes,
     TimePasses
<1> QED BY <1>1, <1>2, <1>3, <1>4 DEF HandleNext

(* However long a code, a client is reached by it and by the text it was   *)
(* registered with, one hyphen more anywhere, and by no text that reads as *)
(* another code.                                                           *)
THEOREM AnySpellingReaches == HandleSpec => []ReachedByAnySpelling
<1>1. HandleInit => CodeInv
  BY DEF HandleInit, CodeInv
<1>2. CodeInv => ReachedByAnySpelling
  <2> SUFFICES ASSUME CodeInv, stage = "joining" PROVE ReachedByAnySpelling
    BY DEF ReachedByAnySpelling
  <2>1. /\ registeredAs \in Seq(Characters)
        /\ peerCode = Strip(registeredAs) /\ WellFormed(peerCode)
    BY TextsAssumption DEF CodeInv, ValidatePeerCode
  <2>2. ValidateSignalTarget(peerCode) = peerCode
    <3>1. Strip(peerCode) = peerCode
      BY <2>1, StripCleans, StripOfClean
    <3> QED BY <2>1, <3>1 DEF ValidateSignalTarget
  <2>3. \A i \in 0 .. Len(registeredAs) :
            ValidateSignalTarget(Hyphenated(registeredAs, i)) = peerCode
    BY <2>1, StripHyphenated DEF ValidateSignalTarget
  <2>4. \A text \in Texts :
            ValidateSignalTarget(text) = peerCode => ValidatePeerCode(text) = peerCode
    BY DEF ValidateSignalTarget, ValidatePeerCode
  <2> QED BY <2>2, <2>3, <2>4 DEF ReachedByAnySpelling
<1> QED BY <1>1, <1>2, CodeStep, PTL DEF HandleSpec
=============================================================================
