-------------------------- MODULE HandleConnection --------------------------
(***************************************************************************)
(* The server from its start to the end of one connection, frame by frame: *)
(* main (StartUp), the handshake (RoomKey), then the registration loop and *)
(* the message loop of handle_connection in signal/src/server.rs, which    *)
(* share one rate limiter (RateLimit) and read peer codes (PeerCode).  The *)
(* room table is elsewhere (SignalServer); here it answers as it may.      *)
(*                                                                         *)
(* Frames without an effect on this state are left out: pings and pongs of *)
(* the protocol, and binary frames, which are answered with an error and   *)
(* do not pass the limiter.  Time is that of RateLimit; the idle timeout   *)
(* is much longer than its second, so it may strike at any tick.  What a   *)
(* later stage does not read is forgotten when it begins.                  *)
(***************************************************************************)
EXTENDS RateLimit, StartUp, PeerCode, RoomKey

CONSTANT
    Texts       \* what clients write for a peer code

ASSUME TextsAssumption == \A text \in Texts : text \in Seq(Characters)

VARIABLES
    stage,              \* where the server, then the connection's task, stands
    registeredAs,       \* the code as the client wrote it
    peerCode,           \* the code as it is read
    answered            \* text messages answered in the limiter's window

codeVars == <<registeredAs, peerCode>>
vars == <<rateVars, startVars, stage, keyVars, codeVars, answered>>

Stages == {"starting", "exited", "listening", "handshake", "registering",
           "joining", "serving", "closed"}

HandleInit ==
    /\ Init
    /\ StartInit
    /\ stage = "starting"
    /\ NoRequest
    /\ registeredAs = <<>>
    /\ peerCode = Invalid
    /\ answered = 0

-----------------------------------------------------------------------------
ServerStarts ==
    /\ stage = "starting"
    /\ Listen
    /\ stage' = "listening"
    /\ UNCHANGED <<rateVars, keyVars, codeVars, answered>>

(* The address does not parse, or cannot be bound. *)
ServerExits ==
    /\ stage \in {"starting", "listening"}
    /\ stage = "starting" => Host \notin Hosts
    /\ stage' = "exited"
    /\ args' = <<>>
    /\ env' = NoEnvironment
    /\ server' = NoServer
    /\ UNCHANGED <<rateVars, keyVars, codeVars, answered>>

(* A connection with a slot (ConnectionSlots) is handed the proxy list. *)
StreamAccepted ==
    /\ stage = "listening"
    /\ Request(server.trusted)
    /\ stage' = "handshake"
    /\ args' = <<>>
    /\ env' = NoEnvironment
    /\ server' = NoServer
    /\ UNCHANGED <<rateVars, codeVars, answered>>

HeadersRead ==
    /\ stage = "handshake"
    /\ Callback \/ Decide
    /\ UNCHANGED <<rateVars, startVars, stage, codeVars, answered>>

Forget ==
    /\ trusted' = {}
    /\ socket' = Absent
    /\ fly' = Absent
    /\ xff' = Absent
    /\ forwarded' = Absent
    /\ key' = Absent
    /\ UNCHANGED startVars

(* RateLimit::new(), and the registration loop begins. *)
RegistrationBegins ==
    /\ stage = "handshake"
    /\ key # Absent
    /\ stage' = "registering"
    /\ Forget
    /\ UNCHANGED <<rateVars, codeVars, answered>>

(* No upgrade was asked for (the answer is 200), or the handshake failed. *)
HandshakeFails ==
    /\ stage = "handshake"
    /\ key = Absent
    /\ stage' = "closed"
    /\ Forget
    /\ UNCHANGED <<rateVars, codeVars, answered>>

handshakeVars == <<startVars, keyVars>>

-----------------------------------------------------------------------------
(* A text message, in either loop: the limiter comes first. *)
InLoop == stage \in {"registering", "serving"}

Answers(n) == answered' = (IF Elapsed THEN 0 ELSE answered) + n

(* "rate limited", and the message is dropped unread. *)
Refused ==
    /\ InLoop
    /\ Refuse
    /\ Answers(1)
    /\ UNCHANGED <<handshakeVars, stage, codeVars>>

(* Too many in a row: the loop is left without a word. *)
CutOff ==
    /\ InLoop
    /\ Close
    /\ Answers(0)
    /\ stage' = "closed"
    /\ UNCHANGED <<handshakeVars, codeVars>>

(* What each loop answers with an error and goes on: malformed JSON in both;   *)
(* before registration anything but a register, and a device name too long;    *)
(* after it, a second register.                                                *)
Rejected ==
    /\ InLoop
    /\ Allow
    /\ Answers(1)
    /\ UNCHANGED <<handshakeVars, stage, codeVars>>

(* The register that ends the loop; an invalid code ends the connection.   *)
Registers ==
    /\ stage = "registering"
    /\ Allow
    /\ \E text \in Texts :
          LET read == ValidatePeerCode(text)
          IN  IF read # Invalid
              THEN /\ stage' = "joining"
                   /\ registeredAs' = text
                   /\ peerCode' = read
                   /\ Answers(0)
              ELSE /\ stage' = "closed"
                   /\ Answers(1)
                   /\ UNCHANGED codeVars
    /\ UNCHANGED handshakeVars

(* With a limiter of its own for the message loop. *)
BadJoined ==
    /\ stage = "joining"
    /\ stage' \in {"serving", "closed"}
    /\ answered' = answered + 1
    /\ registeredAs' = <<>>
    /\ remaining' = PerSecond
    /\ UNCHANGED <<age, violations, open, passed>>
    /\ UNCHANGED <<handshakeVars, peerCode>>

(* add_peer: the list of peers, or a refusal that ends the connection. *)
Joined ==
    /\ stage = "joining"
    /\ stage' \in {"serving", "closed"}
    /\ answered' = answered + 1
    /\ registeredAs' = <<>>
    /\ UNCHANGED <<rateVars, handshakeVars, peerCode>>

-----------------------------------------------------------------------------
(* Signal and ManualSignal: relayed without an answer, or answered with an *)
(* error when the target is no code, is not found, found twice, or gone.   *)
Signals ==
    /\ stage = "serving"
    /\ Allow
    /\ \E text \in Texts, relayed \in BOOLEAN :
          /\ relayed => ValidateSignalTarget(text) # Invalid
          /\ Answers(IF relayed THEN 0 ELSE 1)
    /\ UNCHANGED <<handshakeVars, stage, codeVars>>

(* Ping: nothing but the limiter's count. *)
KeepAlive ==
    /\ stage = "serving"
    /\ Allow
    /\ Answers(0)
    /\ UNCHANGED <<handshakeVars, stage, codeVars>>

(* A close frame, the end of the stream, an error of the WebSocket layer   *)
(* (a message above MAX_MESSAGE_BYTES is one: ws_config refuses it before  *)
(* validate_message_size sees it), or, while serving, IDLE_TIMEOUT.        *)
Closes ==
    /\ InLoop
    /\ stage' = "closed"
    /\ UNCHANGED <<rateVars, handshakeVars, codeVars, answered>>

TimePasses ==
    /\ stage \in {"registering", "joining", "serving"}
    /\ Tick
    /\ UNCHANGED <<handshakeVars, stage, codeVars, answered>>

HandleNext ==
    \/ ServerStarts
    \/ ServerExits
    \/ StreamAccepted
    \/ HeadersRead
    \/ RegistrationBegins
    \/ HandshakeFails
    \/ Refused
    \/ CutOff
    \/ Rejected
    \/ Registers
    \/ Joined
    \/ Signals
    \/ KeepAlive
    \/ Closes
    \/ TimePasses

HandleSpec == HandleInit /\ [][HandleNext]_vars

-----------------------------------------------------------------------------
(* What the limiter's fields say of the answers given in its window, those *)
(* that end the registration included: each took a message of the budget,  *)
(* or was a refusal.  Inductive.                                           *)
BudgetInv ==
    /\ TypeOK
    /\ stage \in Stages
    /\ answered \in Nat
    /\ violations > 0 => remaining = 0
    /\ open <=> violations < CloseThreshold
    /\ ~open => stage = "closed"
    /\ answered + (IF stage = "joining" THEN 1 ELSE 0)
         <= PerSecond - remaining + violations - (IF open THEN 0 ELSE 1)

LimiterInv == BudgetInv /\ WindowInv

(* Whatever a client sends in text, before and after it registers, it is   *)
(* answered no more often within one window than the limit and the refusals*)
(* before the cut-off: the limiter is one for both loops, and registering  *)
(* does not renew it.                                                      *)
TextAnswersBounded == answered <= PerSecond + CloseThreshold - 1

(* A client is reached by its code however either side hyphenates it, and  *)
(* by no other: registration and signals, validated by two functions, read *)
(* a code alike.                                                           *)
Hyphenated(text, i) == SubSeq(text, 1, i) \o <<Hyphen>> \o SubSeq(text, i + 1, Len(text))

ReachedByAnySpelling ==
    stage = "joining" =>
        /\ ValidateSignalTarget(peerCode) = peerCode
        /\ \A i \in 0 .. Len(registeredAs) :
              ValidateSignalTarget(Hyphenated(registeredAs, i)) = peerCode
        /\ \A text \in Texts :
              ValidateSignalTarget(text) = peerCode => ValidatePeerCode(text) = peerCode
=============================================================================
