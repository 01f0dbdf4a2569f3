--------------------------- MODULE TransferPanel ---------------------------
(***************************************************************************)
(* The panel that shows a transfer: handleReceiveProgress in               *)
(* web/src/components/peer-connection.ts, with transferTerminal, and the   *)
(* timers that clear the panel.  Sessions (ClientSession) are reduced to   *)
(* what the panel depends on: whether there is a connection, over which    *)
(* kind of transport, and how it ends.                                     *)
(*                                                                         *)
(* The transfers are the SDK's; it reports on a transfer while it runs,    *)
(* once when it ends, and late (docs/CHANGELOG.md:34).  A service that was *)
(* disconnected reports nothing; a transport whose session was merely      *)
(* reset goes on.  One that is connected but not yet shown is left out.    *)
(***************************************************************************)
EXTENDS Naturals, Sequences

CONSTANTS
    MaxGen,         \* bound on sessions
    MaxTransfers    \* bound on transfers

ASSUME PanelAssumption == MaxGen \in Nat \ {0} /\ MaxTransfers \in Nat \ {0}

VARIABLES
    gen,                \* the session's generation
    connected,          \* over "rtc" or "direct", or "none"
    serviceGeneration,
    transferTerminal,
    transferProgress,   \* what the panel shows: a report, or Nothing
    timers,             \* transfers whose end has a timer to clear the panel
    live,               \* transports that may still report: [gen, kind]
    transfers           \* history: each on its transport, ended or not

vars == <<gen, connected, serviceGeneration, transferTerminal, transferProgress,
          timers, live, transfers>>

Nothing == [transfer |-> 0, status |-> "none"]
Terminal == {"completed", "canceled", "error"}

Init ==
    /\ gen = 1
    /\ connected = "none"
    /\ serviceGeneration = 1
    /\ transferTerminal = FALSE
    /\ transferProgress = Nothing
    /\ timers = {}
    /\ live = {}
    /\ transfers = <<>>

-----------------------------------------------------------------------------
(* A session is connected.  A WebRTC service is made for it, of its        *)
(* generation, and the one before is disconnected.                         *)
Connect(kind) ==
    /\ connected = "none"
    /\ gen < MaxGen
    /\ connected' = kind
    /\ live' = [gen : {gen}, kind : {kind}] \cup
                  (IF kind = "rtc" THEN {t \in live : t.kind # "rtc"} ELSE live)
    /\ serviceGeneration' = IF kind = "rtc" THEN gen ELSE serviceGeneration
    /\ UNCHANGED <<gen, transferTerminal, transferProgress, timers, transfers>>

(* resetSession clears the panel; nothing clears the timers. *)
ResetSession ==
    /\ gen' = gen + 1
    /\ connected' = "none"
    /\ transferProgress' = Nothing
    /\ UNCHANGED <<serviceGeneration, timers, transfers>>

(* disconnect, and a WebRTC connection that ends: the service is disconnected; *)
(* by the user a direct transport too, the session's or one of an earlier      *)
(* session that is still referred to (HungUp in PeerConnection says which).    *)
Disconnect ==
    /\ connected # "none"
    /\ ResetSession
    /\ transferTerminal' = FALSE
    /\ live' \in SUBSET {t \in live : t.kind = "direct"}

ConnectionEnds ==
    /\ connected = "rtc"
    /\ ResetSession
    /\ transferTerminal' = FALSE
    /\ live' = {t \in live : t.kind = "direct"}

(* An error of any transport, a WebTransport that closes, or, before it is     *)
(* connected, the decline of a session: a reset, no more.                      *)
SessionFails ==
    /\ gen < MaxGen
    /\ ResetSession
    /\ UNCHANGED <<transferTerminal, live>>

-----------------------------------------------------------------------------
BadHandleWithoutFlag(i, status) ==
    IF serviceGeneration = gen
    THEN /\ transferProgress' = IF status = "error" THEN Nothing
                                ELSE [transfer |-> i, status |-> status]
         /\ transferTerminal' = (status \in Terminal)
         /\ timers' = timers \cup (IF status \in {"completed", "canceled"} THEN {i} ELSE {})
    ELSE UNCHANGED <<transferProgress, transferTerminal, timers>>

BadHandleWithoutTimer(i, status) ==
    IF serviceGeneration = gen /\ ~transferTerminal
    THEN /\ transferProgress' = IF status = "error" THEN Nothing
                                ELSE [transfer |-> i, status |-> status]
         /\ transferTerminal' = (status \in Terminal)
         /\ timers' = timers \cup (IF status = "completed" THEN {i} ELSE {})
    ELSE UNCHANGED <<transferProgress, transferTerminal, timers>>

(* handleReceiveProgress *)
HandleReceiveProgress(i, status) ==
    IF serviceGeneration = gen /\ ~transferTerminal
    THEN /\ transferProgress' = IF status = "error" THEN Nothing
                                ELSE [transfer |-> i, status |-> status]
         /\ transferTerminal' = (status \in Terminal)
         /\ timers' = timers \cup (IF status \in {"completed", "canceled"} THEN {i} ELSE {})
    ELSE UNCHANGED <<transferProgress, transferTerminal, timers>>

(* The SDK begins a transfer over the connection ... *)
TransferBegins ==
    /\ connected # "none"
    /\ Len(transfers) < MaxTransfers
    /\ transfers' = Append(transfers, [gen |-> gen, kind |-> connected, over |-> FALSE])
    /\ HandleReceiveProgress(Len(transfers) + 1, "receiving")
    /\ UNCHANGED <<gen, connected, serviceGeneration, live>>

MayReport(i) == [gen |-> transfers[i].gen, kind |-> transfers[i].kind] \in live

(* ... reports that it goes on, also when it is over: a late report ... *)
TransferProgresses(i) ==
    /\ MayReport(i)
    /\ HandleReceiveProgress(i, "receiving")
    /\ UNCHANGED <<gen, connected, serviceGeneration, live, transfers>>

(* ... and how it ends. *)
TransferEnds(i) ==
    /\ MayReport(i)
    /\ ~transfers[i].over
    /\ \E status \in Terminal : HandleReceiveProgress(i, status)
    /\ transfers' = [transfers EXCEPT ![i].over = TRUE]
    /\ UNCHANGED <<gen, connected, serviceGeneration, live>>

(* setTimeout: 3 s after a completion, 2 s after a cancel. *)
TimerFires(i) ==
    /\ i \in timers
    /\ timers' = timers \ {i}
    /\ transferProgress' = Nothing
    /\ UNCHANGED <<gen, connected, serviceGeneration, transferTerminal, live, transfers>>

Next ==
    \/ \E kind \in {"rtc", "direct"} : Connect(kind)
    \/ Disconnect
    \/ ConnectionEnds
    \/ SessionFails
    \/ TransferBegins
    \/ \E i \in DOMAIN transfers : TransferProgresses(i) \/ TransferEnds(i)
    \/ \E i \in 1 .. MaxTransfers : TimerFires(i)

Spec == Init /\ [][Next]_vars

(* The browser runs the timers that were set. *)
FairSpec == Spec /\ \A i \in 1 .. MaxTransfers : WF_vars(TimerFires(i))

-----------------------------------------------------------------------------
(* transferTerminal keeps the late progress of a transfer from overwriting *)
(* its end: while its session lasts, the panel shows no transfer as running*)
(* that the user was shown the end of.                                     *)
EndIsFinal ==
    transferProgress # Nothing =>
        LET t == transfers[transferProgress.transfer]
        IN  t.gen = gen /\ t.over => transferProgress.status \in Terminal

(* An ended transfer leaves the panel, whatever arrives meanwhile. *)
EndIsCleared ==
    \A i \in 1 .. MaxTransfers :
        transferProgress.transfer = i /\ transferProgress.status \in Terminal
            ~> transferProgress.transfer # i

(* What handleReceiveProgress says of its last branch ("reset terminal flag*)
(* for new transfer"): the progress of a new transfer is shown, at least in*)
(* a WebRTC session, whose service is judged by its own generation.        *)
NewTransferIsShown ==
    [][TransferBegins /\ connected = "rtc" => transferProgress'.transfer = Len(transfers')]_vars
=============================================================================
