------------------------ MODULE TransferPanelProofs ------------------------
(***************************************************************************)
(* Proof that the panel never shows an ended transfer as running, for any  *)
(* number of sessions and transfers.  Late reports of this session's       *)
(* transfers are kept out by transferTerminal, and reports are handled at  *)
(* all only while the service is of this session: what has to be shown is  *)
(* that the flag stands whenever such a transfer has ended, and that the   *)
(* panel then shows an end.                                                *)
(***************************************************************************)
EXTENDS TransferPanel, TLAPS

Transfer == [gen : Nat, kind : {"rtc", "direct"}, over : BOOLEAN]

PanelTypeOK ==
    /\ gen \in Nat /\ serviceGeneration \in Nat
    /\ connected \in {"rtc", "direct", "none"}
    /\ transferTerminal \in BOOLEAN
    /\ transferProgress \in [transfer : Nat, status : {"none", "receiving"} \cup Terminal]
    /\ transfers \in Seq(Transfer)

(* A session has transfers only once it is connected. *)
TransfersAreOld ==
    \A i \in DOMAIN transfers :
        transfers[i].gen <= gen /\ (connected = "none" => transfers[i].gen < gen)

(* What is shown was reported to this session. *)
ShownIsCurrent ==
    transferProgress # Nothing =>
        transferProgress.transfer \in DOMAIN transfers /\ serviceGeneration = gen

(* The flag stands once a transfer of this session ended where it is heard, *)
(* and nothing is shown as running then.                                   *)
FlagStands ==
    \A i \in DOMAIN transfers :
        transfers[i].gen = gen /\ transfers[i].over /\ serviceGeneration = gen
            => transferTerminal

FlagIsShown ==
    transferTerminal /\ transferProgress # Nothing => transferProgress.status \in Terminal

PanelInv ==
    /\ PanelTypeOK
    /\ TransfersAreOld
    /\ ShownIsCurrent
    /\ FlagStands
    /\ FlagIsShown

-----------------------------------------------------------------------------
LEMMA NothingShown ==
    /\ Nothing \in [transfer : Nat, status : {"none", "receiving"} \cup Terminal]
    /\ "receiving" \notin Terminal
  BY DEF Nothing, Terminal

LEMMA PanelInit == Init => PanelInv
<1> SUFFICES ASSUME Init PROVE PanelInv
  OBVIOUS
<1>1. PanelTypeOK
  <2>1. transferProgress = Nothing
    BY DEF Init
  <2>2. transferProgress \in [transfer : Nat, status : {"none", "receiving"} \cup Terminal]
    BY <2>1, NothingShown, Zenon
  <2>3. transfers \in Seq(Transfer) /\ gen \in Nat /\ serviceGeneration \in Nat
    BY DEF Init
  <2>4. transferTerminal \in BOOLEAN /\ connected \in {"rtc", "direct", "none"}
    BY DEF Init
  <2> QED BY <2>2, <2>3, <2>4 DEF PanelTypeOK
<1>2. TransfersAreOld /\ FlagStands
  BY DEF Init, TransfersAreOld, FlagStands
<1>3. ShownIsCurrent /\ FlagIsShown
  BY DEF Init, ShownIsCurrent, FlagIsShown
<1> QED BY <1>1, <1>2, <1>3 DEF PanelInv

(* A report is ignored, or it is what the panel and the flag then say. *)
LEMMA ReportHandled ==
    ASSUME PanelTypeOK, NEW i \in Nat, NEW status \in {"receiving"} \cup Terminal,
           HandleReceiveProgress(i, status)
    PROVE  \/ /\ serviceGeneration # gen \/ transferTerminal
              /\ UNCHANGED <<transferProgress, transferTerminal>>
           \/ /\ serviceGeneration = gen /\ ~transferTerminal
              /\ transferTerminal' \in BOOLEAN
              /\ transferTerminal' <=> status \in Terminal
              /\ transferProgress' \in
                   [transfer : Nat, status : {"none", "receiving"} \cup Terminal]
              /\ \/ transferProgress' = Nothing
                 \/ transferProgress'.transfer = i /\ transferProgress'.status = status
<1>1. CASE serviceGeneration = gen /\ ~transferTerminal
  <2>1. transferTerminal' = (status \in Terminal)
    BY <1>1, Zenon DEF HandleReceiveProgress
  <2>2. transferProgress' \in {Nothing, [transfer |-> i, status |-> status]}
    BY <1>1 DEF HandleReceiveProgress
  <2>3. [transfer |-> i, status |-> status] \in
           [transfer : Nat, status : {"none", "receiving"} \cup Terminal]
    OBVIOUS
  <2>4. transferTerminal' \in BOOLEAN /\ (transferTerminal' <=> status \in Terminal)
    <3>1. CASE status \in Terminal
      <4>1. transferTerminal' = TRUE
        BY <2>1, <3>1, Zenon
      <4> QED BY <3>1, <4>1
    <3>2. CASE status \notin Terminal
      <4>1. (status \in Terminal) = FALSE
        BY <3>2
      <4>2. transferTerminal' = FALSE
        BY <2>1, <4>1
      <4> QED BY <3>2, <4>2
    <3> QED BY <3>1, <3>2
  <2>5. CASE transferProgress' = Nothing
    BY <1>1, <2>4, <2>5, NothingShown, Zenon
  <2>6. CASE transferProgress' = [transfer |-> i, status |-> status]
    <3>1. transferProgress'.transfer = i /\ transferProgress'.status = status
      BY <2>6
    <3> QED BY <1>1, <2>3, <2>4, <2>6, <3>1, Zenon
  <2> QED BY <2>2, <2>5, <2>6, Zenon
<1>2. CASE ~ (serviceGeneration = gen /\ ~transferTerminal)
  BY <1>2, Zenon DEF HandleReceiveProgress, PanelTypeOK
<1> QED BY <1>1, <1>2

LEMMA ReportInv ==
    ASSUME PanelInv, NEW i \in DOMAIN transfers,
           NEW status \in {"receiving"} \cup Terminal, HandleReceiveProgress(i, status),
           \/ status = "receiving" /\ transfers' = transfers
           \/ status \in Terminal /\ transfers' = [transfers EXCEPT ![i].over = TRUE],
           UNCHANGED <<gen, connected, serviceGeneration>>
    PROVE  PanelInv'
<1> USE DEF PanelInv
<1>1. i \in Nat /\ transfers[i] \in Transfer /\ transfers \in Seq(Transfer)
  BY DEF PanelTypeOK
<1>2. /\ transfers' \in Seq(Transfer) /\ DOMAIN transfers' = DOMAIN transfers
      /\ \A j \in DOMAIN transfers : transfers'[j].gen = transfers[j].gen
      /\ \A j \in DOMAIN transfers :
            transfers'[j].over => transfers[j].over \/ status \in Terminal
  <2>1. CASE transfers' = transfers
    BY <1>1, <2>1
  <2>2. CASE status \in Terminal /\ transfers' = [transfers EXCEPT ![i].over = TRUE]
    <3> DEFINE e == [transfers[i] EXCEPT !.over = TRUE]
    <3>1. e \in Transfer /\ e.gen = transfers[i].gen
      BY <1>1 DEF Transfer
    <3>2. transfers' = [transfers EXCEPT ![i] = e]
      BY <2>2
    <3> HIDE DEF e
    <3>3. /\ DOMAIN transfers' = DOMAIN transfers
          /\ \A j \in DOMAIN transfers : transfers'[j] = IF j = i THEN e ELSE transfers[j]
      BY <3>2
    <3>4. transfers' \in Seq(Transfer)
      BY <1>1, <3>1, <3>2
    <3> QED BY <2>2, <3>1, <3>3, <3>4
  <2> QED BY <2>1, <2>2
<1>3. UNCHANGED <<transferProgress, transferTerminal>>
        => PanelTypeOK' /\ ShownIsCurrent' /\ FlagIsShown'
  BY <1>2 DEF PanelTypeOK, ShownIsCurrent, FlagIsShown, Nothing, Terminal
<1>4. PanelTypeOK'
  BY <1>1, <1>2, <1>3, ReportHandled DEF PanelTypeOK, Terminal
<1>5. TransfersAreOld'
  BY <1>2 DEF TransfersAreOld
<1>6. ShownIsCurrent'
  BY <1>1, <1>2, <1>3, ReportHandled DEF ShownIsCurrent, Nothing
<1>7. FlagStands'
  BY <1>1, <1>2, ReportHandled DEF FlagStands
<1>8. FlagIsShown'
  BY <1>1, <1>3, ReportHandled DEF FlagIsShown, Nothing, Terminal
<1> QED BY <1>4, <1>5, <1>6, <1>7, <1>8

(* A transfer begins: one more, of this session and not over. *)
LEMMA BeginsInv == ASSUME PanelInv, TransferBegins PROVE PanelInv'
<1> USE DEF PanelInv
<1> DEFINE n == Len(transfers) + 1
           t == [gen |-> gen, kind |-> connected, over |-> FALSE]
<1>1. /\ n \in Nat /\ t \in Transfer /\ transfers' = Append(transfers, t)
      /\ UNCHANGED <<gen, connected, serviceGeneration>> /\ connected # "none"
      /\ HandleReceiveProgress(n, "receiving")
  BY DEF TransferBegins, PanelTypeOK, Transfer
<1>2. /\ transfers' \in Seq(Transfer) /\ DOMAIN transfers' = DOMAIN transfers \cup {n}
      /\ transfers'[n] = t
      /\ \A j \in DOMAIN transfers : transfers'[j] = transfers[j]
  BY <1>1 DEF PanelTypeOK
<1>3. \/ UNCHANGED <<transferProgress, transferTerminal>>
      \/ /\ serviceGeneration = gen /\ ~transferTerminal
         /\ transferTerminal' \in BOOLEAN /\ ~transferTerminal'
         /\ transferProgress' \in
              [transfer : Nat, status : {"none", "receiving"} \cup Terminal]
         /\ \/ transferProgress' = Nothing
            \/ transferProgress'.transfer = n
  BY <1>1, ReportHandled, NothingShown
<1> HIDE DEF n, t
<1>4. PanelTypeOK'
  BY <1>1, <1>2, <1>3 DEF PanelTypeOK, Terminal
<1>5. TransfersAreOld'
  BY <1>1, <1>2 DEF TransfersAreOld, PanelTypeOK, t
<1>6. ShownIsCurrent'
  BY <1>1, <1>2, <1>3 DEF ShownIsCurrent, Nothing
<1>7. FlagStands'
  BY <1>1, <1>2, <1>3 DEF FlagStands, t
<1>8. FlagIsShown'
  BY <1>3 DEF FlagIsShown, Nothing, Terminal
<1> QED BY <1>4, <1>5, <1>6, <1>7, <1>8

LEMMA PanelStep == PanelInv /\ [Next]_vars => PanelInv'
<1> SUFFICES ASSUME PanelInv, [Next]_vars PROVE PanelInv'
  OBVIOUS
<1> USE DEF PanelInv
<1>1. CASE UNCHANGED vars
  BY <1>1 DEF vars, PanelTypeOK, TransfersAreOld, ShownIsCurrent, FlagStands, FlagIsShown
<1>2. ASSUME NEW kind \in {"rtc", "direct"}, Connect(kind) PROVE PanelInv'
  BY <1>2 DEF Connect, PanelTypeOK, TransfersAreOld, ShownIsCurrent, FlagStands,
     FlagIsShown, Transfer
<1>3. CASE Disconnect \/ ConnectionEnds \/ SessionFails
  <2>1. /\ gen' = gen + 1 /\ connected' = "none" /\ transferProgress' = Nothing
        /\ UNCHANGED <<serviceGeneration, transfers>>
    BY <1>3, Zenon DEF Disconnect, ConnectionEnds, SessionFails, ResetSession
  <2>2. transferTerminal' \in BOOLEAN
    BY <1>3, Zenon DEF Disconnect, ConnectionEnds, SessionFails, PanelTypeOK
  <2>3. transferProgress' \in [transfer : Nat, status : {"none", "receiving"} \cup Terminal]
    BY <2>1, NothingShown, Zenon
  <2>4. PanelTypeOK'
    BY <2>1, <2>2, <2>3 DEF PanelTypeOK
  <2>5. \A i \in DOMAIN transfers : transfers[i].gen \in Nat
    <3>1. \A i \in DOMAIN transfers : transfers[i] \in Transfer
      BY DEF PanelTypeOK
    <3> QED BY <3>1 DEF Transfer
  <2>6. TransfersAreOld' /\ FlagStands'
    BY <2>1, <2>5 DEF PanelTypeOK, TransfersAreOld, FlagStands
  <2>7. ShownIsCurrent' /\ FlagIsShown'
    BY <2>1, Zenon DEF ShownIsCurrent, FlagIsShown, Nothing
  <2> QED BY <2>4, <2>6, <2>7
<1>4. CASE TransferBegins
  BY <1>4, BeginsInv
<1>5. ASSUME NEW i \in DOMAIN transfers, TransferProgresses(i) \/ TransferEnds(i)
      PROVE  PanelInv'
  BY <1>5, ReportInv DEF TransferProgresses, TransferEnds
<1>6. ASSUME NEW i \in 1 .. MaxTransfers, TimerFires(i) PROVE PanelInv'
  BY <1>6 DEF TimerFires, PanelTypeOK, TransfersAreOld, ShownIsCurrent, FlagStands,
     FlagIsShown, Nothing
<1> QED BY <1>1, <1>2, <1>3, <1>4, <1>5, <1>6 DEF Next

(* The invariant of the panel holds whatever reports and timers arrive. *)
THEOREM PanelInvariant == Spec => []PanelInv
  BY PanelInit, PanelStep, PTL DEF Spec

(* However late a transfer's reports arrive, the panel does not show it as *)
(* running once it showed its end.                                         *)
THEOREM EndsStayShown == Spec => []EndIsFinal
<1>1. PanelInv => EndIsFinal
  BY DEF PanelInv, ShownIsCurrent, FlagStands, FlagIsShown, EndIsFinal
<1> QED BY <1>1, PanelInvariant, PTL
=============================================================================
