----------------------- MODULE GatewayCustody_proofs -----------------------
(***************************************************************************)
(* Theorems about GatewayCustody, for any accounts, requests, amounts,     *)
(* fees and number of crashes, and whether replies can be lost or not.     *)
(***************************************************************************)
EXTENDS GatewayCustody, UnitSums_proofs

----------------------------------------------------------------------------
(* Types *)

LedgerTypes ==
  /\ balance \in [Accounts -> Nat] /\ history \in [Accounts -> Int]
  /\ inFlight \subseteq Requests /\ events \subseteq Requests

\* The registry's methods keep their tables typed.
LEMMA DebitTypes ==
  ASSUME LedgerTypes, NEW h \in Requests, Debit(Owner[h], Amt[h])
  PROVE  balance' \in [Accounts -> Nat]
BY DataAssumption DEF LedgerTypes, Debit, Minus

LEMMA CreditTypes ==
  ASSUME LedgerTypes, NEW h \in Requests, Credit(Owner[h], Amt[h])
  PROVE  balance' \in [Accounts -> Nat]
BY DataAssumption DEF LedgerTypes, Credit, Plus

LEMMA RecordTypes ==
  ASSUME LedgerTypes, NEW h \in Requests, RecordEvent(h)
  PROVE  history' \in [Accounts -> Int] /\ events' \subseteq Requests
BY DataAssumption DEF LedgerTypes, RecordEvent, Minus

LEMMA DebitAndMarkTypes ==
  ASSUME LedgerTypes, NEW h \in Requests, DebitAndMark(h)
  PROVE  LedgerTypes'
BY DebitTypes DEF LedgerTypes, DebitAndMark

LEMMA SettleTypes ==
  ASSUME LedgerTypes, NEW h \in Requests, SettleInFlight(h)
  PROVE  LedgerTypes'
BY RecordTypes DEF LedgerTypes, SettleInFlight, ledger

LEMMA RefundTypes ==
  ASSUME LedgerTypes, NEW h \in Requests, RefundInFlight(h)
  PROVE  LedgerTypes'
BY CreditTypes DEF LedgerTypes, RefundInFlight, ledger

LEMMA MoveFeeTypes ==
  ASSUME TypeOK, NEW h \in Requests, ~FeeWaived(h), MoveFee(h)
  PROVE  sats' \in [Accounts -> Nat] /\ charged' \subseteq Requests
BY DataAssumption DEF TypeOK, FeeWaived, MoveFee, Plus, Minus

\* The operator's share of a refunded fee never goes below zero.
LEMMA RefundFeeTypes ==
  ASSUME TypeOK, NEW h \in Requests, SendRefundFee(h)
  PROVE  sats' \in [Accounts -> Nat] /\ charged' \subseteq Requests
<1> DEFINE paid == Plus(sats, Owner[h], Fee[h])
<1>1. paid \in [Accounts -> Nat]
  BY DataAssumption DEF TypeOK, Plus
<1>2. sats' = Minus(paid, Operator, Smaller(Fee[h], paid[Operator]))
  BY DEF SendRefundFee
<1>3. sats' \in [Accounts -> Nat]
  <2> HIDE DEF paid
  <2>1. CASE Operator \in Accounts
    <3>1. paid[Operator] \in Nat /\ Fee[h] \in Nat
      BY <1>1, <2>1, DataAssumption
    <3>2. paid[Operator] - Smaller(Fee[h], paid[Operator]) \in Nat
      BY <3>1 DEF Smaller
    <3> QED
      BY <1>1, <1>2, <3>2 DEF Minus
  <2>2. CASE Operator \notin Accounts
    BY <1>1, <1>2, <2>2 DEF Minus
  <2> QED
    BY <2>1, <2>2
<1> QED
  BY <1>3 DEF TypeOK, SendRefundFee

----------------------------------------------------------------------------

LEMMA InitTypes == Init => TypeOK
BY DataAssumption, StartAssumption DEF Init, TypeOK, Phases, Attempts

LEMMA HandlerTypes ==
  ASSUME TypeOK, NEW h \in Requests, Handler(h)
  PROVE  TypeOK'
<1> USE DEF Goto, Phases, fees, node, recovery, ledger
<1>0. LedgerTypes
  BY DEF TypeOK, LedgerTypes
<1>1. CASE LnPayReserve(h)
  BY <1>0, <1>1, DebitAndMarkTypes
  DEF TypeOK, LedgerTypes, LnPayReserve, Call, Attempts
<1>2. CASE LnPaySucceeded(h)
  BY <1>0, <1>2, SettleTypes DEF TypeOK, LedgerTypes, LnPaySucceeded
<1>3. CASE LnPayFailed(h)
  BY <1>0, <1>3, RefundTypes DEF TypeOK, LedgerTypes, LnPayFailed
<1>4. CASE SendReserve(h)
  BY <1>0, <1>4, DebitAndMarkTypes DEF TypeOK, LedgerTypes, SendReserve
<1>5. CASE SendCall(h)
  BY <1>5, MoveFeeTypes DEF TypeOK, SendCall, Call, Attempts
<1>6. CASE SendFeeRefused(h)
  BY <1>0, <1>6, RefundTypes DEF TypeOK, LedgerTypes, SendFeeRefused
<1>7. CASE SendSucceeded(h)
  BY <1>0, <1>7, SettleTypes DEF TypeOK, LedgerTypes, SendSucceeded
<1>8. CASE SendFailed(h)
  BY <1>0, <1>8, RefundTypes DEF TypeOK, LedgerTypes, SendFailed
<1>9. CASE SendRefundFee(h)
  <2>1. sats' \in [Accounts -> Nat] /\ charged' \subseteq Requests
    BY <1>9, RefundFeeTypes
  <2> QED
    BY <1>9, <2>1 DEF TypeOK, SendRefundFee
<1>10. CASE BurnDebit(h)
  BY <1>0, <1>10, DebitTypes DEF TypeOK, BurnDebit, Call, Attempts
<1>11. CASE BurnSucceeded(h)
  BY <1>0, <1>11, RecordTypes DEF TypeOK, BurnSucceeded
<1>12. CASE BurnFailed(h)
  BY <1>0, <1>12, CreditTypes DEF TypeOK, BurnFailed
<1>13. CASE Dropped(h)
  BY <1>13 DEF TypeOK, Dropped
<1> QED
  BY <1>1, <1>2, <1>3, <1>4, <1>5, <1>6, <1>7, <1>8, <1>9, <1>10, <1>11, <1>12, <1>13
  DEF Handler, LnPay, Send, Burn

LEMMA NodeTypes ==
  ASSUME TypeOK, NEW h \in Requests, Node(h)
  PROVE  TypeOK'
<1> USE DEF NodeStep, Attempts, ledger, fees, recovery
<1>1. CASE NodeAccepts(h)
  BY <1>1 DEF TypeOK, NodeAccepts
<1>2. CASE NodeRejects(h)
  BY <1>2 DEF TypeOK, NodeRejects
<1>3. CASE NodeSucceeds(h)
  <2>1. Amt[h] \in Nat
    BY DataAssumption
  <2>2. holding' \in Nat
    BY <1>3, <2>1 DEF TypeOK, NodeSucceeds
  <2> QED
    BY <1>3, <2>2 DEF TypeOK, NodeSucceeds
<1>4. CASE NodeFails(h)
  BY <1>4 DEF TypeOK, NodeFails
<1> QED
  BY <1>1, <1>2, <1>3, <1>4 DEF Node

LEMMA TransferTypes ==
  ASSUME TypeOK, NEW from \in Callers, NEW to \in Accounts, NEW n \in TransferAmounts,
         Transfer(from, to, n)
  PROVE  TypeOK'
<1>1. from \in Accounts /\ n \in Nat
  BY DataAssumption
<1>2. balance' \in [Accounts -> Nat] /\ history' \in [Accounts -> Int]
  BY <1>1 DEF TypeOK, Transfer, Plus, Minus
<1> QED
  BY <1>2 DEF TypeOK, Transfer, fees, node, recovery

LEMMA RecoveryTypes ==
  ASSUME TypeOK, Recovery
  PROVE  TypeOK'
<1> USE DEF RecoveryOnly, ledger, fees, node
<1>1. CASE ReadRows
  BY <1>1 DEF TypeOK, ReadRows
<1>2. ASSUME NEW h \in Requests, NextRow(h) PROVE TypeOK'
  BY <1>2 DEF TypeOK, NextRow
<1>3. ASSUME NEW h \in Requests, TrackAnswers(h) PROVE TypeOK'
  BY <1>3 DEF TypeOK, TrackAnswers
<1>4. CASE TrackErrs
  BY <1>4 DEF TypeOK, TrackErrs
<1>5. CASE ApplyVerdict
  <2>1. cur \in Requests /\ LedgerTypes
    BY <1>5 DEF TypeOK, LedgerTypes, ApplyVerdict, Tracking
  <2>2. LedgerTypes'
    BY <1>5, <2>1, SettleTypes, RefundTypes DEF ApplyVerdict
  <2> QED
    BY <1>5, <2>2 DEF TypeOK, LedgerTypes, ApplyVerdict
<1> QED
  BY <1>1, <1>2, <1>3, <1>4, <1>5 DEF Recovery

LEMMA CrashTypes ==
  ASSUME TypeOK, Crash
  PROVE  TypeOK'
BY DataAssumption DEF TypeOK, Crash, Phases, Live, ledger, fees, node

\* Every table, local and remote state keeps its type; in particular no
\* interleaving of debits makes a balance negative.
THEOREM TypeCorrect == Spec => []TypeOK
<1>1. TypeOK /\ [Next]_vars => TypeOK'
  <2> SUFFICES ASSUME TypeOK, [Next]_vars PROVE TypeOK'
    OBVIOUS
  <2>1. CASE UNCHANGED vars
    BY <2>1 DEF TypeOK, vars, ledger, fees, node, recovery
  <2>2. CASE Next
    BY <2>2, HandlerTypes, NodeTypes, TransferTypes, RecoveryTypes, CrashTypes DEF Next
  <2> QED
    BY <2>1, <2>2
<1> QED
  BY InitTypes, <1>1, PTL DEF Spec

----------------------------------------------------------------------------
(* What the handlers' positions say about the tables *)

\* A request that has not started has left no trace, and one that has not
\* called the node left none there; a row is never also an event; a burn has no row, and its event is written as it answers "ok".
Bookkeeping ==
  /\ \A h \in Requests : pc[h] = "idle" =>
       h \notin inFlight /\ h \notin events
  /\ \A h \in Requests : pc[h] \in {"idle", "reserved"} => attempt[h] = "none"
  /\ inFlight \cap events = {}
  /\ \A h \in Requests : Kind[h] = "burn" =>
       /\ h \notin inFlight
       /\ h \in events => pc[h] = "ok"
       /\ pc[h] \notin {"reserved", "feeback"}

LEMMA InitBookkeeping == Init => Bookkeeping
BY DEF Init, Bookkeeping

LEMMA SettleBookkeeping ==
  ASSUME TypeOK, Bookkeeping, NEW h \in Requests, SettleInFlight(h)
  PROVE  /\ inFlight' = inFlight \ {h}
         /\ events' = IF h \in inFlight THEN events \cup {h} ELSE events
BY DEF SettleInFlight, RecordEvent, ledger

LEMMA RefundBookkeeping ==
  ASSUME NEW h \in Requests, RefundInFlight(h)
  PROVE  inFlight' = inFlight \ {h} /\ events' = events
BY DEF RefundInFlight, ledger

LEMMA HandlerBookkeeping ==
  ASSUME TypeOK, Bookkeeping, NEW h \in Requests, Handler(h)
  PROVE  Bookkeeping'
<1> USE DEF TypeOK, Bookkeeping, Goto, Phases, node
<1>1. CASE LnPayReserve(h)
  BY <1>1 DEF LnPayReserve, DebitAndMark, Call
<1>2. CASE LnPaySucceeded(h)
  BY <1>2, SettleBookkeeping DEF LnPaySucceeded
<1>3. CASE LnPayFailed(h)
  BY <1>3, RefundBookkeeping DEF LnPayFailed
<1>4. CASE SendReserve(h)
  BY <1>4 DEF SendReserve, DebitAndMark
<1>5. CASE SendCall(h)
  BY <1>5 DEF SendCall, Call, ledger
<1>6. CASE SendFeeRefused(h)
  BY <1>6, RefundBookkeeping DEF SendFeeRefused
<1>7. CASE SendSucceeded(h)
  BY <1>7, SettleBookkeeping DEF SendSucceeded
<1>8. CASE SendFailed(h)
  BY <1>8, RefundBookkeeping DEF SendFailed
<1>9. CASE SendRefundFee(h)
  BY <1>9 DEF SendRefundFee, ledger
<1>10. CASE BurnDebit(h)
  BY <1>10 DEF BurnDebit, Call
<1>11. CASE BurnSucceeded(h)
  BY <1>11 DEF BurnSucceeded, RecordEvent
<1>12. CASE BurnFailed(h)
  BY <1>12 DEF BurnFailed
<1>13. CASE Dropped(h)
  BY <1>13 DEF Dropped, ledger
<1> QED
  BY <1>1, <1>2, <1>3, <1>4, <1>5, <1>6, <1>7, <1>8, <1>9, <1>10, <1>11, <1>12, <1>13
  DEF Handler, LnPay, Send, Burn

LEMMA OtherBookkeeping ==
  ASSUME TypeOK, Bookkeeping,
         \/ \E h \in Requests : Node(h)
         \/ \E a \in Callers, b \in Accounts, n \in TransferAmounts : Transfer(a, b, n)
         \/ Recovery
         \/ Crash
         \/ UNCHANGED vars
  PROVE  Bookkeeping'
<1> USE DEF TypeOK, Bookkeeping, ledger, node
<1>1. ASSUME NEW h \in Requests, Node(h) PROVE Bookkeeping'
  BY <1>1 DEF Node, NodeAccepts, NodeRejects, NodeSucceeds, NodeFails, NodeStep
<1>2. ASSUME NEW a \in Callers, NEW b \in Accounts, NEW n \in TransferAmounts,
             Transfer(a, b, n)
      PROVE  Bookkeeping'
  BY <1>2 DEF Transfer
<1>3. CASE Recovery
  <2>1. CASE ApplyVerdict
    <3>1. cur \in Requests /\ UNCHANGED <<pc, node>>
      BY <2>1 DEF ApplyVerdict, Tracking
    <3>2. CASE SettleInFlight(cur)
      BY <3>1, <3>2, SettleBookkeeping
    <3>3. CASE RefundInFlight(cur)
      BY <3>1, <3>3, RefundBookkeeping
    <3> QED
      BY <2>1, <3>2, <3>3 DEF ApplyVerdict
  <2>2. CASE ~ApplyVerdict
    BY <1>3, <2>2 DEF Recovery, ReadRows, NextRow, TrackAnswers, TrackErrs, RecoveryOnly
  <2> QED
    BY <2>1, <2>2
<1>4. CASE Crash
  BY <1>4 DEF Crash, Live
<1>5. CASE UNCHANGED vars
  BY <1>5 DEF vars
<1> QED
  BY <1>1, <1>2, <1>3, <1>4, <1>5

\* The positions of the handlers and the tables agree in every state.
THEOREM BookkeepingHolds == Spec => []Bookkeeping
<1>1. TypeOK /\ Bookkeeping /\ [Next]_vars => Bookkeeping'
  BY HandlerBookkeeping, OtherBookkeeping DEF Next
<1> QED
  BY InitBookkeeping, <1>1, TypeCorrect, PTL DEF Spec

----------------------------------------------------------------------------
(* What a step of the system may do to the ledger: advance one request's   *)
(* reservation with the balance change that goes with it, move units       *)
(* between two accounts, or nothing.                                       *)

NoneAdvances(S) == \A g \in S : EscrowState(g)' = EscrowState(g)

Advances(h, from, to) ==
  EscrowState(h) = from /\ EscrowState(h)' = to /\ NoneAdvances(Requests \ {h})

Reserves(h) ==
  /\ Advances(h, "idle", "reserved")
  /\ Debit(Owner[h], Amt[h])
  /\ UNCHANGED history

Settles(h) ==
  /\ Advances(h, "reserved", "settled")
  /\ history' = Minus(history, Owner[h], Amt[h])
  /\ UNCHANGED balance

Refunds(h) ==
  /\ Advances(h, "reserved", "refunded")
  /\ Credit(Owner[h], Amt[h])
  /\ UNCHANGED history

Moves(from, to, n) ==
  /\ from # to /\ balance[from] >= n
  /\ balance' = Plus(Minus(balance, from, n), to, n)
  /\ history' = Plus(Minus(history, from, n), to, n)
  /\ NoneAdvances(Requests)

Rests == NoneAdvances(Requests) /\ UNCHANGED <<balance, history>>

LedgerStep ==
  \/ Rests
  \/ \E h \in Requests : Reserves(h) \/ Settles(h) \/ Refunds(h)
  \/ \E a \in Callers, b \in Accounts, n \in TransferAmounts : Moves(a, b, n)

\* No burn moves and no request starts.
Steady ==
  \A g \in Requests :
    /\ (pc'[g] = "idle") = (pc[g] = "idle")
    /\ Kind[g] = "burn" => pc'[g] = pc[g]

LEMMA SteadyRests ==
  ASSUME Steady, UNCHANGED ledger
  PROVE  LedgerStep
<1>1. NoneAdvances(Requests)
  BY DEF NoneAdvances, Steady, EscrowState, Open, ledger
<1> QED
  BY <1>1 DEF LedgerStep, Rests, ledger

LEMMA SettleStep ==
  ASSUME TypeOK, Bookkeeping, NEW h \in Requests, SettleInFlight(h), Steady
  PROVE  LedgerStep
<1>1. CASE h \notin inFlight
  BY <1>1, SteadyRests DEF SettleInFlight
<1>2. CASE h \in inFlight
  <2>1. /\ events' = events \cup {h} /\ inFlight' = inFlight \ {h}
        /\ UNCHANGED balance /\ history' = Minus(history, Owner[h], Amt[h])
    BY <1>2 DEF SettleInFlight, RecordEvent
  <2>2. Kind[h] # "burn" /\ pc[h] # "idle"
    BY <1>2 DEF Bookkeeping
  <2>3. Advances(h, "reserved", "settled")
    BY <1>2, <2>1, <2>2 DEF Advances, NoneAdvances, Steady, EscrowState, Open
  <2> QED
    BY <2>1, <2>3 DEF LedgerStep, Settles
<1> QED
  BY <1>1, <1>2

LEMMA RefundStep ==
  ASSUME TypeOK, Bookkeeping, NEW h \in Requests, RefundInFlight(h), Steady
  PROVE  LedgerStep
<1>1. CASE h \notin inFlight
  BY <1>1, SteadyRests DEF RefundInFlight
<1>2. CASE h \in inFlight
  <2>1. /\ Credit(Owner[h], Amt[h]) /\ inFlight' = inFlight \ {h}
        /\ UNCHANGED <<events, history>>
    BY <1>2 DEF RefundInFlight
  <2>2. Kind[h] # "burn" /\ pc[h] # "idle" /\ h \notin events
    BY <1>2 DEF Bookkeeping
  <2>3. Advances(h, "reserved", "refunded")
    BY <1>2, <2>1, <2>2 DEF Advances, NoneAdvances, Steady, EscrowState, Open
  <2> QED
    BY <2>1, <2>3 DEF LedgerStep, Refunds
<1> QED
  BY <1>1, <1>2

LEMMA ReserveStep ==
  ASSUME TypeOK, Bookkeeping, NEW h \in Requests, Kind[h] # "burn", DebitAndMark(h),
         NEW to \in {"reserved", "calling"}, Goto(h, "idle", to)
  PROVE  LedgerStep
<1>1. Advances(h, "idle", "reserved")
  BY DEF TypeOK, Bookkeeping, DebitAndMark, Goto, Advances, NoneAdvances, EscrowState, Open
<1> QED
  BY <1>1 DEF LedgerStep, Reserves, DebitAndMark

LEMMA HandlerStep ==
  ASSUME TypeOK, Bookkeeping, NEW h \in Requests, Handler(h)
  PROVE  LedgerStep
<1>1. ASSUME Kind[h] # "burn", NEW from, NEW to, Goto(h, from, to),
             from # "idle", to # "idle"
      PROVE  Steady
  BY <1>1 DEF TypeOK, Steady, Goto
<1>2. CASE LnPayReserve(h)
  BY <1>2, ReserveStep DEF LnPayReserve
<1>3. CASE SendReserve(h)
  BY <1>3, ReserveStep DEF SendReserve
<1>4. CASE LnPaySucceeded(h) \/ SendSucceeded(h)
  BY <1>1, <1>4, SettleStep DEF LnPaySucceeded, SendSucceeded
<1>5. CASE LnPayFailed(h) \/ SendFeeRefused(h) \/ SendFailed(h)
  BY <1>1, <1>5, RefundStep DEF LnPayFailed, SendFeeRefused, SendFailed
<1>6. CASE SendCall(h)
  BY <1>1, <1>6, SteadyRests DEF SendCall
<1>7. CASE SendRefundFee(h)
  <2>1. Kind[h] # "burn"
    BY <1>7 DEF SendRefundFee, Goto, Bookkeeping
  <2> QED
    BY <1>1, <1>7, <2>1, SteadyRests DEF SendRefundFee
<1>8. CASE BurnDebit(h)
  <2>1. Advances(h, "idle", "reserved")
    BY <1>8 DEF BurnDebit, TypeOK, Bookkeeping, Goto, Advances, NoneAdvances, EscrowState, Open
  <2> QED
    BY <1>8, <2>1 DEF BurnDebit, LedgerStep, Reserves
<1>9. CASE BurnSucceeded(h)
  <2>1. Advances(h, "reserved", "settled")
    BY <1>9 DEF BurnSucceeded, RecordEvent, TypeOK, Bookkeeping, Goto, Advances,
                NoneAdvances, EscrowState, Open
  <2> QED
    BY <1>9, <2>1 DEF BurnSucceeded, RecordEvent, LedgerStep, Settles
<1>10. CASE BurnFailed(h)
  <2>1. Advances(h, "reserved", "refunded")
    BY <1>10 DEF BurnFailed, TypeOK, Bookkeeping, Goto, Advances, NoneAdvances, EscrowState, Open
  <2> QED
    BY <1>10, <2>1 DEF BurnFailed, LedgerStep, Refunds
<1>11. CASE Dropped(h)
  <2>1. NoneAdvances(Requests)
    BY <1>11 DEF Dropped, TypeOK, Goto, NoneAdvances, EscrowState, Open, ledger
  <2> QED
    BY <1>11, <2>1 DEF Dropped, LedgerStep, Rests, ledger
<1> QED
  BY <1>2, <1>3, <1>4, <1>5, <1>6, <1>7, <1>8, <1>9, <1>10, <1>11
  DEF Handler, LnPay, Send, Burn

\* Every step does one of these: nothing is debited, credited or recorded
\* outside a reservation, its one end, or a transfer.
LEMMA StepOfLedger ==
  ASSUME TypeOK, Bookkeeping, [Next]_vars
  PROVE  LedgerStep
<1>1. CASE UNCHANGED pc /\ UNCHANGED ledger
  BY <1>1, SteadyRests DEF Steady
<1>2. ASSUME NEW h \in Requests, Handler(h) PROVE LedgerStep
  BY <1>2, HandlerStep
<1>3. ASSUME NEW h \in Requests, Node(h) PROVE LedgerStep
  BY <1>1, <1>3 DEF Node, NodeAccepts, NodeRejects, NodeSucceeds, NodeFails, NodeStep
<1>4. ASSUME NEW a \in Callers, NEW b \in Accounts, NEW n \in TransferAmounts,
             Transfer(a, b, n)
      PROVE  LedgerStep
  <2>1. NoneAdvances(Requests)
    BY <1>4 DEF Transfer, NoneAdvances, EscrowState, Open
  <2>2. Moves(a, b, n)
    BY <1>4, <2>1 DEF Transfer, Moves
  <2> QED
    BY <2>2 DEF LedgerStep
<1>5. CASE Recovery
  <2>1. CASE ApplyVerdict
    <3>1. cur \in Requests /\ Steady
      BY <2>1 DEF TypeOK, ApplyVerdict, Tracking, Steady
    <3> QED
      BY <2>1, <3>1, SettleStep, RefundStep DEF ApplyVerdict
  <2>2. CASE ~ApplyVerdict
    BY <1>1, <1>5, <2>2 DEF Recovery, ReadRows, NextRow, TrackAnswers, TrackErrs, RecoveryOnly
  <2> QED
    BY <2>1, <2>2
<1>6. CASE Crash
  <2>1. NoneAdvances(Requests)
    BY <1>6 DEF Crash, Live, TypeOK, Bookkeeping, NoneAdvances, EscrowState, Open, ledger
  <2> QED
    BY <1>6, <2>1 DEF Crash, LedgerStep, Rests, ledger
<1>7. CASE UNCHANGED vars
  BY <1>1, <1>7 DEF vars
<1> QED
  BY <1>2, <1>3, <1>4, <1>5, <1>6, <1>7 DEF Next

----------------------------------------------------------------------------
(* The requests in one state of their reservation *)

In(s) == {h \in Requests : EscrowState(h) = s}
InOf(s, a) == {h \in In(s) : Owner[h] = a}

LEMMA AmtColumn ==
  ASSUME NEW S \in SUBSET Requests
  PROVE  Column(Amt, S) /\ Total(Amt, S) \in Nat
<1>1. Column(Amt, Requests)
  BY DataAssumption DEF Column
<1> QED
  BY <1>1, TotalSubset, TotalNat

LEMMA InSteady ==
  ASSUME NoneAdvances(Requests)
  PROVE  \A s, a : In(s)' = In(s) /\ InOf(s, a)' = InOf(s, a)
BY DEF NoneAdvances, In, InOf

LEMMA InAdvances ==
  ASSUME NEW h \in Requests, NEW from, NEW to, from # to, Advances(h, from, to)
  PROVE  /\ h \in In(from) /\ In(from)' = In(from) \ {h}
         /\ h \notin In(to) /\ In(to)' = In(to) \cup {h}
         /\ \A s : s \notin {from, to} => In(s)' = In(s)
BY DEF Advances, NoneAdvances, In

LEMMA OwnedLeaves ==
  ASSUME NEW h \in Requests, NEW from, NEW to, from # to, Advances(h, from, to),
         NEW a \in Accounts
  PROVE  Total(Amt, InOf(from, a)') =
           Total(Amt, InOf(from, a)) - (IF a = Owner[h] THEN Amt[h] ELSE 0)
<1>1. InOf(from, a) \in SUBSET Requests
  BY DEF InOf, In
<1>2. Column(Amt, InOf(from, a)) /\ Total(Amt, InOf(from, a)) \in Nat
  BY <1>1, AmtColumn
<1>3. CASE a = Owner[h]
  <2>1. h \in InOf(from, a) /\ InOf(from, a)' = InOf(from, a) \ {h}
    BY <1>3, InAdvances DEF InOf
  <2> QED
    BY <1>2, <1>3, <2>1, TotalRemove
<1>4. CASE a # Owner[h]
  <2>1. InOf(from, a)' = InOf(from, a)
    BY <1>4, InAdvances DEF InOf
  <2> QED
    BY <1>2, <1>4, <2>1
<1> QED
  BY <1>3, <1>4

LEMMA OwnedJoins ==
  ASSUME NEW h \in Requests, NEW from, NEW to, from # to, Advances(h, from, to),
         NEW a \in Accounts
  PROVE  Total(Amt, InOf(to, a)') =
           Total(Amt, InOf(to, a)) + (IF a = Owner[h] THEN Amt[h] ELSE 0)
<1>1. InOf(to, a) \in SUBSET Requests
  BY DEF InOf, In
<1>2. Column(Amt, InOf(to, a)) /\ Total(Amt, InOf(to, a)) \in Nat /\ Amt[h] \in Nat
  BY <1>1, AmtColumn, DataAssumption
<1>3. CASE a = Owner[h]
  <2>1. h \notin InOf(to, a) /\ InOf(to, a)' = InOf(to, a) \cup {h}
    BY <1>3, InAdvances DEF InOf
  <2> QED
    BY <1>2, <1>3, <2>1, TotalInsert
<1>4. CASE a # Owner[h]
  <2>1. InOf(to, a)' = InOf(to, a)
    BY <1>4, InAdvances DEF InOf
  <2> QED
    BY <1>2, <1>4, <2>1
<1> QED
  BY <1>3, <1>4

----------------------------------------------------------------------------
(* The event log explains every balance *)

\* HistoryExplainsBalance, with the reservations named by their state.
Explained == \A a \in Accounts : balance[a] + Total(Amt, InOf("reserved", a)) = history[a]

LEMMA ReservedIsOpen ==
  ASSUME TypeOK, Bookkeeping
  PROVE  /\ In("reserved") = OpenRequests
         /\ In("settled") = events
         /\ \A h \in Requests : EscrowState(h) = "refunded" <=> Refunded(h)
BY DEF TypeOK, Bookkeeping, In, EscrowState, OpenRequests, Open, Refunded

LEMMA ExplainedStep ==
  ASSUME TypeOK, TypeOK', Explained, LedgerStep
  PROVE  Explained'
<1> SUFFICES ASSUME NEW a \in Accounts
             PROVE  (balance[a] + Total(Amt, InOf("reserved", a)) = history[a])'
  BY DEF Explained
<1> DEFINE open == Total(Amt, InOf("reserved", a))
<1>1. /\ balance[a] \in Nat /\ history[a] \in Int /\ balance[a] + open = history[a]
      /\ open \in Nat
  <2>1. InOf("reserved", a) \in SUBSET Requests
    BY DEF InOf, In
  <2> QED
    BY <2>1, AmtColumn DEF TypeOK, Explained
<1> SUFFICES balance'[a] + open' = history'[a]
  OBVIOUS
<1>2. \A h \in Requests : Amt[h] \in Nat /\ Owner[h] \in Accounts
  BY DataAssumption
<1>3. CASE Rests
  <2>1. open' = open
    BY <1>3, InSteady DEF Rests
  <2> QED
    BY <1>1, <1>3, <2>1 DEF Rests
<1>4. ASSUME NEW h \in Requests, Reserves(h) PROVE balance'[a] + open' = history'[a]
  <2>1. open' = open + (IF a = Owner[h] THEN Amt[h] ELSE 0)
    BY <1>4, OwnedJoins DEF Reserves
  <2>2. balance'[a] = balance[a] - (IF a = Owner[h] THEN Amt[h] ELSE 0)
    BY <1>1, <1>2, <1>4 DEF Reserves, Debit, Minus, TypeOK
  <2> QED
    BY <1>1, <1>2, <1>4, <2>1, <2>2 DEF Reserves
<1>5. ASSUME NEW h \in Requests, Settles(h) PROVE balance'[a] + open' = history'[a]
  <2>1. open' = open - (IF a = Owner[h] THEN Amt[h] ELSE 0)
    BY <1>5, OwnedLeaves DEF Settles
  <2>2. history'[a] = history[a] - (IF a = Owner[h] THEN Amt[h] ELSE 0)
    BY <1>1, <1>2, <1>5 DEF Settles, Minus, TypeOK
  <2> QED
    BY <1>1, <1>2, <1>5, <2>1, <2>2 DEF Settles
<1>6. ASSUME NEW h \in Requests, Refunds(h) PROVE balance'[a] + open' = history'[a]
  <2>1. open' = open - (IF a = Owner[h] THEN Amt[h] ELSE 0)
    BY <1>6, OwnedLeaves DEF Refunds
  <2>2. balance'[a] = balance[a] + (IF a = Owner[h] THEN Amt[h] ELSE 0)
    BY <1>1, <1>2, <1>6 DEF Refunds, Credit, Plus, TypeOK
  <2> QED
    BY <1>1, <1>2, <1>6, <2>1, <2>2 DEF Refunds
<1>7. ASSUME NEW b \in Callers, NEW c \in Accounts, NEW n \in TransferAmounts, Moves(b, c, n)
      PROVE  balance'[a] + open' = history'[a]
  <2>1. open' = open
    BY <1>7, InSteady DEF Moves
  <2>2. b \in Accounts /\ n \in Nat /\ b # c
    BY <1>7, DataAssumption DEF Moves
  <2> DEFINE change == (IF a = c THEN n ELSE 0) - (IF a = b THEN n ELSE 0)
  <2>3. balance'[a] = balance[a] + change
    BY <1>1, <1>7, <2>2 DEF Moves, Plus, Minus, TypeOK
  <2>4. history'[a] = history[a] + change
    BY <1>1, <1>7, <2>2 DEF Moves, Plus, Minus, TypeOK
  <2>5. change \in Int
    BY <2>2
  <2> HIDE DEF change, open
  <2> QED
    BY <1>1, <2>1, <2>3, <2>4, <2>5
<1> QED
  BY <1>3, <1>4, <1>5, <1>6, <1>7 DEF LedgerStep

LEMMA InitReservations == Init => \A s : s # "idle" => In(s) = {}
BY DEF Init, In, EscrowState

\* What an account's events sum to is what it can spend plus what is reserved
\* for its unfinished requests, whoever settles, refunds or crashes when.
THEOREM HistoryExplained == Spec => []HistoryExplainsBalance
<1>1. Init => Explained
  <2> SUFFICES ASSUME Init, NEW a \in Accounts
               PROVE  balance[a] + Total(Amt, InOf("reserved", a)) = history[a]
    BY DEF Explained
  <2>1. Total(Amt, InOf("reserved", a)) = 0
    BY InitReservations, TotalEmpty DEF InOf
  <2> QED
    BY <2>1, StartAssumption DEF Init
<1>2. TypeOK /\ TypeOK' /\ Bookkeeping /\ Explained /\ [Next]_vars => Explained'
  BY StepOfLedger, ExplainedStep
<1>3. TypeOK /\ Bookkeeping /\ Explained => HistoryExplainsBalance
  BY ReservedIsOpen DEF HistoryExplainsBalance, Explained, InOf
<1> QED
  BY <1>1, <1>2, <1>3, TypeCorrect, BookkeepingHolds, PTL DEF Spec

----------------------------------------------------------------------------
(* Units are conserved *)

\* Every unit the ledger started with is spendable, reserved or spent, and
\* the node lost what it paid.
Accounted ==
  /\ Total(balance, Accounts) + Total(Amt, In("reserved")) + Total(Amt, In("settled"))
       = Total(Balance0, Accounts)
  /\ holding + Total(Amt, Paid) = Holding0

LEMMA InTotal == \A s : In(s) \in SUBSET Requests /\ Total(Amt, In(s)) \in Nat
BY AmtColumn DEF In

LEMMA TotalLeaves ==
  ASSUME NEW h \in Requests, NEW from, NEW to, from # to, Advances(h, from, to)
  PROVE  Total(Amt, In(from)') = Total(Amt, In(from)) - Amt[h]
<1>1. h \in In(from) /\ In(from)' = In(from) \ {h}
  BY InAdvances
<1>2. Column(Amt, In(from))
  BY InTotal, AmtColumn
<1> QED
  BY <1>1, <1>2, TotalRemove

LEMMA TotalJoins ==
  ASSUME NEW h \in Requests, NEW from, NEW to, from # to, Advances(h, from, to)
  PROVE  Total(Amt, In(to)') = Total(Amt, In(to)) + Amt[h]
<1>1. h \notin In(to) /\ In(to)' = In(to) \cup {h}
  BY InAdvances
<1>2. Column(Amt, In(to)) /\ Amt[h] \in Nat
  BY InTotal, AmtColumn, DataAssumption
<1> QED
  BY <1>1, <1>2, TotalInsert

LEMMA LedgerAccounted ==
  ASSUME TypeOK, LedgerStep
  PROVE  Total(balance', Accounts) + Total(Amt, In("reserved")') + Total(Amt, In("settled")')
           = Total(balance, Accounts) + Total(Amt, In("reserved")) + Total(Amt, In("settled"))
<1> DEFINE all == Total(balance, Accounts)
           open == Total(Amt, In("reserved"))
           spent == Total(Amt, In("settled"))
<1> SUFFICES all' + open' + spent' = all + open + spent
  OBVIOUS
<1>1. all \in Nat /\ open \in Nat /\ spent \in Nat
  BY InTotal, TotalNat, DataAssumption DEF TypeOK, Column
<1>2. balance \in [Accounts -> Nat] /\ IsFiniteSet(Accounts)
  BY DataAssumption DEF TypeOK
<1>3. \A h \in Requests : Amt[h] \in Nat /\ Owner[h] \in Accounts
  BY DataAssumption
<1>4. CASE Rests
  BY <1>4, InSteady DEF Rests
<1>5. ASSUME NEW h \in Requests, Reserves(h) PROVE all' + open' + spent' = all + open + spent
  <2>1. open' = open + Amt[h]
    BY <1>5, TotalJoins DEF Reserves
  <2>2. spent' = spent
    BY <1>5, InAdvances DEF Reserves
  <2>3. all' = all - Amt[h]
    BY <1>2, <1>3, <1>5, TotalMinus DEF Reserves, Debit
  <2> QED
    BY <1>1, <1>3, <2>1, <2>2, <2>3
<1>6. ASSUME NEW h \in Requests, Settles(h) PROVE all' + open' + spent' = all + open + spent
  <2>1. open' = open - Amt[h]
    BY <1>6, TotalLeaves DEF Settles
  <2>2. spent' = spent + Amt[h]
    BY <1>6, TotalJoins DEF Settles
  <2>3. all' = all
    BY <1>6 DEF Settles
  <2> QED
    BY <1>1, <1>3, <2>1, <2>2, <2>3
<1>7. ASSUME NEW h \in Requests, Refunds(h) PROVE all' + open' + spent' = all + open + spent
  <2>1. open' = open - Amt[h]
    BY <1>7, TotalLeaves DEF Refunds
  <2>2. spent' = spent
    BY <1>7, InAdvances DEF Refunds
  <2>3. all' = all + Amt[h]
    BY <1>2, <1>3, <1>7, TotalPlus DEF Refunds, Credit
  <2> QED
    BY <1>1, <1>3, <2>1, <2>2, <2>3
<1>8. ASSUME NEW a \in Callers, NEW b \in Accounts, NEW n \in TransferAmounts, Moves(a, b, n)
      PROVE  all' + open' + spent' = all + open + spent
  <2>1. open' = open /\ spent' = spent
    BY <1>8, InSteady DEF Moves
  <2>2. a \in Accounts /\ n \in Nat /\ balance[a] >= n
    BY <1>8, DataAssumption DEF Moves
  <2> DEFINE rest == Minus(balance, a, n)
  <2>3. rest \in [Accounts -> Nat] /\ Total(rest, Accounts) = all - n
    BY <1>2, <2>2, TotalMinus
  <2>4. balance' = Plus(rest, b, n)
    BY <1>8 DEF Moves
  <2> HIDE DEF rest
  <2>5. Total(Plus(rest, b, n), Accounts) = Total(rest, Accounts) + n
    <3>1. rest \in [Accounts -> Nat] /\ IsFiniteSet(Accounts) /\ n \in Nat
      BY <1>2, <2>2, <2>3
    <3> QED
      BY <3>1, TotalPlus
  <2>6. all' = (all - n) + n
    BY <2>3, <2>4, <2>5
  <2> QED
    BY <1>1, <2>1, <2>2, <2>6
<1> QED
  BY <1>4, <1>5, <1>6, <1>7, <1>8 DEF LedgerStep

LEMMA HoldingAccounted ==
  ASSUME TypeOK, Bookkeeping, [Next]_vars, holding + Total(Amt, Paid) = Holding0
  PROVE  holding' + Total(Amt, Paid') = Holding0
<1> USE DEF TypeOK
<1>1. CASE UNCHANGED holding /\ Paid' = Paid
  BY <1>1
<1>2. ASSUME NEW h \in Requests, Handler(h) PROVE UNCHANGED holding /\ Paid' = Paid
  <2>1. CASE UNCHANGED node
    BY <2>1 DEF node, Paid
  <2>2. CASE LnPayReserve(h) \/ SendCall(h) \/ BurnDebit(h)
    BY <2>2 DEF LnPayReserve, SendCall, BurnDebit, Goto, Call, Paid, Bookkeeping
  <2>3. CASE ~ UNCHANGED node /\ ~ (LnPayReserve(h) \/ SendCall(h) \/ BurnDebit(h))
    BY <1>2, <2>3 DEF Handler, LnPay, Send, Burn, LnPaySucceeded, LnPayFailed, SendReserve,
      SendFeeRefused, SendSucceeded, SendFailed, SendRefundFee, BurnSucceeded, BurnFailed, Dropped
  <2> QED
    BY <2>1, <2>2, <2>3
<1>3. ASSUME NEW h \in Requests, NodeSucceeds(h)
      PROVE  holding' + Total(Amt, Paid') = Holding0
  <2>1. h \notin Paid /\ Paid' = Paid \cup {h} /\ holding' = holding - Amt[h]
    BY <1>3 DEF NodeSucceeds, NodeStep, Paid
  <2>2. Column(Amt, Paid) /\ Total(Amt, Paid) \in Nat /\ Amt[h] \in Nat
    BY AmtColumn, DataAssumption DEF Paid
  <2>3. Total(Amt, Paid \cup {h}) = Total(Amt, Paid) + Amt[h]
    BY <2>1, <2>2, TotalInsert
  <2> QED
    BY <2>1, <2>2, <2>3
<1>4. ASSUME NEW h \in Requests, NodeAccepts(h) \/ NodeRejects(h) \/ NodeFails(h)
      PROVE  UNCHANGED holding /\ Paid' = Paid
  BY <1>4 DEF NodeAccepts, NodeRejects, NodeFails, NodeStep, Paid
<1>5. ASSUME NEW a \in Callers, NEW b \in Accounts, NEW n \in TransferAmounts,
             Transfer(a, b, n)
      PROVE  UNCHANGED holding /\ Paid' = Paid
  BY <1>5 DEF Transfer, node, Paid
<1>6. CASE Recovery \/ Crash \/ UNCHANGED vars
  <2>1. UNCHANGED node
    BY <1>6 DEF Recovery, ReadRows, NextRow, TrackAnswers, TrackErrs, ApplyVerdict,
      RecoveryOnly, Crash, vars
  <2> QED
    BY <1>1, <2>1 DEF node, Paid
<1> QED
  BY <1>1, <1>2, <1>3, <1>4, <1>5, <1>6 DEF Next, Node

LEMMA InitAccounted == Init => Accounted
<1> SUFFICES ASSUME Init PROVE Accounted
  OBVIOUS
<1>1. Total(Amt, In("reserved")) = 0 /\ Total(Amt, In("settled")) = 0
  BY InitReservations, TotalEmpty
<1>2. Paid = {}
  BY DEF Init, Paid
<1>3. Total(Amt, Paid) = 0
  BY <1>2, TotalEmpty
<1>4. balance = Balance0 /\ holding = Holding0
  BY DEF Init
<1>5. Total(Balance0, Accounts) \in Nat
  BY TotalNat, DataAssumption, StartAssumption DEF Column
<1> QED
  BY <1>1, <1>3, <1>4, <1>5, StartAssumption DEF Accounted

LEMMA AccountedStep == TypeOK /\ Bookkeeping /\ Accounted /\ [Next]_vars => Accounted'
<1> SUFFICES ASSUME TypeOK, Bookkeeping, Accounted, [Next]_vars PROVE Accounted'
  OBVIOUS
<1>1. LedgerStep
  BY StepOfLedger
<1> QED
  BY <1>1, LedgerAccounted, HoldingAccounted DEF Accounted

\* A payment that went out is open, spent or wrongly refunded, so what the
\* ledger still owes exceeds the holding by the wrong refunds at most.
LEMMA ShortfallFollows ==
  ASSUME TypeOK, Bookkeeping, Accounted
  PROVE  ShortfallIsWrongRefunds
<1> DEFINE O == In("reserved")
           E == In("settled")
           all == Total(balance, Accounts)
<1>1. /\ O = OpenRequests /\ E = events
      /\ O \cap E = {}
      /\ WrongRefunds = Paid \ (O \cup E)
  <2>1. \A h \in Paid : pc[h] # "idle"
    BY DEF Paid, Bookkeeping
  <2> QED
    BY <2>1, ReservedIsOpen DEF WrongRefunds, Refunded, OpenRequests, In, Paid
<1>2. /\ O \in SUBSET Requests /\ E \in SUBSET Requests /\ Paid \in SUBSET Requests
  BY DEF In, Paid
<1>3. all \in Nat /\ Total(Balance0, Accounts) \in Nat
  BY TotalNat, DataAssumption, StartAssumption DEF TypeOK, Column
<1>4. \A S \in SUBSET Requests : Column(Amt, S) /\ Total(Amt, S) \in Nat
  BY AmtColumn
<1>5. Total(Amt, O) = Total(Amt, O \ Paid) + Total(Amt, O \cap Paid)
  <2>1. O = (O \ Paid) \cup (O \cap Paid)
    OBVIOUS
  <2>2. Column(Amt, O \ Paid) /\ Column(Amt, O \cap Paid)
    BY <1>2, <1>4
  <2> QED
    BY <2>1, <2>2, TotalSplit
<1>6. Total(Amt, Paid) = Total(Amt, WrongRefunds) + Total(Amt, Paid \cap (O \cup E))
  <2>1. Paid = WrongRefunds \cup (Paid \cap (O \cup E))
    BY <1>1
  <2>2. Column(Amt, WrongRefunds) /\ Column(Amt, Paid \cap (O \cup E))
    BY <1>1, <1>2, <1>4
  <2> QED
    BY <1>1, <2>1, <2>2, TotalSplit
<1>7. Total(Amt, Paid \cap (O \cup E)) = Total(Amt, O \cap Paid) + Total(Amt, E \cap Paid)
  <2>1. Paid \cap (O \cup E) = (O \cap Paid) \cup (E \cap Paid)
    OBVIOUS
  <2>2. Column(Amt, O \cap Paid) /\ Column(Amt, E \cap Paid)
    BY <1>2, <1>4
  <2> QED
    BY <1>1, <2>1, <2>2, TotalSplit
<1>8. Total(Amt, E \cap Paid) <= Total(Amt, E)
  BY <1>2, <1>4, TotalSubset
<1>9. /\ Total(Amt, O \ Paid) \in Nat /\ Total(Amt, O \cap Paid) \in Nat
      /\ Total(Amt, E \cap Paid) \in Nat /\ Total(Amt, E) \in Nat
      /\ Total(Amt, WrongRefunds) \in Nat /\ holding \in Nat /\ Holding0 \in Nat
  BY <1>1, <1>2, <1>4, StartAssumption DEF TypeOK
<1>10. /\ all + Total(Amt, O) + Total(Amt, E) = Total(Balance0, Accounts)
       /\ holding + Total(Amt, Paid) = Holding0
       /\ Total(Balance0, Accounts) <= Holding0
  BY StartAssumption DEF Accounted
<1>11. Owed = all + Total(Amt, O \ Paid)
  BY <1>1 DEF Owed
<1> HIDE DEF O, E, all
<1>12. all + Total(Amt, O \ Paid) <= holding + Total(Amt, WrongRefunds)
  BY <1>3, <1>5, <1>6, <1>7, <1>8, <1>9, <1>10
<1> QED
  BY <1>11, <1>12 DEF ShortfallIsWrongRefunds

\* Whatever replies are lost and whoever shares an invoice, the ledger owes
\* more than the node holds only by what was refunded for payments that went
\* out.
THEOREM ShortfallBounded == Spec => []ShortfallIsWrongRefunds
BY InitAccounted, AccountedStep, ShortfallFollows, TypeCorrect, BookkeepingHolds, PTL DEF Spec

----------------------------------------------------------------------------
(* The ledger implements its promise *)

LEMMA StepOfPromise ==
  ASSUME TypeOK, LedgerStep
  PROVE  [Promise!Next]_(Promise!vars)
<1> DEFINE st == [h \in Requests |-> EscrowState(h)]
<1>1. st' = [h \in Requests |-> EscrowState(h)']
  OBVIOUS
<1>2. CASE Rests
  BY <1>1, <1>2 DEF Rests, NoneAdvances, Promise!vars
<1>3. ASSUME NEW h \in Requests, NEW from, NEW to, Advances(h, from, to)
      PROVE  st[h] = from /\ st' = [st EXCEPT ![h] = to]
  BY <1>1, <1>3 DEF Advances, NoneAdvances
<1>4. ASSUME NEW h \in Requests, Reserves(h) PROVE Promise!Reserve(h)
  BY <1>3, <1>4 DEF Reserves, Debit, Minus, Promise!Reserve, Promise!Advance, Promise!Minus
<1>5. ASSUME NEW h \in Requests, Settles(h) PROVE Promise!Settle(h)
  BY <1>3, <1>5 DEF Settles, Promise!Settle, Promise!Advance
<1>6. ASSUME NEW h \in Requests, Refunds(h) PROVE Promise!Refund(h)
  BY <1>3, <1>6 DEF Refunds, Credit, Plus, Promise!Refund, Promise!Advance, Promise!Plus
<1>7. ASSUME NEW a \in Callers, NEW b \in Accounts, NEW n \in TransferAmounts, Moves(a, b, n)
      PROVE  a \in Accounts /\ Promise!Move(a, b, n)
  BY <1>1, <1>7, DataAssumption DEF Moves, NoneAdvances, Plus, Minus, Promise!Move, Promise!Plus, Promise!Minus
<1> QED
  BY <1>2, <1>4, <1>5, <1>6, <1>7 DEF LedgerStep, Promise!Next

\* Every reservation is made once and ends at most once, its units going to
\* one place: the handlers, the recovery pass and the crashes implement
\* Escrow.
THEOREM ImplementsPromise == Spec => RefinesEscrow
<1>1. Init => Promise!Init
  BY DEF Init, Promise!Init, EscrowState
<1>2. TypeOK /\ Bookkeeping /\ [Next]_vars => [Promise!Next]_(Promise!vars)
  BY StepOfLedger, StepOfPromise
<1> QED
  BY <1>1, <1>2, TypeCorrect, BookkeepingHolds, PTL DEF Spec, RefinesEscrow, Promise!Spec

----------------------------------------------------------------------------
(* Fees: the operator holds every fee that may still be given back *)

SatsConserved == Total(sats, Accounts) = Total(Sats0, Accounts)

FeesHeld ==
  /\ \A h \in charged : ~FeeWaived(h) /\ pc[h] \notin {"idle", "reserved"}
  /\ \A h \in Requests : pc[h] = "feeback" => h \in charged
  /\ Operator \in Accounts => sats[Operator] >= Total(Fee, charged)
  /\ SatsConserved

LEMMA FeeColumn ==
  ASSUME NEW S \in SUBSET Requests
  PROVE  Column(Fee, S) /\ Total(Fee, S) \in Nat
<1>1. Column(Fee, S)
  BY DataAssumption, FS_Subset DEF Column
<1> QED
  BY <1>1, TotalNat

LEMMA MoveFeeHeld ==
  ASSUME TypeOK, FeesHeld, NEW h \in Requests, pc[h] = "reserved", ~FeeWaived(h), MoveFee(h)
  PROVE  SatsConserved' /\ sats'[Operator] >= Total(Fee, charged') /\ Operator \in Accounts
<1>1. /\ Operator \in Accounts /\ Owner[h] \in Accounts /\ Owner[h] # Operator
      /\ Fee[h] \in Nat /\ sats[Owner[h]] >= Fee[h]
  BY DataAssumption DEF FeeWaived, MoveFee
<1> DEFINE left == Minus(sats, Owner[h], Fee[h])
<1>2. left \in [Accounts -> Nat] /\ Total(left, Accounts) = Total(sats, Accounts) - Fee[h]
  <2>1. /\ sats \in [Accounts -> Nat] /\ IsFiniteSet(Accounts)
        /\ Owner[h] \in Accounts /\ Fee[h] \in Nat /\ sats[Owner[h]] >= Fee[h]
    BY <1>1, DataAssumption DEF TypeOK
  <2> QED
    BY <2>1, TotalMinus
<1>3. left[Operator] = sats[Operator]
  BY <1>1 DEF Minus, TypeOK
<1> HIDE DEF left
<1>4. Total(Plus(left, Operator, Fee[h]), Accounts) = Total(left, Accounts) + Fee[h]
  <2>1. /\ left \in [Accounts -> Nat] /\ IsFiniteSet(Accounts)
        /\ Operator \in Accounts /\ Fee[h] \in Nat
    BY <1>1, <1>2, DataAssumption
  <2> QED
    BY <2>1, TotalPlus
<1>5. sats' = Plus(left, Operator, Fee[h]) /\ charged' = charged \cup {h} /\ h \notin charged
  BY DEF MoveFee, left, FeesHeld
<1>6. sats'[Operator] = sats[Operator] + Fee[h]
  BY <1>1, <1>2, <1>3, <1>5 DEF Plus
<1>7. Total(Fee, charged') = Total(Fee, charged) + Fee[h] /\ Total(Fee, charged) \in Nat
  BY <1>1, <1>5, FeeColumn, TotalInsert DEF TypeOK
<1>8. sats[Operator] >= Total(Fee, charged) /\ sats[Operator] \in Nat
  BY <1>1 DEF FeesHeld, TypeOK
<1>9. Total(sats, Accounts) = Total(Sats0, Accounts)
  BY DEF FeesHeld, SatsConserved
<1>10. Total(sats, Accounts) \in Nat
  BY TotalNat, DataAssumption DEF TypeOK, Column
<1>11. SatsConserved'
  BY <1>1, <1>2, <1>4, <1>5, <1>9, <1>10 DEF SatsConserved
<1>12. sats'[Operator] >= Total(Fee, charged')
  BY <1>1, <1>6, <1>7, <1>8
<1> QED
  BY <1>1, <1>11, <1>12

LEMMA RefundFeeHeld ==
  ASSUME TypeOK, FeesHeld, NEW h \in Requests, SendRefundFee(h)
  PROVE  SatsConserved' /\ sats'[Operator] >= Total(Fee, charged') /\ charged' = charged \ {h}
<1>1. h \in charged /\ ~FeeWaived(h)
  BY DEF FeesHeld, SendRefundFee, Goto
<1>2. /\ Operator \in Accounts /\ Owner[h] \in Accounts /\ Owner[h] # Operator
      /\ Fee[h] \in Nat
  BY <1>1, DataAssumption DEF FeeWaived
<1>3. /\ Total(Fee, charged \ {h}) = Total(Fee, charged) - Fee[h]
      /\ Total(Fee, charged \ {h}) \in Nat /\ Total(Fee, charged) \in Nat
  <2>1. charged \in SUBSET Requests /\ charged \ {h} \in SUBSET Requests
    BY DEF TypeOK
  <2> QED
    BY <1>1, <2>1, FeeColumn, TotalRemove
<1>4. sats[Operator] >= Total(Fee, charged) /\ sats[Operator] \in Nat
  BY <1>2 DEF FeesHeld, TypeOK
<1>5. Fee[h] <= sats[Operator]
  BY <1>2, <1>3, <1>4
<1> DEFINE paid == Plus(sats, Owner[h], Fee[h])
<1>6. paid \in [Accounts -> Nat] /\ Total(paid, Accounts) = Total(sats, Accounts) + Fee[h]
  BY <1>2, DataAssumption, TotalPlus DEF TypeOK
<1>7. paid[Operator] = sats[Operator]
  BY <1>2 DEF Plus, TypeOK
<1>8. sats' = Minus(paid, Operator, Smaller(Fee[h], paid[Operator])) /\ charged' = charged \ {h}
  BY DEF SendRefundFee
<1> HIDE DEF paid
<1>9. Smaller(Fee[h], paid[Operator]) = Fee[h]
  BY <1>2, <1>4, <1>5, <1>7 DEF Smaller
<1>10. Total(Minus(paid, Operator, Fee[h]), Accounts) = Total(paid, Accounts) - Fee[h]
  BY <1>2, <1>5, <1>6, <1>7, DataAssumption, TotalMinus
<1>11. sats'[Operator] = sats[Operator] - Fee[h]
  BY <1>2, <1>6, <1>7, <1>8, <1>9 DEF Minus
<1>12. Total(sats, Accounts) = Total(Sats0, Accounts) /\ Total(sats, Accounts) \in Nat
  BY TotalNat, DataAssumption DEF FeesHeld, SatsConserved, TypeOK, Column
<1>13. SatsConserved'
  BY <1>2, <1>6, <1>8, <1>9, <1>10, <1>12 DEF SatsConserved
<1>14. sats'[Operator] >= Total(Fee, charged')
  BY <1>2, <1>3, <1>4, <1>8, <1>11
<1> QED
  BY <1>8, <1>13, <1>14

\* Steps that move no sats.
LEMMA FeesRest ==
  ASSUME TypeOK, FeesHeld, UNCHANGED fees,
         \A h \in Requests : /\ pc'[h] = "feeback" => pc[h] = "feeback" \/ h \in charged
                             /\ pc'[h] \in {"idle", "reserved"} => pc[h] \in {"idle", "reserved"}
  PROVE  FeesHeld'
BY DEF FeesHeld, fees, FeeWaived, SatsConserved, TypeOK

LEMMA FeesStep == TypeOK /\ FeesHeld /\ [Next]_vars => FeesHeld'
<1> SUFFICES ASSUME TypeOK, FeesHeld, [Next]_vars PROVE FeesHeld'
  OBVIOUS
<1>1. ASSUME NEW h \in Requests, SendCall(h), ~FeeWaived(h) PROVE FeesHeld'
  <2>1. pc[h] = "reserved" /\ pc' = [pc EXCEPT ![h] = "calling"] /\ MoveFee(h)
    BY <1>1 DEF SendCall, Goto
  <2>2. charged' = charged \cup {h}
    BY <2>1 DEF MoveFee
  <2> QED
    BY <1>1, <2>1, <2>2, MoveFeeHeld DEF FeesHeld, FeeWaived, TypeOK
<1>2. ASSUME NEW h \in Requests, SendRefundFee(h) PROVE FeesHeld'
  <2>1. pc' = [pc EXCEPT ![h] = "failed"]
    BY <1>2 DEF SendRefundFee, Goto
  <2> QED
    BY <1>2, <2>1, RefundFeeHeld DEF FeesHeld, FeeWaived, TypeOK
<1>3. ASSUME NEW h \in Requests, Handler(h), ~SendRefundFee(h), ~(SendCall(h) /\ ~FeeWaived(h))
      PROVE  FeesHeld'
  <2>1. UNCHANGED fees
    BY <1>3 DEF Handler, LnPay, LnPayReserve, LnPaySucceeded, LnPayFailed, Send, SendReserve,
       SendCall, SendFeeRefused, SendSucceeded, SendFailed, Burn, BurnDebit, BurnSucceeded,
       BurnFailed, Dropped
  <2>2. \A g \in Requests : /\ pc'[g] = "feeback" => pc[g] = "feeback" \/ g \in charged
                            /\ pc'[g] \in {"idle", "reserved"} => pc[g] \in {"idle", "reserved"}
    BY <1>3 DEF Handler, LnPay, LnPayReserve, LnPaySucceeded, LnPayFailed, Send, SendReserve,
       SendCall, SendFeeRefused, SendSucceeded, SendFailed, Burn, BurnDebit, BurnSucceeded,
       BurnFailed, Dropped, Goto, TypeOK
  <2> QED
    BY <2>1, <2>2, FeesRest
<1>4. CASE Crash
  <2>1. \A g \in Requests : pc'[g] \in {pc[g], "gone"}
    BY <1>4 DEF Crash
  <2> QED
    BY <1>4, <2>1, FeesRest DEF Crash
<1>5. ASSUME \/ \E h \in Requests : Node(h)
             \/ \E a \in Callers, b \in Accounts, n \in TransferAmounts : Transfer(a, b, n)
             \/ Recovery \/ UNCHANGED vars
      PROVE  FeesHeld'
  <2>1. UNCHANGED <<fees, pc>>
    BY <1>5 DEF Node, NodeAccepts, NodeRejects, NodeSucceeds, NodeFails, NodeStep, Transfer,
       Recovery, ReadRows, NextRow, TrackAnswers, TrackErrs, ApplyVerdict, RecoveryOnly, vars
  <2> QED
    BY <2>1, FeesRest
<1> QED
  BY <1>1, <1>2, <1>3, <1>4, <1>5 DEF Next

LEMMA FeesHolds == Spec => []FeesHeld
<1>1. Init => FeesHeld
  <2>1. Init => charged = {} /\ sats = Sats0 /\ \A h \in Requests : pc[h] = "idle"
    BY DEF Init
  <2>2. Operator \in Accounts => Sats0[Operator] \in Nat
    BY StartAssumption
  <2> QED
    BY <2>1, <2>2, TotalEmpty DEF FeesHeld, SatsConserved
<1> QED
  BY <1>1, FeesStep, TypeCorrect, PTL DEF Spec

\* Fees are moved and given back, never made or lost: refund_fee's saturating
\* debit always finds the operator's share (registry.rs 863-884).
THEOREM FeesConserved == Spec => []SatsConserved
<1>1. FeesHeld => SatsConserved
  BY DEF FeesHeld
<1> QED
  BY <1>1, FeesHolds, PTL

\* Whose sats a fee is: what an account has, and what it paid in fees that it
\* did not get back, is what it had and, of the operator, what it took.
FeesOf(a) == {h \in charged : Owner[h] = a}
Takings(a) == IF a = Operator THEN Total(Fee, charged) ELSE 0
AccountAgrees(a) == sats[a] + Total(Fee, FeesOf(a)) = Sats0[a] + Takings(a)
AccountsAgree == \A a \in Accounts : AccountAgrees(a)

LEMMA MoveFeeAgrees ==
  ASSUME TypeOK, FeesHeld, AccountsAgree, NEW h \in Requests, pc[h] = "reserved",
         ~FeeWaived(h), MoveFee(h)
  PROVE  AccountsAgree'
<1>1. /\ Operator \in Accounts /\ Owner[h] \in Accounts /\ Owner[h] # Operator
      /\ Fee[h] \in Nat
  BY DataAssumption DEF FeeWaived
<1>2. charged \in SUBSET Requests /\ charged' = charged \cup {h} /\ h \notin charged
  BY DEF MoveFee, FeesHeld, TypeOK
<1>3. \A a \in Accounts :
        sats'[a] = IF a = Owner[h] THEN sats[a] - Fee[h]
                   ELSE IF a = Operator THEN sats[a] + Fee[h] ELSE sats[a]
  BY <1>1 DEF MoveFee, Plus, Minus, TypeOK
<1>4. /\ Total(Fee, charged') = Total(Fee, charged) + Fee[h]
      /\ Total(Fee, charged) \in Nat
  BY <1>1, <1>2, FeeColumn, TotalInsert
<1> SUFFICES ASSUME NEW a \in Accounts PROVE AccountAgrees(a)'
  BY DEF AccountsAgree
<1>5. sats[a] \in Nat /\ Sats0[a] \in Nat
  BY StartAssumption DEF TypeOK
<1>6. FeesOf(a) \in SUBSET Requests /\ h \notin FeesOf(a)
  BY <1>2 DEF FeesOf
<1>7. Total(Fee, FeesOf(a)) \in Nat
  BY <1>6, FeeColumn
<1>8. sats[a] + Total(Fee, FeesOf(a)) = Sats0[a] + Takings(a)
  BY DEF AccountsAgree, AccountAgrees
<1>9. FeesOf(a)' = IF a = Owner[h] THEN FeesOf(a) \cup {h} ELSE FeesOf(a)
  BY <1>2 DEF FeesOf
<1>10. Total(Fee, FeesOf(a)') = Total(Fee, FeesOf(a)) + (IF a = Owner[h] THEN Fee[h] ELSE 0)
  <2>1. Total(Fee, FeesOf(a) \cup {h}) = Total(Fee, FeesOf(a)) + Fee[h]
    BY <1>1, <1>6, FeeColumn, TotalInsert
  <2> QED
    BY <1>7, <1>9, <2>1
<1>11. Takings(a)' = Takings(a) + (IF a = Operator THEN Fee[h] ELSE 0) /\ Takings(a) \in Nat
  BY <1>1, <1>4 DEF Takings
<1>12. sats'[a] + Total(Fee, FeesOf(a)') = Sats0[a] + Takings(a)'
  BY <1>1, <1>3, <1>5, <1>7, <1>8, <1>10, <1>11
<1> QED
  BY <1>12 DEF AccountAgrees

LEMMA RefundFeeAgrees ==
  ASSUME TypeOK, FeesHeld, AccountsAgree, NEW h \in Requests, SendRefundFee(h)
  PROVE  AccountsAgree'
<1>1. h \in charged /\ ~FeeWaived(h) /\ charged \in SUBSET Requests
  BY DEF FeesHeld, SendRefundFee, Goto, TypeOK
<1>2. /\ Operator \in Accounts /\ Owner[h] \in Accounts /\ Owner[h] # Operator
      /\ Fee[h] \in Nat /\ charged' = charged \ {h}
  BY <1>1, DataAssumption DEF FeeWaived, SendRefundFee
<1>3. /\ Total(Fee, charged \ {h}) = Total(Fee, charged) - Fee[h]
      /\ Total(Fee, charged \ {h}) \in Nat /\ Total(Fee, charged) \in Nat
  BY <1>1, FeeColumn, TotalRemove
<1>4. sats[Operator] \in Nat /\ Fee[h] <= sats[Operator]
  <2>1. sats[Operator] \in Nat /\ sats[Operator] >= Total(Fee, charged)
    BY <1>2 DEF FeesHeld, TypeOK
  <2> QED
    BY <1>2, <1>3, <2>1
<1> DEFINE paid == Plus(sats, Owner[h], Fee[h])
<1>5. /\ paid \in [Accounts -> Nat] /\ paid[Operator] = sats[Operator]
      /\ \A a \in Accounts : paid[a] = IF a = Owner[h] THEN sats[a] + Fee[h] ELSE sats[a]
  BY <1>2 DEF Plus, TypeOK
<1>6. sats' = Minus(paid, Operator, Smaller(Fee[h], paid[Operator]))
  BY DEF SendRefundFee
<1> HIDE DEF paid
<1>7. Smaller(Fee[h], paid[Operator]) = Fee[h]
  BY <1>2, <1>4, <1>5 DEF Smaller
<1>8. \A a \in Accounts :
        sats'[a] = IF a = Owner[h] THEN sats[a] + Fee[h]
                   ELSE IF a = Operator THEN sats[a] - Fee[h] ELSE sats[a]
  BY <1>2, <1>5, <1>6, <1>7 DEF Minus
<1> SUFFICES ASSUME NEW a \in Accounts PROVE AccountAgrees(a)'
  BY DEF AccountsAgree
<1>9. sats[a] \in Nat /\ Sats0[a] \in Nat
  BY StartAssumption DEF TypeOK
<1>10. FeesOf(a) \in SUBSET Requests /\ (a = Owner[h] => h \in FeesOf(a))
  BY <1>1 DEF FeesOf
<1>11. Total(Fee, FeesOf(a)) \in Nat
  BY <1>10, FeeColumn
<1>12. sats[a] + Total(Fee, FeesOf(a)) = Sats0[a] + Takings(a)
  BY DEF AccountsAgree, AccountAgrees
<1>13. FeesOf(a)' = IF a = Owner[h] THEN FeesOf(a) \ {h} ELSE FeesOf(a)
  BY <1>2 DEF FeesOf
<1>14. Total(Fee, FeesOf(a)') = Total(Fee, FeesOf(a)) - (IF a = Owner[h] THEN Fee[h] ELSE 0)
  <2>1. a = Owner[h] => Total(Fee, FeesOf(a) \ {h}) = Total(Fee, FeesOf(a)) - Fee[h]
    BY <1>10, FeeColumn, TotalRemove
  <2> QED
    BY <1>11, <1>13, <2>1
<1>15. Takings(a)' = Takings(a) - (IF a = Operator THEN Fee[h] ELSE 0) /\ Takings(a) \in Nat
  BY <1>2, <1>3 DEF Takings
<1>16. sats'[a] + Total(Fee, FeesOf(a)') = Sats0[a] + Takings(a)'
  BY <1>2, <1>8, <1>9, <1>11, <1>12, <1>14, <1>15
<1> QED
  BY <1>16 DEF AccountAgrees

\* Where a send stands and what its row, its event and its fee are.  Recovery
\* tracks Lightning payments only, so a send's row is its handler's.
SendInv(h) ==
  /\ pc[h] \in {"reserved", "calling"} => h \in inFlight
  /\ pc[h] = "calling" => FeeWaived(h) \/ h \in charged
  /\ pc[h] = "ok" => h \in events /\ (FeeWaived(h) \/ h \in charged)
  /\ pc[h] = "failed" => h \notin charged
  /\ pc[h] = "gone" => h \in inFlight \/ crashes > 0

SendsInv ==
  /\ cur # NoRequest => Kind[cur] = "ln_send"
  /\ \A h \in Requests : Kind[h] = "send" => SendInv(h)

\* Steps that are not about a send keep what is known of it.
LEMMA SendRests ==
  ASSUME NEW h \in Requests, SendInv(h), pc'[h] = pc[h],
         h \in inFlight' <=> h \in inFlight, h \in events' <=> h \in events,
         h \in charged' <=> h \in charged, crashes' >= crashes, crashes \in Nat, crashes' \in Nat
  PROVE  SendInv(h)'
BY DEF SendInv, FeeWaived

LEMMA SettleRow ==
  ASSUME NEW h \in Requests, SettleInFlight(h)
  PROVE  /\ inFlight' = inFlight \ {h}
         /\ events' = IF h \in inFlight THEN events \cup {h} ELSE events
BY DEF SettleInFlight, RecordEvent, ledger

LEMMA HandlerSends ==
  ASSUME TypeOK, Bookkeeping, FeesHeld, SendsInv, NEW g \in Requests, Handler(g)
  PROVE  SendsInv'
<1> USE DEF Goto
<1>1. UNCHANGED <<cur, crashes>> /\ crashes \in Nat
  BY DataAssumption DEF TypeOK, Handler, LnPay, LnPayReserve, LnPaySucceeded, LnPayFailed, Send, SendReserve,
     SendCall, SendFeeRefused, SendSucceeded, SendFailed, SendRefundFee, Burn, BurnDebit,
     BurnSucceeded, BurnFailed, Dropped, recovery
<1>2. \A h \in Requests \ {g} :
        /\ pc'[h] = pc[h] /\ (h \in inFlight' <=> h \in inFlight)
        /\ (h \in events' <=> h \in events) /\ (h \in charged' <=> h \in charged)
  BY DEF TypeOK, Handler, LnPay, LnPayReserve, LnPaySucceeded, LnPayFailed, Send, SendReserve,
     SendCall, SendFeeRefused, SendSucceeded, SendFailed, SendRefundFee, Burn, BurnDebit,
     BurnSucceeded, BurnFailed, Dropped, DebitAndMark, SettleInFlight, RefundInFlight,
     RecordEvent, MoveFee, ledger, fees
<1>3. ASSUME Kind[g] = "send" PROVE SendInv(g)'
  <2>1. SendInv(g) /\ (pc[g] \in {"idle", "reserved"} => g \notin charged)
    BY <1>3 DEF SendsInv, FeesHeld
  <2>2. CASE SendReserve(g)
    BY <2>1, <2>2 DEF SendReserve, DebitAndMark, TypeOK, SendInv, FeeWaived
  <2>3. CASE SendCall(g)
    BY <2>1, <2>3 DEF SendCall, MoveFee, ledger, TypeOK, SendInv, FeeWaived
  <2>4. CASE SendFeeRefused(g)
    BY <2>1, <2>4 DEF SendFeeRefused, fees, TypeOK, SendInv
  <2>5. CASE SendSucceeded(g)
    <3>1. g \in events'
      BY <2>1, <2>5, SettleRow DEF SendSucceeded, SendInv
    <3> QED
      BY <2>1, <2>5, <3>1 DEF SendSucceeded, fees, TypeOK, SendInv, FeeWaived
  <2>6. CASE SendFailed(g)
    BY <2>1, <2>6 DEF SendFailed, fees, TypeOK, SendInv
  <2>7. CASE SendRefundFee(g)
    BY <2>1, <2>7 DEF SendRefundFee, TypeOK, SendInv
  <2>8. CASE Dropped(g)
    BY <2>1, <2>8 DEF Dropped, ledger, TypeOK, SendInv
  <2> QED
    BY <1>3, <2>2, <2>3, <2>4, <2>5, <2>6, <2>7, <2>8
       DEF Handler, LnPay, LnPayReserve, LnPaySucceeded, LnPayFailed, Send, Burn, BurnDebit,
           BurnSucceeded, BurnFailed
<1>4. ASSUME NEW h \in Requests \ {g}, Kind[h] = "send" PROVE SendInv(h)'
  BY <1>1, <1>2, <1>4, SendRests DEF SendsInv
<1> QED
  BY <1>1, <1>3, <1>4 DEF SendsInv

LEMMA RestSends ==
  ASSUME TypeOK, SendsInv,
         \/ \E h \in Requests : Node(h)
         \/ \E a \in Callers, b \in Accounts, n \in TransferAmounts : Transfer(a, b, n)
         \/ Recovery \/ Crash \/ UNCHANGED vars
  PROVE  SendsInv'
<1>1. crashes \in Nat
  BY DataAssumption DEF TypeOK
<1>2. CASE ApplyVerdict
  <2>1. cur \in Requests /\ Kind[cur] = "ln_send" /\ cur' = NoRequest
        /\ UNCHANGED <<fees, pc, crashes>>
    BY <1>2 DEF ApplyVerdict, Tracking, TypeOK, SendsInv
  <2>2. inFlight' \cup {cur} = inFlight \cup {cur} /\ events' \cup {cur} = events \cup {cur}
    BY <1>2, <2>1 DEF ApplyVerdict, SettleInFlight, RefundInFlight, RecordEvent, ledger
  <2>3. ASSUME NEW h \in Requests, Kind[h] = "send" PROVE SendInv(h)'
    <3>1. h # cur /\ SendInv(h)
      BY <2>1, <2>3 DEF SendsInv
    <3> QED
      BY <1>1, <2>1, <2>2, <3>1, SendRests DEF fees
  <2> QED
    BY <2>1, <2>3 DEF SendsInv
<1>3. CASE Crash
  <2>1. /\ cur' = NoRequest /\ crashes' > 0 /\ UNCHANGED <<ledger, fees>>
        /\ \A h \in Requests : pc'[h] = "gone" \/ (pc'[h] = pc[h] /\ ~Live(h))
    BY <1>1, <1>3 DEF Crash
  <2>2. ASSUME NEW h \in Requests, Kind[h] = "send" PROVE SendInv(h)'
    BY <2>1, <2>2 DEF SendsInv, SendInv, FeeWaived, ledger, fees
  <2> QED
    BY <2>1, <2>2 DEF SendsInv
<1>4. CASE ~ApplyVerdict /\ ~Crash
  <2>1. UNCHANGED <<inFlight, events, charged, pc, crashes>>
    BY <1>4 DEF Node, NodeAccepts, NodeRejects, NodeSucceeds, NodeFails, NodeStep, Transfer,
       Recovery, ReadRows, NextRow, TrackAnswers, TrackErrs, RecoveryOnly, vars, ledger, fees
  <2>2. cur' # NoRequest => Kind[cur'] = "ln_send"
    BY <1>4 DEF SendsInv, Node, NodeAccepts, NodeRejects, NodeSucceeds, NodeFails, NodeStep,
       Transfer, Recovery, ReadRows, NextRow, Trackable, TrackAnswers, TrackErrs, recovery, vars
  <2> QED
    BY <2>1, <2>2 DEF SendsInv, SendInv, FeeWaived
<1> QED
  BY <1>2, <1>3, <1>4

LEMMA AgreeStep ==
  ASSUME TypeOK, FeesHeld, AccountsAgree, [Next]_vars
  PROVE  AccountsAgree'
<1>1. ASSUME NEW h \in Requests, SendCall(h), ~FeeWaived(h) PROVE AccountsAgree'
  BY <1>1, MoveFeeAgrees DEF SendCall, Goto
<1>2. ASSUME NEW h \in Requests, SendRefundFee(h) PROVE AccountsAgree'
  BY <1>2, RefundFeeAgrees
<1>3. ASSUME UNCHANGED fees PROVE AccountsAgree'
  BY <1>3 DEF fees, AccountsAgree, AccountAgrees, FeesOf, Takings
<1>4. \/ UNCHANGED fees
      \/ \E h \in Requests : SendRefundFee(h) \/ (SendCall(h) /\ ~FeeWaived(h))
  BY DEF Next, Handler, LnPay, LnPayReserve, LnPaySucceeded, LnPayFailed, Send, SendReserve,
     SendCall, SendFeeRefused, SendSucceeded, SendFailed, Burn, BurnDebit, BurnSucceeded,
     BurnFailed, Dropped, Node, NodeAccepts, NodeRejects, NodeSucceeds, NodeFails, NodeStep,
     Transfer, Recovery, ReadRows, NextRow, TrackAnswers, TrackErrs, ApplyVerdict, RecoveryOnly,
     Crash, vars
<1> QED
  BY <1>1, <1>2, <1>3, <1>4

\* Every sat of a fee is somebody's, and the fee agrees with the answer: a send
\* that went through was charged, one that failed was given its fee back, and a
\* fee outlives its send's refund only by a crash between the two refunds.
THEOREM FeesAgree == Spec => []FeesMatchAnswers
<1>1. Init => AccountsAgree /\ SendsInv
  <2> SUFFICES ASSUME Init PROVE AccountsAgree /\ SendsInv
    OBVIOUS
  <2>1. charged = {} /\ sats = Sats0 /\ cur = NoRequest /\ \A h \in Requests : pc[h] = "idle"
    BY DEF Init
  <2>2. \A a \in Accounts : FeesOf(a) = {} /\ Takings(a) = 0
    BY <2>1, TotalEmpty DEF FeesOf, Takings
  <2>3. AccountsAgree
    BY <2>1, <2>2, TotalEmpty DEF AccountsAgree, AccountAgrees
  <2> QED
    BY <2>1, <2>3 DEF SendsInv, SendInv
<1>2. TypeOK /\ Bookkeeping /\ FeesHeld /\ AccountsAgree /\ SendsInv /\ [Next]_vars
        => AccountsAgree' /\ SendsInv'
  BY AgreeStep, HandlerSends, RestSends DEF Next
<1>3. TypeOK /\ Bookkeeping /\ FeesHeld /\ AccountsAgree /\ SendsInv => FeesMatchAnswers
  <2> SUFFICES ASSUME TypeOK, Bookkeeping, FeesHeld, AccountsAgree, SendsInv
               PROVE  FeesMatchAnswers
    OBVIOUS
  <2>1. ASSUME NEW h \in Requests, Kind[h] = "send", h \in charged, Refunded(h)
        PROVE  pc[h] = "feeback" \/ (pc[h] = "gone" /\ crashes > 0)
    BY <2>1 DEF TypeOK, Phases, SendsInv, SendInv, Refunded, Open
  <2>2. \A h \in Requests : Kind[h] = "send" =>
          /\ pc[h] = "ok" => FeeWaived(h) \/ h \in charged
          /\ pc[h] = "failed" => h \notin charged
    BY DEF SendsInv, SendInv
  <2>3. \A a \in Accounts :
          sats[a] + Total(Fee, {h \in charged : Owner[h] = a})
            = Sats0[a] + (IF a = Operator THEN Total(Fee, charged) ELSE 0)
    BY DEF AccountsAgree, AccountAgrees, FeesOf, Takings
  <2> QED
    BY <2>1, <2>2, <2>3 DEF FeesMatchAnswers
<1> QED
  BY <1>1, <1>2, <1>3, FeesHolds, TypeCorrect, BookkeepingHolds, PTL DEF Spec

----------------------------------------------------------------------------
(* Ledger, node and answers, when a failure reply is the truth and no two  *)
(* requests pay one invoice                                                *)

Faithful == ~LossyReplies /\ \A g, h \in Requests : SameInvoice(g, h) => g = h

Unspent == {"none", "rejected", "failed"}

Honest(h) ==
  /\ h \in events => attempt[h] = "succeeded"
  /\ Refunded(h) => attempt[h] \in Unspent
  /\ pc[h] = "reserved" => h \in inFlight /\ Kind[h] # "ln_send"
  /\ pc[h] = "ok" => h \in events
  /\ pc[h] \in {"failed", "feeback"} => Refunded(h)

\* What the recovery pass has been told of the payment it tracks.
Told ==
  /\ cur # NoRequest => Trackable(cur)
  /\ verdict # "none" => cur \in Requests /\ attempt[cur] = verdict

Honesty == Told /\ \A h \in Requests : Honest(h)

LEMMA StatusIsAttempt ==
  ASSUME TypeOK, Faithful, NEW h \in Requests
  PROVE  PaymentStatus(h) \in {"succeeded", "failed"} => attempt[h] = PaymentStatus(h)
<1>1. {g \in Requests : SameInvoice(g, h)} = {h}
  BY DEF Faithful, SameInvoice
<1>2. Tried(h) = {attempt[h]}
  BY <1>1 DEF Tried
<1> QED
  BY <1>2 DEF PaymentStatus

\* A step about h leaves the others alone.
OnlyAbout(h) ==
  \A x \in Requests \ {h} :
    /\ pc'[x] = pc[x] /\ attempt'[x] = attempt[x]
    /\ (x \in inFlight' <=> x \in inFlight) /\ (x \in events' <=> x \in events)

LEMMA OthersHonest ==
  ASSUME NEW h \in Requests, NEW x \in Requests \ {h}, OnlyAbout(h), Honest(x)
  PROVE  Honest(x)'
BY DEF OnlyAbout, Honest, Refunded, Open

LEMMA HandlerHonest ==
  ASSUME TypeOK, Bookkeeping, Faithful, Honesty, NEW h \in Requests, Handler(h)
  PROVE  Honesty'
<1> USE DEF Goto
<1>1. /\ Honest(h) /\ UNCHANGED <<cur, verdict>> /\ (verdict # "none" /\ cur = h => attempt[h] = verdict)
      /\ \A x \in Requests \ {h} : attempt'[x] = attempt[x] /\ pc'[x] = pc[x]
  BY DEF Honesty, Told, TypeOK, Handler, LnPay, LnPayReserve, LnPaySucceeded, LnPayFailed, Send,
     SendReserve, SendCall, SendFeeRefused, SendSucceeded, SendFailed, SendRefundFee, Burn,
     BurnDebit, BurnSucceeded, BurnFailed, Dropped, Call, recovery, node
<1>2. /\ pc[h] = "idle" => h \notin inFlight /\ h \notin events
      /\ pc[h] \in {"idle", "reserved"} => attempt[h] = "none"
      /\ Kind[h] = "burn" => /\ h \notin inFlight /\ (h \in events => pc[h] = "ok")
                             /\ pc[h] \notin {"reserved", "feeback"}
      /\ ~(h \in inFlight /\ h \in events) /\ ~LossyReplies
  BY DEF Bookkeeping, Faithful
<1>3. OnlyAbout(h) /\ Honest(h)' /\ (attempt'[h] = attempt[h] \/ attempt[h] = "none")
  <2>1. CASE LnPayReserve(h)
    BY <1>1, <1>2, <2>1 DEF LnPayReserve, DebitAndMark, Call, TypeOK, OnlyAbout, Honest, Refunded, Open
  <2>2. CASE LnPaySucceeded(h) \/ SendSucceeded(h)
    <3>1. /\ SettleInFlight(h) /\ attempt[h] = "succeeded" /\ Kind[h] # "burn"
          /\ pc[h] = "calling" /\ pc'[h] = "ok" /\ UNCHANGED attempt
      BY <2>2 DEF LnPaySucceeded, SendSucceeded, RepliesOk, node, TypeOK
    <3>2. h \in inFlight \/ h \in events
      BY <1>1, <3>1 DEF Honest, Refunded, Open, Unspent
    <3> QED
      BY <1>1, <1>2, <3>1, <3>2, SettleRow DEF OnlyAbout, Honest, Refunded, Open
  <2>3. CASE LnPayFailed(h) \/ SendFailed(h)
    <3>1. /\ RefundInFlight(h) /\ attempt[h] \in Unspent /\ Kind[h] # "burn"
          /\ pc[h] = "calling" /\ pc'[h] \in {"failed", "feeback"} /\ UNCHANGED attempt
      BY <1>2, <2>3 DEF LnPayFailed, SendFailed, RepliesErr, node, TypeOK, Unspent
    <3>2. h \notin events
      BY <1>1, <3>1 DEF Honest, Unspent
    <3> QED
      BY <1>1, <1>2, <3>1, <3>2, RefundBookkeeping DEF OnlyAbout, Honest, Refunded, Open
  <2>4. CASE SendReserve(h)
    BY <1>1, <1>2, <2>4 DEF SendReserve, DebitAndMark, node, TypeOK, OnlyAbout, Honest, Refunded, Open
  <2>5. CASE SendCall(h)
    BY <1>1, <1>2, <2>5 DEF SendCall, Call, ledger, TypeOK, OnlyAbout, Honest, Refunded, Open
  <2>6. CASE SendFeeRefused(h)
    <3>1. /\ RefundInFlight(h) /\ attempt[h] = "none" /\ h \in inFlight /\ Kind[h] # "burn"
          /\ pc'[h] = "failed" /\ UNCHANGED attempt
      BY <1>1, <1>2, <2>6 DEF SendFeeRefused, node, TypeOK, Honest
    <3> QED
      BY <1>1, <1>2, <3>1, RefundBookkeeping DEF OnlyAbout, Honest, Refunded, Open, Unspent
  <2>7. CASE SendRefundFee(h)
    BY <1>1, <1>2, <2>7 DEF SendRefundFee, ledger, node, TypeOK, OnlyAbout, Honest, Refunded, Open
  <2>8. CASE BurnDebit(h)
    BY <1>1, <1>2, <2>8 DEF BurnDebit, Call, TypeOK, OnlyAbout, Honest, Refunded, Open
  <2>9. CASE BurnSucceeded(h)
    BY <1>1, <1>2, <2>9 DEF BurnSucceeded, RecordEvent, RepliesOk, node, TypeOK, OnlyAbout, Honest,
       Refunded, Open
  <2>10. CASE BurnFailed(h)
    BY <1>1, <1>2, <2>10 DEF BurnFailed, RepliesErr, node, TypeOK, OnlyAbout, Honest, Refunded,
       Open, Unspent
  <2>11. CASE Dropped(h)
    BY <1>1, <1>2, <2>11 DEF Dropped, ledger, node, TypeOK, OnlyAbout, Honest, Refunded, Open
  <2> QED
    BY <2>1, <2>2, <2>3, <2>4, <2>5, <2>6, <2>7, <2>8, <2>9, <2>10, <2>11
       DEF Handler, LnPay, Send, Burn
<1>4. \A x \in Requests : Honest(x)'
  BY <1>3, OthersHonest DEF Honesty
<1>5. Told'
  <2>1. verdict \in {"none", "succeeded", "failed"}
    BY DEF TypeOK
  <2> QED
    BY <1>1, <1>3, <2>1 DEF Honesty, Told, Trackable
<1> QED
  BY <1>4, <1>5 DEF Honesty

LEMMA NodeHonest ==
  ASSUME TypeOK, Honesty, NEW h \in Requests, Node(h)
  PROVE  Honesty'
<1>1. /\ UNCHANGED <<pc, inFlight, events, cur, verdict>>
      /\ \A x \in Requests \ {h} : attempt'[x] = attempt[x]
      /\ \/ attempt[h] = "sent"
         \/ attempt[h] = "inflight"
  BY DEF Node, NodeAccepts, NodeRejects, NodeSucceeds, NodeFails, NodeStep, TypeOK, ledger, recovery
<1>2. OnlyAbout(h)
  BY <1>1 DEF OnlyAbout
<1>3. Honest(h)'
  BY <1>1 DEF Honesty, Honest, Refunded, Open, Unspent
<1>4. Told'
  <2>1. verdict \in {"none", "succeeded", "failed"}
    BY DEF TypeOK
  <2> QED
    BY <1>1, <2>1 DEF Honesty, Told, Trackable
<1> QED
  BY <1>2, <1>3, <1>4, OthersHonest DEF Honesty

\* Steps that leave rows, events and the node alone.
LEMMA RestHonest ==
  ASSUME TypeOK, Honesty, UNCHANGED <<inFlight, events, attempt>>, Told',
         \A h \in Requests : pc'[h] = pc[h] \/ (Live(h) /\ pc'[h] = "gone")
  PROVE  Honesty'
<1>1. ASSUME NEW h \in Requests PROVE Honest(h)'
  <2>1. Honest(h) /\ (pc'[h] = pc[h] \/ (pc[h] \in {"reserved", "calling", "feeback"} /\ pc'[h] = "gone"))
    BY DEF Honesty, Live
  <2> QED
    BY <2>1 DEF Honest, Refunded, Open
<1> QED
  BY <1>1 DEF Honesty

LEMMA ApplyHonest ==
  ASSUME TypeOK, Bookkeeping, Honesty, ApplyVerdict
  PROVE  Honesty'
<1>1. PICK h \in Requests : h = cur
  BY DEF ApplyVerdict, Tracking, TypeOK
<1>2. /\ cur' = NoRequest /\ verdict' = "none" /\ UNCHANGED <<pc, attempt>>
      /\ attempt[h] = verdict /\ Kind[h] = "ln_send" /\ Honest(h)
  BY <1>1 DEF ApplyVerdict, Honesty, Told, Trackable, Tracking, node
<1>3. Told'
  BY <1>2, DataAssumption DEF Told
<1>4. CASE verdict = "succeeded" /\ SettleInFlight(h)
  <2>1. OnlyAbout(h)
    BY <1>2, <1>4, SettleRow DEF OnlyAbout
  <2>2. Honest(h)'
    BY <1>2, <1>4, SettleRow DEF Honest, Refunded, Open, Bookkeeping
  <2> QED
    BY <1>3, <2>1, <2>2, OthersHonest DEF Honesty
<1>5. CASE verdict # "succeeded" /\ RefundInFlight(h)
  <2>1. OnlyAbout(h)
    BY <1>2, <1>5, RefundBookkeeping DEF OnlyAbout
  <2>2. attempt[h] = "failed"
    BY <1>2, <1>5 DEF ApplyVerdict, TypeOK
  <2>3. Honest(h)'
    BY <1>2, <1>5, <2>2, RefundBookkeeping DEF Honest, Refunded, Open, Unspent, Bookkeeping
  <2> QED
    BY <1>3, <2>1, <2>3, OthersHonest DEF Honesty
<1> QED
  BY <1>1, <1>4, <1>5 DEF ApplyVerdict

LEMMA HonestyStep == TypeOK /\ Bookkeeping /\ Faithful /\ Honesty /\ [Next]_vars => Honesty'
<1> SUFFICES ASSUME TypeOK, Bookkeeping, Faithful, Honesty, [Next]_vars PROVE Honesty'
  OBVIOUS
<1> USE DEF ledger, node, recovery, RecoveryOnly
<1>1. ASSUME NEW h \in Requests, NextRow(h) PROVE Honesty'
  <2>1. verdict = "none"
    BY <1>1, DataAssumption DEF NextRow, Tracking, Honesty, Told
  <2>2. verdict' = "none" /\ cur' \in {h, NoRequest} /\ (cur' = h => Trackable(h))
    BY <1>1, <2>1, DataAssumption DEF NextRow, Tracking
  <2>3. Told'
    BY <1>1, <2>2, DataAssumption DEF NextRow, Told, Trackable
  <2> QED
    BY <1>1, <2>3, RestHonest DEF NextRow
<1>2. ASSUME NEW h \in Requests, TrackAnswers(h) PROVE Honesty'
  <2>1. Told'
    BY <1>2, StatusIsAttempt DEF TrackAnswers, Honesty, Told, Trackable
  <2> QED
    BY <1>2, <2>1, RestHonest DEF TrackAnswers
<1>3. CASE ReadRows \/ TrackErrs
  <2>1. Told'
    BY <1>3 DEF ReadRows, TrackErrs, Honesty, Told, Trackable
  <2> QED
    BY <1>3, <2>1, RestHonest DEF ReadRows, TrackErrs
<1>4. CASE Crash
  <2>1. Told' /\ \A h \in Requests : pc'[h] = pc[h] \/ (Live(h) /\ pc'[h] = "gone")
    BY <1>4 DEF Crash, Told
  <2> QED
    BY <1>4, <2>1, RestHonest DEF Crash
<1>5. ASSUME \/ \E a \in Callers, b \in Accounts, n \in TransferAmounts : Transfer(a, b, n)
             \/ UNCHANGED vars
      PROVE  Honesty'
  <2>1. UNCHANGED <<pc, inFlight, events, attempt, cur, verdict>>
    BY <1>5 DEF Transfer, vars
  <2>2. Told'
    BY <2>1 DEF Honesty, Told, Trackable
  <2> QED
    BY <2>1, <2>2, RestHonest
<1> QED
  BY <1>1, <1>2, <1>3, <1>4, <1>5, HandlerHonest, NodeHonest, ApplyHonest DEF Next, Recovery

LEMMA InitHonesty == Init => Honesty
<1> SUFFICES ASSUME Init PROVE Honesty
  OBVIOUS
<1>1. \A h \in Requests : pc[h] = "idle" /\ h \notin events
  BY DEF Init
<1>2. Told
  BY DEF Init, Told
<1> QED
  BY <1>1, <1>2 DEF Honesty, Honest, Refunded

\* If failures are reported only of what did not happen and no two requests pay
\* one invoice, the ledger says of every payment what the node says.
THEOREM LedgerFaithful ==
  ASSUME Faithful
  PROVE  Spec => []LedgerMatchesNode
<1>1. TypeOK /\ Bookkeeping /\ Honesty /\ [Next]_vars => Honesty'
  BY HonestyStep
<1>2. Honesty => LedgerMatchesNode
  BY DEF Honesty, Honest, LedgerMatchesNode, Unspent
<1> QED
  BY InitHonesty, <1>1, <1>2, TypeCorrect, BookkeepingHolds, PTL DEF Spec

\* Then a client is told of success exactly when its units were recorded as
\* spent, and of failure when they are back, whoever resolved the row.
THEOREM AnswersFaithful ==
  ASSUME Faithful
  PROVE  Spec => []AnswersMatchLedger
<1>1. TypeOK /\ Bookkeeping /\ Honesty /\ [Next]_vars => Honesty'
  BY HonestyStep
<1>2. Honesty => AnswersMatchLedger
  BY DEF Honesty, Honest, AnswersMatchLedger
<1> QED
  BY InitHonesty, <1>1, <1>2, TypeCorrect, BookkeepingHolds, PTL DEF Spec
=============================================================================
