--------------------------- MODULE GatewayCustody ---------------------------
(***************************************************************************)
(* The outgoing side of the gateway's custodial ledger: the handlers       *)
(* ln_pay, send, burn and transfer of gateway/src/routes/mod.rs, the       *)
(* ledger methods of gateway/src/registry.rs they call, and the recovery   *)
(* pass of gateway/src/reconcile.rs, which the maintenance loop of         *)
(* gateway/src/main.rs runs beside them.                                   *)
(*                                                                         *)
(* A handler is a process: it reserves the caller's balance, awaits the    *)
(* node, and resolves the reservation with the answer it got.  A registry  *)
(* method holds the one connection's mutex and is one atomic step; between *)
(* two of them every other handler and the recovery pass may run, a crash  *)
(* may stop the gateway, and a client that hangs up makes the server drop  *)
(* its handler at the await.  The registry survives; pc does not.          *)
(*                                                                         *)
(* One asset is modelled: every ledger key starts with the asset id and no *)
(* step touches two assets.  A request is one HTTP request; what it asks   *)
(* for (kind, caller, units, invoice) is a constant function of it.        *)
(***************************************************************************)
EXTENDS UnitSums

CONSTANTS
  Accounts,         \* keys of the balances table: any 64-hex string
  Callers,          \* the accounts whose owner can sign a request
  Requests,         \* the requests clients may submit, each at most once
  NoRequest,        \* no row is being tracked
  Kind,             \* [Requests -> {"ln_send", "send", "burn"}]
  Owner,            \* [Requests -> Callers], the authenticated caller
  Amt,              \* [Requests -> Nat], units decoded from the request
  Hash,             \* [Requests -> payment hash, or NoHash]
  NoHash,           \* the decoded invoice carries no payment hash
  TransferAmounts,  \* units an internal transfer may move
  Balance0,         \* [Accounts -> Nat], the ledger at the start
  Holding0,         \* what the node holds at the start
  Sats0,            \* [Accounts -> Nat], the sats balances at the start
  ChargeFees,       \* cfg.charge_fees
  Operator,         \* effective_admin, configured by the environment
  NoOperator,
  Fee,              \* [Requests -> Nat], the quote for the request's fee rate
  LossyReplies,     \* may a call report failure although the node executes it?
  MaxCrashes        \* bound on crashes of the gateway process

ASSUME DataAssumption ==
  /\ IsFiniteSet(Accounts) /\ IsFiniteSet(Requests) /\ Callers \subseteq Accounts
  /\ NoRequest \notin Requests
  /\ Kind \in [Requests -> {"ln_send", "send", "burn"}]
  /\ Owner \in [Requests -> Callers]
  /\ Amt \in [Requests -> Nat] /\ Fee \in [Requests -> Nat]
  /\ TransferAmounts \subseteq Nat \ {0}
  /\ DOMAIN Hash = Requests
  /\ MaxCrashes \in Nat /\ LossyReplies \in BOOLEAN /\ ChargeFees \in BOOLEAN
  /\ Operator \in Accounts \cup {NoOperator} /\ NoOperator \notin Accounts

ASSUME StartAssumption ==
  /\ Balance0 \in [Accounts -> Nat] /\ Sats0 \in [Accounts -> Nat]
  /\ Holding0 \in Nat /\ Total(Balance0, Accounts) <= Holding0

VARIABLES
  balance,    \* table balances
  inFlight,   \* table in_flight: the requests that have a row
  events,     \* table ledger_events: the requests with a debit event
  history,    \* ledger_events summed: what the event log says an account has
  sats,       \* table sats_balances
  pc,         \* where each request's handler is; "gone" once it was dropped
  charged,    \* the handlers' local `charged`: a fee was taken and not given back
  attempt,    \* what the node made of the request's RPC
  holding,    \* units of the asset the node holds
  scan,       \* recovery pass: rows read and not yet looked at
  cur,        \* recovery pass: the row whose payment is being tracked
  verdict,    \* recovery pass: the answer about cur, before it is applied
  crashes

ledger == <<balance, inFlight, events, history>>
fees == <<sats, charged>>
node == <<attempt, holding>>
recovery == <<scan, cur, verdict>>
vars == <<ledger, fees, pc, node, recovery, crashes>>

Phases == {"idle", "reserved", "calling", "feeback", "ok", "failed", "gone"}
Attempts == {"none", "sent", "rejected", "inflight", "succeeded", "failed"}

Goto(h, from, to) == pc[h] = from /\ pc' = [pc EXCEPT ![h] = to]

----------------------------------------------------------------------------
(* The registry's methods. *)

\* debit_conn: the check and the update are one transaction.
Debit(a, n) == balance[a] >= n /\ balance' = Minus(balance, a, n)
Credit(a, n) == balance' = Plus(balance, a, n)

\* debit_and_mark_in_flight
DebitAndMark(h) ==
  /\ Debit(Owner[h], Amt[h])
  /\ inFlight' = inFlight \cup {h}
  /\ UNCHANGED <<events, history>>

RecordEvent(h) ==
  /\ events' = events \cup {h}
  /\ history' = Minus(history, Owner[h], Amt[h])

\* Wrong variants: the row is not looked for, so a payment that recovery has
\* resolved is resolved again by its handler.
SettleUnasked(h) == RecordEvent(h) /\ inFlight' = inFlight \ {h} /\ UNCHANGED balance
RefundUnasked(h) ==
  /\ Credit(Owner[h], Amt[h])
  /\ inFlight' = inFlight \ {h}
  /\ UNCHANGED <<events, history>>

\* settle_in_flight and refund_in_flight return false when the row is gone.
SettleInFlight(h) ==
  IF h \in inFlight
  THEN RecordEvent(h) /\ inFlight' = inFlight \ {h} /\ UNCHANGED balance
  ELSE UNCHANGED ledger

RefundInFlight(h) ==
  IF h \in inFlight
  THEN /\ Credit(Owner[h], Amt[h])
       /\ inFlight' = inFlight \ {h}
       /\ UNCHANGED <<events, history>>
  ELSE UNCHANGED ledger

----------------------------------------------------------------------------
(* The node (tapd, litd and lnd), as the gateway's calls see it. *)

SameInvoice(g, h) ==
  g = h \/ (Kind[g] = "ln_send" /\ Kind[h] = "ln_send" /\ Hash[g] = Hash[h] /\ Hash[h] # NoHash)

\* lnd keeps one payment per hash: the attempts of every request that pays it.
Tried(h) == {attempt[g] : g \in {g \in Requests : SameInvoice(g, h)}}

\* TrackPaymentV2 of h's hash.
PaymentStatus(h) ==
  IF "succeeded" \in Tried(h) THEN "succeeded"
  ELSE IF "inflight" \in Tried(h) THEN "inflight"
  ELSE IF "failed" \in Tried(h) THEN "failed" ELSE "unknown"

NodeStep(h, from, to) ==
  /\ attempt[h] = from
  /\ attempt' = [attempt EXCEPT ![h] = to]
  /\ UNCHANGED <<ledger, fees, pc, recovery, crashes>>

\* The call arrives.  lnd refuses a hash that is paid or being paid, and
\* tries one again whose earlier attempt failed.
NodeAccepts(h) ==
  /\ PaymentStatus(h) \notin {"succeeded", "inflight"}
  /\ NodeStep(h, "sent", "inflight")
  /\ UNCHANGED holding

\* The call does not arrive, or the node turns it down (already paid, no
\* route, no quote, no such coin): nothing was or will be spent.
NodeRejects(h) == NodeStep(h, "sent", "rejected") /\ UNCHANGED holding

NodeSucceeds(h) ==
  /\ holding >= Amt[h]
  /\ NodeStep(h, "inflight", "succeeded")
  /\ holding' = holding - Amt[h]

NodeFails(h) == NodeStep(h, "inflight", "failed") /\ UNCHANGED holding

Call(h) == attempt' = [attempt EXCEPT ![h] = "sent"]

\* What the awaited call may return.  A lost connection, an expired call or
\* an ended payment stream reports no success whatever the node does.
RepliesOk(h) == attempt[h] = "succeeded"
RepliesErr(h) == attempt[h] \in {"rejected", "failed"} \/ LossyReplies

----------------------------------------------------------------------------
(* routes::ln_pay *)

LnPayReserve(h) ==
  /\ Kind[h] = "ln_send" /\ Amt[h] > 0
  /\ Goto(h, "idle", "calling")
  /\ DebitAndMark(h)
  /\ Call(h)
  /\ UNCHANGED <<fees, holding, recovery, crashes>>

LnPaySucceeded(h) ==
  /\ Kind[h] = "ln_send" /\ RepliesOk(h)
  /\ Goto(h, "calling", "ok")
  /\ SettleInFlight(h)
  /\ UNCHANGED <<fees, node, recovery, crashes>>

\* Any other status than "Succeeded", and any error.
LnPayFailed(h) ==
  /\ Kind[h] = "ln_send" /\ RepliesErr(h)
  /\ Goto(h, "calling", "failed")
  /\ RefundInFlight(h)
  /\ UNCHANGED <<fees, node, recovery, crashes>>

----------------------------------------------------------------------------
(* routes::send *)

SendReserve(h) ==
  /\ Kind[h] = "send"
  /\ Goto(h, "idle", "reserved")
  /\ DebitAndMark(h)
  /\ UNCHANGED <<fees, node, recovery, crashes>>

\* maybe_charge_fee takes nothing: fees are off, there is no operator, or the
\* payer is the operator.
FeeWaived(h) == ~ChargeFees \/ Operator = NoOperator \/ Operator = Owner[h]

\* registry::charge_fee (its two history rows concern the sats history only).
MoveFee(h) ==
  /\ sats[Owner[h]] >= Fee[h]
  /\ sats' = Plus(Minus(sats, Owner[h], Fee[h]), Operator, Fee[h])
  /\ charged' = charged \cup {h}

SendCall(h) ==
  /\ Kind[h] = "send"
  /\ Goto(h, "reserved", "calling")
  /\ IF FeeWaived(h) THEN UNCHANGED fees ELSE MoveFee(h)
  /\ Call(h)
  /\ UNCHANGED <<ledger, holding, recovery, crashes>>

SendFeeRefused(h) ==
  /\ Kind[h] = "send" /\ ~FeeWaived(h) /\ sats[Owner[h]] < Fee[h]
  /\ Goto(h, "reserved", "failed")
  /\ RefundInFlight(h)
  /\ UNCHANGED <<fees, node, recovery, crashes>>

SendSucceeded(h) ==
  /\ Kind[h] = "send" /\ RepliesOk(h)
  /\ Goto(h, "calling", "ok")
  /\ SettleInFlight(h)
  /\ UNCHANGED <<fees, node, recovery, crashes>>

\* A wrong variant: the error path forgets the reservation.
SendFailedUnrefunded(h) ==
  /\ Kind[h] = "send" /\ RepliesErr(h)
  /\ Goto(h, "calling", IF h \in charged THEN "feeback" ELSE "failed")
  /\ UNCHANGED <<ledger, fees, node, recovery, crashes>>

SendFailed(h) ==
  /\ Kind[h] = "send" /\ RepliesErr(h)
  /\ Goto(h, "calling", IF h \in charged THEN "feeback" ELSE "failed")
  /\ RefundInFlight(h)
  /\ UNCHANGED <<fees, node, recovery, crashes>>

Smaller(m, n) == IF m < n THEN m ELSE n

\* A wrong variant: the payer's sats come from nowhere.
RefundFeeFromNobody(h) ==
  /\ Goto(h, "feeback", "failed")
  /\ sats' = Plus(sats, Owner[h], Fee[h])
  /\ charged' = charged \ {h}
  /\ UNCHANGED <<ledger, node, recovery, crashes>>

\* registry::refund_fee: the payer gets the whole fee back, the operator
\* gives what it has.
SendRefundFee(h) ==
  /\ Goto(h, "feeback", "failed")
  /\ sats' = LET paid == Plus(sats, Owner[h], Fee[h])
             IN  Minus(paid, Operator, Smaller(Fee[h], paid[Operator]))
  /\ charged' = charged \ {h}
  /\ UNCHANGED <<ledger, node, recovery, crashes>>

----------------------------------------------------------------------------
(* routes::burn: no in_flight row *)

BurnDebit(h) ==
  /\ Kind[h] = "burn" /\ Amt[h] > 0
  /\ Goto(h, "idle", "calling")
  /\ Debit(Owner[h], Amt[h])
  /\ Call(h)
  /\ UNCHANGED <<inFlight, events, history, fees, holding, recovery, crashes>>

BurnSucceeded(h) ==
  /\ Kind[h] = "burn" /\ RepliesOk(h)
  /\ Goto(h, "calling", "ok")
  /\ RecordEvent(h)
  /\ UNCHANGED <<balance, inFlight, fees, node, recovery, crashes>>

BurnFailed(h) ==
  /\ Kind[h] = "burn" /\ RepliesErr(h)
  /\ Goto(h, "calling", "failed")
  /\ Credit(Owner[h], Amt[h])
  /\ UNCHANGED <<inFlight, events, history, fees, node, recovery, crashes>>

----------------------------------------------------------------------------
(* routes::transfer: one transaction, two history rows *)

Transfer(from, to, n) ==
  /\ to # from
  /\ balance[from] >= n
  /\ balance' = Plus(Minus(balance, from, n), to, n)
  /\ history' = Plus(Minus(history, from, n), to, n)
  /\ UNCHANGED <<inFlight, events, fees, pc, node, recovery, crashes>>

----------------------------------------------------------------------------
(* reconcile::recover_in_flight, one pass after another.  Rows are taken   *)
(* in any order: the code's order (by id) is one of them.                  *)

Tracking == cur # NoRequest

RecoveryOnly == UNCHANGED <<ledger, fees, pc, node, crashes>>

\* A wrong variant: recovery runs after a restart only.
ReadRowsAtStart ==
  /\ scan = {} /\ ~Tracking /\ inFlight # {} /\ crashes > 0
  /\ scan' = inFlight
  /\ UNCHANGED <<cur, verdict>> /\ RecoveryOnly

ReadRows ==
  /\ scan = {} /\ ~Tracking /\ inFlight # {}
  /\ scan' = inFlight
  /\ UNCHANGED <<cur, verdict>> /\ RecoveryOnly

Trackable(h) == Kind[h] = "ln_send" /\ Hash[h] # NoHash

\* A row with no payment to track is left for manual review.
NextRow(h) ==
  /\ h \in scan /\ ~Tracking
  /\ scan' = scan \ {h}
  /\ cur' = IF Trackable(h) THEN h ELSE cur
  /\ UNCHANGED verdict /\ RecoveryOnly

\* track_payment asks for final updates only, so it answers once the payment
\* has ended.
TrackAnswers(h) ==
  /\ h = cur /\ verdict = "none"
  /\ PaymentStatus(h) \in {"succeeded", "failed"}
  /\ verdict' = PaymentStatus(h)
  /\ UNCHANGED <<scan, cur>> /\ RecoveryOnly

\* lnd has no record of the hash, or the call fails: the row stays.
TrackErrs ==
  /\ Tracking /\ verdict = "none"
  /\ cur' = NoRequest
  /\ UNCHANGED <<scan, verdict>> /\ RecoveryOnly

\* A wrong variant: every payment that ended is recorded as spent.
ApplyVerdictSettles ==
  /\ Tracking /\ verdict # "none"
  /\ SettleInFlight(cur)
  /\ cur' = NoRequest /\ verdict' = "none"
  /\ UNCHANGED <<scan, fees, pc, node, crashes>>

ApplyVerdict ==
  /\ Tracking /\ verdict # "none"
  /\ IF verdict = "succeeded" THEN SettleInFlight(cur) ELSE RefundInFlight(cur)
  /\ cur' = NoRequest /\ verdict' = "none"
  /\ UNCHANGED <<scan, fees, pc, node, crashes>>

----------------------------------------------------------------------------
(* Losing the process, or one handler of it *)

Live(h) == pc[h] \in {"reserved", "calling", "feeback"}

\* The client hangs up: the server drops the handler at its await.
Dropped(h) ==
  /\ Goto(h, "calling", "gone")
  /\ UNCHANGED <<ledger, fees, node, recovery, crashes>>

\* The process stops and starts again on the same database.
Crash ==
  /\ crashes < MaxCrashes
  /\ crashes' = crashes + 1
  /\ pc' = [h \in Requests |-> IF Live(h) THEN "gone" ELSE pc[h]]
  /\ scan' = {} /\ cur' = NoRequest /\ verdict' = "none"
  /\ UNCHANGED <<ledger, fees, node>>

----------------------------------------------------------------------------

Init ==
  /\ balance = Balance0 /\ history = Balance0
  /\ inFlight = {} /\ events = {}
  /\ sats = Sats0 /\ charged = {}
  /\ pc = [h \in Requests |-> "idle"]
  /\ attempt = [h \in Requests |-> "none"] /\ holding = Holding0
  /\ scan = {} /\ cur = NoRequest /\ verdict = "none"
  /\ crashes = 0

LnPay(h) == LnPayReserve(h) \/ LnPaySucceeded(h) \/ LnPayFailed(h)
Send(h) ==
  \/ SendReserve(h) \/ SendCall(h) \/ SendFeeRefused(h)
  \/ SendSucceeded(h) \/ SendFailed(h) \/ SendRefundFee(h)
Burn(h) == BurnDebit(h) \/ BurnSucceeded(h) \/ BurnFailed(h)
Handler(h) == LnPay(h) \/ Send(h) \/ Burn(h) \/ Dropped(h)
Node(h) == NodeAccepts(h) \/ NodeRejects(h) \/ NodeSucceeds(h) \/ NodeFails(h)
Recovery ==
  \/ ReadRows \/ TrackErrs \/ ApplyVerdict
  \/ \E h \in Requests : NextRow(h) \/ TrackAnswers(h)

Next ==
  \/ \E h \in Requests : Handler(h) \/ Node(h)
  \/ \E from \in Callers, to \in Accounts, n \in TransferAmounts : Transfer(from, to, n)
  \/ Recovery
  \/ Crash

Spec == Init /\ [][Next]_vars

\* The maintenance loop keeps running; lnd answers at once when it has no
\* record, and ends every payment it accepted (the call sets a timeout);
\* tracking a payment that has ended does not err for ever.
Fairness ==
  /\ WF_vars(ReadRows) /\ WF_vars(ApplyVerdict)
  /\ WF_vars(TrackErrs /\ PaymentStatus(cur) = "unknown")
  /\ \A h \in Requests : WF_vars(NextRow(h))
  /\ \A h \in Requests : SF_vars(TrackAnswers(h))
  /\ \A h \in Requests : WF_vars(NodeSucceeds(h) \/ NodeFails(h))

FairSpec == Spec /\ Fairness

----------------------------------------------------------------------------
(* Properties *)

TypeOK ==
  /\ balance \in [Accounts -> Nat] /\ history \in [Accounts -> Int]
  /\ inFlight \subseteq Requests /\ events \subseteq Requests
  /\ sats \in [Accounts -> Nat] /\ charged \subseteq Requests
  /\ pc \in [Requests -> Phases]
  /\ attempt \in [Requests -> Attempts] /\ holding \in Nat
  /\ scan \subseteq Requests /\ cur \in Requests \cup {NoRequest}
  /\ verdict \in {"none", "succeeded", "failed"}
  /\ crashes \in 0 .. MaxCrashes

\* Debited, and neither recorded as spent nor given back: an in_flight row,
\* or a burn whose handler has not finished (or never will).
Open(h) == IF Kind[h] = "burn" THEN pc[h] \in {"calling", "gone"} ELSE h \in inFlight
OpenRequests == {h \in Requests : Open(h)}
Refunded(h) == pc[h] # "idle" /\ ~Open(h) /\ h \notin events
Paid == {h \in Requests : attempt[h] = "succeeded"}

\* The event log and the reservations account for every balance: what an
\* account's events sum to is what it can spend plus what is reserved for its
\* unfinished requests.  Credits, debits, settlements and refunds of all
\* handlers and of recovery must match for it to hold (registry.rs 230-233).
HistoryExplainsBalance ==
  \A a \in Accounts :
    balance[a] + Total(Amt, {h \in OpenRequests : Owner[h] = a}) = history[a]

\* Refunded although the node paid, or paid later.
WrongRefunds == {h \in Paid : Refunded(h)}

\* What users can spend, and what the node may still be asked to pay.
Owed == Total(balance, Accounts) + Total(Amt, OpenRequests \ Paid)

\* The custody shortfall is never more than what was refunded for payments
\* that went out: no other interleaving, crash or duplicate creates units.
ShortfallIsWrongRefunds == Owed <= holding + Total(Amt, WrongRefunds)

\* Every sat of a fee is somebody's, and the fee agrees with the answer: a send
\* that went through was charged, one that failed was given its fee back, and
\* the fee of a send whose units are back is kept only if a crash came between
\* the two refunds (routes 896-905, registry.rs 830-884).
FeesMatchAnswers ==
  /\ \A a \in Accounts :
       sats[a] + Total(Fee, {h \in charged : Owner[h] = a})
         = Sats0[a] + (IF a = Operator THEN Total(Fee, charged) ELSE 0)
  /\ \A h \in Requests : Kind[h] = "send" =>
       /\ pc[h] = "ok" => FeeWaived(h) \/ h \in charged
       /\ pc[h] = "failed" => h \notin charged
       /\ h \in charged /\ Refunded(h) => pc[h] = "feeback" \/ (pc[h] = "gone" /\ crashes > 0)

\* The ledger says of a payment what the node says: recorded as spent only
\* if it went out, refunded only if it did not and will not.
LedgerMatchesNode ==
  \A h \in Requests :
    /\ h \in events => attempt[h] = "succeeded"
    /\ Refunded(h) => attempt[h] \in {"none", "rejected", "failed"}

\* The client's answer and the ledger agree, whoever resolved the row: "ok"
\* means the units were spent, an error means they are back.
AnswersMatchLedger ==
  \A h \in Requests :
    /\ pc[h] = "ok" => h \in events
    /\ pc[h] = "failed" => Refunded(h)

\* A Lightning payment that ended at the node is resolved in the ledger,
\* also when its handler is gone (reconcile.rs 134-137).
LnPaymentsResolved ==
  \A h \in Requests :
    (h \in inFlight /\ Trackable(h) /\ attempt[h] \in {"succeeded", "failed"})
      ~> h \notin inFlight

\* Every behaviour is one of Escrow's: no reservation ends twice, and none
\* ends without its units going to exactly one place.
EscrowState(h) ==
  IF pc[h] = "idle" THEN "idle"
  ELSE IF Open(h) THEN "reserved"
  ELSE IF h \in events THEN "settled" ELSE "refunded"

Promise == INSTANCE Escrow WITH
  funds <- balance,
  state <- [h \in Requests |-> EscrowState(h)],
  Funds0 <- Balance0

RefinesEscrow == Promise!Spec
=============================================================================
