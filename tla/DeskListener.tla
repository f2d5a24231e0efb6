---------------------------- MODULE DeskListener ----------------------------
(***************************************************************************)
(* The desk as it runs: src-tauri/src/market/desk_listener.rs, which       *)
(* serves remote traders, beside the commands of market/commands.rs, which *)
(* serve the local one, over one market of module Desk.                    *)
(*                                                                         *)
(* Remote traders send messages through relays, which keep them: every     *)
(* poll fetches all of them, and what has been handled is only remembered  *)
(* until the listener is started again.  The listener handles one message  *)
(* at a time, commands run beside it, and the desk's mutex is not held     *)
(* while a payment is awaited.                                             *)
(*                                                                         *)
(* Market and orders are saved as two files, whole, under their mutexes.   *)
(* Writes do not fail here; what a failing one does is in the README.      *)
(***************************************************************************)
EXTENDS UnitSums

CONSTANTS
  Users, Curves, FeeRates, Budgets, Seeds,   \* as in Desk
  MaxLocalTrades,  \* bound on the trades after which commands trade no more
  Locals,       \* users that trade by commands
  Quotes,       \* messages BuyQuote; each is the id of the order it makes
  Proofs,       \* messages PaymentProof
  Sales,        \* messages Sell
  Sender,       \* who sent a message
  BudgetOf,     \* what a BuyQuote wants to spend
  OrderOf,      \* the order a PaymentProof is about
  AmountOf,     \* how much a Sell sells, and a withdrawal withdraws
  Withdrawals,  \* calls of market_withdraw_asset
  MaxStops      \* bound on restarts of the listener, with or without a crash

Messages == Quotes \cup Proofs \cup Sales

ASSUME ListenerAssumption ==
  /\ IsFiniteSet(Users) /\ IsFiniteSet(Quotes) /\ IsFiniteSet(Sales) /\ IsFiniteSet(Withdrawals)
  /\ Locals \subseteq Users
  /\ Sender \in [Messages \cup Withdrawals -> Users]
  /\ BudgetOf \in [Quotes -> Budgets] /\ OrderOf \in [Proofs -> Quotes]
  /\ AmountOf \in [Sales \cup Withdrawals -> Nat \ {0}]
  /\ MaxLocalTrades \in Nat \ {0} /\ MaxStops \in Nat

\* Remote trades need no bound of their own: an order is credited once per
\* session, and a sale debited once.
MaxTrades == MaxLocalTrades + Cardinality(Quotes) * (1 + MaxStops) + Cardinality(Sales)

VARIABLES
  market,      \* WalletState.desk
  orders,      \* WalletState.orders
  disk,        \* the two files
  seen,        \* messages handled since the listener was started
  task,        \* what the listener is in the middle of
  withdrawal,  \* where each withdrawal is
  sent,        \* messages at the relays
  good,        \* proofs with the right preimage
  invoicePaid, \* orders whose invoice was paid
  payouts,     \* sales whose payout invoice was paid
  credits,     \* how often each order was credited
  debits,      \* how often each sale was debited
  stops

memory == <<market, orders>>
world == <<sent, good, invoicePaid>>
history == <<credits, debits>>
vars == <<memory, disk, seen, task, withdrawal, world, payouts, history, stops>>

\* An order is bought for the price it was quoted, which is its budget or less.
D == INSTANCE Desk WITH Budgets <- UNION {0 .. b : b \in Budgets}

ASSUME MarketAssumption ==
  /\ Curves \subseteq D!ValidCurves /\ FeeRates \subseteq 0 .. 1000
  /\ Budgets \subseteq Nat /\ Seeds \subseteq Nat

NoOrder == [status |-> "none", total |-> 0]
Idle == [does |-> "idle"]

----------------------------------------------------------------------------
(* Saving *)

\* A wrong variant: a trade is kept in memory until the next save.
SaveMarketLater == UNCHANGED disk

\* store::save and store::save_orders
SaveMarket == disk' = [disk EXCEPT !.market = market']
SaveOrders == disk' = [disk EXCEPT !.orders = orders']

Trade(m) == market' = m /\ SaveMarket /\ UNCHANGED orders

----------------------------------------------------------------------------
(* Remote traders, the relays and the Lightning network *)

\* A proof sent before the payment cannot have the preimage.
Send(x) ==
  /\ x \notin sent /\ sent' = sent \cup {x}
  /\ x \in Proofs => disk.orders[OrderOf[x]] # NoOrder
  /\ good' = good \cup {p \in {x} \cap Proofs : OrderOf[p] \in invoicePaid}
  /\ UNCHANGED <<memory, disk, seen, task, withdrawal, invoicePaid, payouts, history, stops>>

Pay(q) ==
  /\ disk.orders[q] # NoOrder /\ q \notin invoicePaid
  /\ invoicePaid' = invoicePaid \cup {q}
  /\ UNCHANGED <<memory, disk, seen, task, withdrawal, sent, good, payouts, history, stops>>

----------------------------------------------------------------------------
(* The listener *)

\* poll_once takes a message it has not handled in this session.
Take(x) == task = Idle /\ x \in sent \ seen /\ seen' = seen \cup {x}

ListenerOnly == UNCHANGED <<withdrawal, world, stops>>

\* A wrong variant: a quote that is delivered again gets another invoice.
HandleQuoteAnew(q) ==
  /\ Take(q)
  /\ LET price == D!TotalPrice(market, D!TokensFor(market, BudgetOf[q]))
     IN task' = IF D!CanBuy(market, BudgetOf[q])
                THEN [does |-> "invoice", order |-> q, total |-> price] ELSE Idle
  /\ UNCHANGED <<memory, disk, payouts, history>> /\ ListenerOnly

\* handle_buy_quote up to the invoice, or to an answer without a new one
HandleQuote(q) ==
  /\ Take(q)
  /\ LET price == D!TotalPrice(market, D!TokensFor(market, BudgetOf[q]))
     IN task' = IF orders[q] = NoOrder /\ D!CanBuy(market, BudgetOf[q])
                THEN [does |-> "invoice", order |-> q, total |-> price] ELSE Idle
  /\ UNCHANGED <<memory, disk, payouts, history>> /\ ListenerOnly

InvoiceCreated ==
  /\ task.does = "invoice" /\ task' = Idle
  /\ orders' = [orders EXCEPT ![task.order] = [status |-> "awaiting", total |-> task.total]]
  /\ SaveOrders
  /\ UNCHANGED <<market, seen, payouts, history>> /\ ListenerOnly

InvoiceRefused ==
  /\ task.does = "invoice" /\ task' = Idle
  /\ UNCHANGED <<memory, disk, seen, payouts, history>> /\ ListenerOnly

\* A wrong variant: the order's status is not looked at.
PayableEvenFilled(p) == orders[OrderOf[p]] # NoOrder /\ p \in good

\* handle_payment_proof up to desk.buy: a known order, not filled, and a
\* preimage that hashes to its payment hash
Payable(p) == orders[OrderOf[p]].status = "awaiting" /\ p \in good

\* The purchase of a proven order, at the price of the moment.
HandleProof(p) ==
  LET q == OrderOf[p]
      n == D!TokensFor(market, orders[q].total)
  IN
  /\ Take(p) /\ Payable(p) /\ D!CanBuy(market, orders[q].total)
  /\ Trade(D!Bought(market, Sender[q], n))
  /\ credits' = [credits EXCEPT ![q] = @ + 1]
  /\ task' = [does |-> "mark", order |-> q]
  /\ UNCHANGED <<payouts, debits>> /\ ListenerOnly

\* Every other proof is answered and changes nothing.
RefuseProof(p) ==
  /\ Take(p) /\ ~(Payable(p) /\ D!CanBuy(market, orders[OrderOf[p]].total))
  /\ UNCHANGED <<memory, disk, task, payouts, history>> /\ ListenerOnly

\* The rest of handle_payment_proof.  Nothing is awaited in between, but
\* commands may run and the process may stop.
MarkFilled ==
  /\ task.does = "mark" /\ task' = Idle
  /\ orders' = [orders EXCEPT ![task.order].status = "filled"] /\ SaveOrders
  /\ UNCHANGED <<market, seen, payouts, history>> /\ ListenerOnly

\* handle_sell up to the payment
HandleSale(s) ==
  /\ Take(s)
  /\ task' = IF /\ D!CanSell(market, Sender[s], AmountOf[s])
                /\ D!Payout(market, AmountOf[s]) > 0
             THEN [does |-> "payout", sale |-> s] ELSE Idle
  /\ UNCHANGED <<memory, disk, payouts, history>> /\ ListenerOnly

\* An invoice is paid once; a second payment is refused.
PayoutSucceeds ==
  /\ task.does = "payout" /\ task.sale \notin payouts
  /\ payouts' = payouts \cup {task.sale} /\ task' = [task EXCEPT !.does = "debit"]
  /\ UNCHANGED <<memory, disk, seen, history>> /\ ListenerOnly

\* A wrong variant: the sale goes on after a payment that failed.
PayoutFailsUnnoticed ==
  /\ task.does = "payout" /\ task' = [task EXCEPT !.does = "debit"]
  /\ UNCHANGED <<memory, disk, seen, payouts, history>> /\ ListenerOnly

PayoutFails ==
  /\ task.does = "payout" /\ task' = Idle
  /\ UNCHANGED <<memory, disk, seen, payouts, history>> /\ ListenerOnly

\* desk.sell after the payment; a sale that is no longer covered is refused
\* although it has been paid.
DebitSale ==
  /\ task.does = "debit" /\ task' = Idle
  /\ LET s == task.sale IN
     IF D!CanSell(market, Sender[s], AmountOf[s])
     THEN /\ Trade(D!Sold(market, Sender[s], AmountOf[s]))
          /\ debits' = [debits EXCEPT ![s] = @ + 1]
     ELSE UNCHANGED <<memory, disk, debits>>
  /\ UNCHANGED <<seen, payouts, credits>> /\ ListenerOnly

----------------------------------------------------------------------------
(* Commands *)

CommandOnly == UNCHANGED <<orders, seen, task, world, payouts, history, stops>>

LocalTrade ==
  /\ market.trades < MaxLocalTrades
  /\ \E u \in Locals :
       \/ \E budget \in Budgets : D!Buy(u, budget)
       \/ \E n \in 1 .. market.balance[u] : D!Sell(u, n)
  /\ SaveMarket /\ CommandOnly /\ UNCHANGED withdrawal

SetPaused ==
  /\ \E paused \in BOOLEAN : D!SetPaused(paused)
  /\ SaveMarket /\ CommandOnly /\ UNCHANGED withdrawal

GotoW(w, from, to) == withdrawal[w] \in from /\ withdrawal' = [withdrawal EXCEPT ![w] = to]

\* market_withdraw_asset: check, await the send, debit.
WithdrawCheck(w) ==
  /\ market.balance[Sender[w]] >= AmountOf[w]
  /\ GotoW(w, {"idle"}, "sending")
  /\ UNCHANGED <<market, disk>> /\ CommandOnly

WithdrawSent(w) ==
  /\ GotoW(w, {"sending"}, "sent")
  /\ UNCHANGED <<market, disk>> /\ CommandOnly

WithdrawFailed(w) ==
  /\ GotoW(w, {"sending"}, "failed")
  /\ UNCHANGED <<market, disk>> /\ CommandOnly

\* A wrong variant: the debit of a withdrawal is not saved.
WithdrawDebitUnsaved(w) ==
  /\ D!Withdraw(Sender[w], AmountOf[w]) /\ GotoW(w, {"sent"}, "done")
  /\ UNCHANGED disk /\ CommandOnly

WithdrawDebit(w) ==
  /\ D!Withdraw(Sender[w], AmountOf[w]) /\ GotoW(w, {"sent"}, "done")
  /\ SaveMarket /\ CommandOnly

\* The asset has left, and what it was checked against has been taken since.
WithdrawUncovered(w) ==
  /\ market.balance[Sender[w]] < AmountOf[w] /\ GotoW(w, {"sent"}, "uncovered")
  /\ UNCHANGED <<market, disk>> /\ CommandOnly

----------------------------------------------------------------------------
(* Restarts *)

\* A payout that is awaited goes on without the listener.
Stop ==
  /\ stops < MaxStops /\ stops' = stops + 1
  /\ task' = Idle /\ seen' = {}
  /\ \/ UNCHANGED payouts
     \/ task.does = "payout" /\ payouts' = payouts \cup {task.sale}
  /\ UNCHANGED <<disk, world, history>>

\* lock and unlock: the task is aborted at an await, perhaps with its answer there.
Relock ==
  /\ task.does \in {"idle", "invoice", "payout", "debit"}
  /\ Stop /\ UNCHANGED <<memory, withdrawal>>

Crash ==
  /\ Stop /\ market' = disk.market /\ orders' = disk.orders
  /\ withdrawal' = [w \in Withdrawals |->
       IF withdrawal[w] \in {"sending", "sent"} THEN "lost" ELSE withdrawal[w]]

Init ==
  /\ D!Init
  /\ orders = [q \in Quotes |-> NoOrder]
  /\ disk = [market |-> market, orders |-> orders]
  /\ seen = {} /\ task = Idle
  /\ withdrawal = [w \in Withdrawals |-> "idle"]
  /\ sent = {} /\ good = {} /\ invoicePaid = {} /\ payouts = {}
  /\ credits = [q \in Quotes |-> 0] /\ debits = [s \in Sales |-> 0]
  /\ stops = 0

Remote == (\E x \in Messages : Send(x)) \/ (\E q \in Quotes : Pay(q))

Listener ==
  \/ \E q \in Quotes : HandleQuote(q)
  \/ \E p \in Proofs : HandleProof(p) \/ RefuseProof(p)
  \/ \E s \in Sales : HandleSale(s)
  \/ InvoiceCreated \/ InvoiceRefused \/ MarkFilled
  \/ PayoutSucceeds \/ PayoutFails \/ DebitSale

Command ==
  \/ LocalTrade \/ SetPaused
  \/ \E w \in Withdrawals :
       WithdrawCheck(w) \/ WithdrawSent(w) \/ WithdrawFailed(w)
         \/ WithdrawDebit(w) \/ WithdrawUncovered(w)

Next == Remote \/ Listener \/ Command \/ Relock \/ Crash

Spec == Init /\ [][Next]_vars

----------------------------------------------------------------------------
(* Properties *)

Orders == [status : {"none", "awaiting", "filled"}, total : Nat]
Tasks ==
  {Idle} \cup [does : {"invoice"}, order : Quotes, total : Nat]
    \cup [does : {"mark"}, order : Quotes] \cup [does : {"payout", "debit"}, sale : Sales]

TypeOK ==
  /\ D!TypeOK
  /\ orders \in [Quotes -> Orders]
  /\ disk \in [market : D!Markets, orders : [Quotes -> Orders]]
  /\ seen \subseteq sent /\ sent \subseteq Messages /\ good \subseteq sent
  /\ task \in Tasks
  /\ withdrawal \in
       [Withdrawals -> {"idle", "sending", "sent", "failed", "done", "uncovered", "lost"}]
  /\ invoicePaid \subseteq Quotes /\ payouts \subseteq Sales
  /\ credits \in [Quotes -> Nat] /\ debits \in [Sales -> Nat] /\ stops \in 0 .. MaxStops

\* Tokens are credited to who paid for them only, and once per session however
\* often the proof is delivered (desk_listener.rs 270-275, settle.rs 99-101).
\* An order that is filled on disk has been credited: a crash never turns a
\* paid order into a filled one without tokens (desk_listener.rs 277-306).
CreditsArePaid ==
  \A q \in Quotes :
    /\ credits[q] <= 1 + stops
    /\ credits[q] > 0 => q \in invoicePaid
    /\ disk.orders[q].status = "filled" => credits[q] > 0

\* A sale is debited once, and not unless its seller was paid, although its
\* message is handled again after every restart (desk_listener.rs 119-122).
DebitedIsPaid ==
  \A s \in Sales : debits[s] <= 1 /\ (debits[s] = 1 => s \in payouts)

\* The ledger counts as withdrawn what left and was debited, across crashes
\* (market/commands.rs 324-328).
WithdrawnLeft ==
  market.withdrawn =
    Total([w \in Withdrawals |-> IF withdrawal[w] = "done" THEN AmountOf[w] ELSE 0], Withdrawals)

\* Whatever is delivered, paid, aborted or restarted, the market makes the steps
\* of module Desk and no others; in particular a crash takes no trade back.
RefinesDesk == D!Spec

\* An order that was paid stands, at the price it was quoted, until its buyer is
\* credited: no quote that is delivered again, no abort while an invoice or a
\* payment is awaited, no crash and no other trade ends or replaces it, in memory
\* or on disk.  So a proof that a session did not come to, or refused because of
\* the price of the moment, finds its order in the next one (desk_listener.rs
\* 84-95, 202-205, 283-303).  That there is a next one is not said: nothing keeps
\* the listener running.
PaidOrderStands ==
  [][\A q \in invoicePaid :
       /\ disk'.orders[q] = orders'[q]
       /\ \/ orders'[q] = orders[q] /\ orders[q].status # "none"
          \/ orders'[q] = [orders[q] EXCEPT !.status = "filled"] /\ credits[q] > 0]_vars
=============================================================================
