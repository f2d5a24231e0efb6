---------------------------- MODULE GatewayCredit ----------------------------
(***************************************************************************)
(* The incoming side of the gateway's ledger: the handlers receive,        *)
(* ln_receive and sats_deposit of gateway/src/routes/mod.rs, which ask the *)
(* node for an address or an invoice and record it as pending, and         *)
(* reconcile_all of gateway/src/reconcile.rs, which credits what arrived.  *)
(*                                                                         *)
(* reconcile_all runs in the maintenance loop of gateway/src/main.rs and   *)
(* in every request that lists assets or asks for a mint, so several of    *)
(* them run at once.  Each reads the pending rows, asks the node, and acts *)
(* on the answer later; only the registry methods are atomic.              *)
(*                                                                         *)
(* A request stands for the address or payment hash it was given.          *)
(***************************************************************************)
EXTENDS UnitSums

CONSTANTS
  Accounts,      \* owners of balances
  Requests,      \* the receive requests clients may submit
  Kind,          \* [Requests -> {"receive", "ln_receive", "sats_deposit"}]
  Owner,         \* [Requests -> Accounts]
  Amt,           \* [Requests -> Nat], units asked for
  Reconcilers,   \* tasks that run reconcile_all
  Maintenance,   \* the one of them that is the maintenance loop
  TTL,           \* cfg.ln_receive_ttl_secs; 0 never purges
  Expiry,        \* how long lnd lets an invoice be paid
  MaxClock,      \* bound on the clock
  MaxPayments,   \* bound on the transfers sent to one address
  MaxCrashes     \* bound on crashes of the gateway process

ASSUME CreditAssumption ==
  /\ IsFiniteSet(Accounts) /\ IsFiniteSet(Requests)
  /\ Kind \in [Requests -> {"receive", "ln_receive", "sats_deposit"}]
  /\ Owner \in [Requests -> Accounts] /\ Amt \in [Requests -> Nat]
  /\ Maintenance \in Reconcilers
  /\ TTL \in Nat /\ Expiry \in Nat /\ MaxClock \in Nat
  /\ MaxPayments \in Nat /\ MaxCrashes \in Nat

VARIABLES
  pc,        \* where each request's handler is
  rows,      \* tables pending_receives, pending_ln_receives, pending_sats_deposits
  born,      \* created_at of each row
  balance,   \* what each account was credited
  credits,   \* how often each request was credited: its rows in ledger_events
  invoice,   \* what the node says of each address or invoice
  issuedAt,  \* when lnd issued it
  arrived,   \* transfers to the address, payments of the invoice
  at,        \* what each reconciler is working on
  todo,      \* the pending rows it has read and not finished
  answer,    \* the node's answers it has not applied yet
  purged,    \* rows of receipts that had arrived when the purge took them
  now, crashes

ledger == <<rows, born, balance, credits>>
node == <<invoice, issuedAt, arrived>>
tasks == <<at, todo, answer>>
vars == <<pc, ledger, node, tasks, purged, now, crashes>>

Invoices == {r \in Requests : Kind[r] # "receive"}
States == {"none", "open", "settled", "canceled"}
NoAnswer == [r \in Requests |-> "none"]

----------------------------------------------------------------------------
(* The handlers *)

\* The address or invoice is asked for, and awaited.
Ask(r) ==
  /\ pc[r] = "idle" /\ pc' = [pc EXCEPT ![r] = "asking"]
  /\ UNCHANGED <<ledger, node, tasks, purged, now, crashes>>

\* The row is written before the client learns the address.
Record(r) ==
  /\ pc[r] = "asking" /\ invoice[r] # "none"
  /\ pc' = [pc EXCEPT ![r] = "shown"]
  /\ rows' = rows \cup {r} /\ born' = [born EXCEPT ![r] = now]
  /\ UNCHANGED <<balance, credits, node, tasks, purged, now, crashes>>

\* The node errs, or the client hangs up and the handler is dropped.
GiveUp(r) ==
  /\ pc[r] = "asking" /\ pc' = [pc EXCEPT ![r] = "gone"]
  /\ UNCHANGED <<ledger, node, tasks, purged, now, crashes>>

----------------------------------------------------------------------------
(* The node *)

NodeOnly == UNCHANGED <<pc, ledger, tasks, purged, now, crashes>>

Issue(r) ==
  /\ pc[r] \in {"asking", "gone"} /\ invoice[r] = "none"
  /\ invoice' = [invoice EXCEPT ![r] = "open"]
  /\ issuedAt' = [issuedAt EXCEPT ![r] = now]
  /\ UNCHANGED arrived /\ NodeOnly

\* Somebody pays what the client was shown.  An invoice is paid once and in
\* time; an address stays good for any number of transfers.
Arrive(r) ==
  /\ pc[r] = "shown" /\ arrived[r] < MaxPayments
  /\ r \in Invoices => invoice[r] = "open" /\ now <= issuedAt[r] + Expiry
  /\ arrived' = [arrived EXCEPT ![r] = @ + 1]
  /\ invoice' = [invoice EXCEPT ![r] = "settled"]
  /\ UNCHANGED issuedAt /\ NodeOnly

\* lnd cancels an invoice that expired.
Expire(r) ==
  /\ r \in Invoices /\ invoice[r] = "open" /\ now > issuedAt[r] + Expiry
  /\ invoice' = [invoice EXCEPT ![r] = "canceled"]
  /\ UNCHANGED <<issuedAt, arrived>> /\ NodeOnly

----------------------------------------------------------------------------
(* The registry's methods *)

\* A wrong variant: the pending row is not looked for.
ResolveUnasked(r) ==
  /\ balance' = Plus(balance, Owner[r], Amt[r])
  /\ credits' = [credits EXCEPT ![r] = @ + 1]
  /\ rows' = rows \ {r}
  /\ UNCHANGED born

\* resolve_receive, resolve_ln_receive, resolve_sats_deposit: one transaction.
Resolve(r) ==
  IF r \in rows
  THEN /\ balance' = Plus(balance, Owner[r], Amt[r])
       /\ credits' = [credits EXCEPT ![r] = @ + 1]
       /\ rows' = rows \ {r}
       /\ UNCHANGED born
  ELSE UNCHANGED ledger

\* delete_pending_ln_receive, delete_pending_sats_deposit
Delete(r) == rows' = rows \ {r} /\ UNCHANGED <<born, balance, credits>>

----------------------------------------------------------------------------
(* reconcile_all *)

TaskOnly == UNCHANGED <<pc, node, purged, now, crashes>>

PendingOf(k) == {r \in rows : Kind[r] = k}
Begin(p, k) ==
  /\ at' = [at EXCEPT ![p] = k]
  /\ todo' = [todo EXCEPT ![p] = PendingOf(k)]

\* A wrong variant: only requests reconcile, the maintenance loop does not.
StartOnRequest(p) ==
  /\ at[p] = "idle" /\ p # Maintenance /\ Begin(p, "receive")
  /\ UNCHANGED <<ledger, answer>> /\ TaskOnly

Start(p) ==
  /\ at[p] = "idle" /\ Begin(p, "receive")
  /\ UNCHANGED <<ledger, answer>> /\ TaskOnly

\* One reconciler is done and the next one reads its rows.
Continue(p) ==
  /\ todo[p] = {}
  /\ \/ at[p] = "receive" /\ Begin(p, "ln_receive")
     \/ at[p] = "ln_receive" /\ Begin(p, "sats_deposit")
     \/ /\ at[p] = "sats_deposit"
        /\ at' = [at EXCEPT ![p] = IF p = Maintenance THEN "purge" ELSE "idle"]
        /\ UNCHANGED todo
  /\ UNCHANGED <<ledger, answer>> /\ TaskOnly

\* reconcile_receives asks once for the events of every address.
Events(p) ==
  /\ at[p] = "receive" /\ todo[p] # {} /\ answer[p] = NoAnswer
  /\ answer' = [answer EXCEPT ![p] = [r \in Requests |-> IF r \in todo[p] THEN invoice[r] ELSE "none"]]
  /\ UNCHANGED <<at, todo, ledger>> /\ TaskOnly

\* reconcile_ln_receives and reconcile_sats_deposits ask row by row.
Lookup(p, r) ==
  /\ at[p] \in {"ln_receive", "sats_deposit"} /\ answer[p] = NoAnswer /\ r \in todo[p]
  /\ answer' = [answer EXCEPT ![p][r] = invoice[r]]
  /\ UNCHANGED <<at, todo, ledger>> /\ TaskOnly

\* A call that fails ends the pass over the addresses, or skips one invoice.
CallErrs(p, skipped) ==
  /\ answer[p] = NoAnswer /\ skipped \subseteq todo[p]
  /\ IF at[p] = "receive" THEN skipped = todo[p] ELSE Cardinality(skipped) = 1
  /\ todo' = [todo EXCEPT ![p] = @ \ skipped]
  /\ UNCHANGED <<at, answer, ledger>> /\ TaskOnly

\* A wrong variant: an invoice that is not settled is taken for a dead one.
ApplyDeletesOpen(p, r) ==
  /\ answer[p][r] # "none"
  /\ IF answer[p][r] = "settled" THEN Resolve(r) ELSE Delete(r)
  /\ answer' = [answer EXCEPT ![p][r] = "none"]
  /\ todo' = [todo EXCEPT ![p] = @ \ {r}]
  /\ UNCHANGED at /\ TaskOnly

Apply(p, r) ==
  /\ answer[p][r] # "none"
  /\ CASE answer[p][r] = "settled" -> Resolve(r)
       [] answer[p][r] = "canceled" -> Delete(r)
       [] answer[p][r] = "open" -> UNCHANGED ledger
  /\ answer' = [answer EXCEPT ![p][r] = "none"]
  /\ todo' = [todo EXCEPT ![p] = @ \ {r}]
  /\ UNCHANGED at /\ TaskOnly

\* purge_stale_ln_receives, at the end of a pass of the maintenance loop.
Stale == {r \in PendingOf("ln_receive") : TTL > 0 /\ born[r] < now - TTL}
Purge(p) ==
  /\ at[p] = "purge" /\ at' = [at EXCEPT ![p] = "idle"]
  /\ rows' = rows \ Stale
  /\ purged' = purged \cup {r \in Stale : arrived[r] > 0}
  /\ UNCHANGED <<born, balance, credits, todo, answer, pc, node, now, crashes>>

----------------------------------------------------------------------------

Tick ==
  /\ now < MaxClock /\ now' = now + 1
  /\ UNCHANGED <<pc, ledger, node, tasks, purged, crashes>>

\* A request's reconciler also ends when its client hangs up.
Abandon(p) ==
  /\ p # Maintenance /\ at[p] # "idle"
  /\ at' = [at EXCEPT ![p] = "idle"] /\ todo' = [todo EXCEPT ![p] = {}]
  /\ answer' = [answer EXCEPT ![p] = NoAnswer]
  /\ UNCHANGED ledger /\ TaskOnly

Crash ==
  /\ crashes < MaxCrashes /\ crashes' = crashes + 1
  /\ pc' = [r \in Requests |-> IF pc[r] = "asking" THEN "gone" ELSE pc[r]]
  /\ at' = [p \in Reconcilers |-> "idle"] /\ todo' = [p \in Reconcilers |-> {}]
  /\ answer' = [p \in Reconcilers |-> NoAnswer]
  /\ UNCHANGED <<ledger, node, purged, now>>

Init ==
  /\ pc = [r \in Requests |-> "idle"]
  /\ rows = {} /\ born = [r \in Requests |-> 0]
  /\ balance = [a \in Accounts |-> 0] /\ credits = [r \in Requests |-> 0]
  /\ invoice = [r \in Requests |-> "none"] /\ issuedAt = [r \in Requests |-> 0]
  /\ arrived = [r \in Requests |-> 0]
  /\ at = [p \in Reconcilers |-> "idle"] /\ todo = [p \in Reconcilers |-> {}]
  /\ answer = [p \in Reconcilers |-> NoAnswer]
  /\ purged = {} /\ now = 0 /\ crashes = 0

Handler(r) == Ask(r) \/ Record(r) \/ GiveUp(r)
Node(r) == Issue(r) \/ Arrive(r) \/ Expire(r)
Reconcile(p) ==
  \/ Start(p) \/ Continue(p) \/ Events(p) \/ Purge(p) \/ Abandon(p)
  \/ \E r \in Requests : Lookup(p, r) \/ Apply(p, r)
  \/ \E skipped \in SUBSET Requests : CallErrs(p, skipped)

Next ==
  \/ \E r \in Requests : Handler(r) \/ Node(r)
  \/ \E p \in Reconcilers : Reconcile(p)
  \/ Tick
  \/ Crash

Spec == Init /\ [][Next]_vars

\* The maintenance loop goes round for ever, and a call about what arrived
\* does not err every time.
Fairness ==
  /\ WF_vars(Start(Maintenance)) /\ WF_vars(Continue(Maintenance)) /\ WF_vars(Purge(Maintenance))
  /\ SF_vars(Events(Maintenance))
  /\ \A r \in Requests :
       SF_vars(Lookup(Maintenance, r)) /\ WF_vars(Apply(Maintenance, r))

FairSpec == Spec /\ Fairness

----------------------------------------------------------------------------
(* Properties *)

TypeOK ==
  /\ pc \in [Requests -> {"idle", "asking", "shown", "gone"}]
  /\ rows \subseteq Requests /\ born \in [Requests -> 0 .. MaxClock]
  /\ balance \in [Accounts -> Nat] /\ credits \in [Requests -> Nat]
  /\ invoice \in [Requests -> States] /\ issuedAt \in [Requests -> 0 .. MaxClock]
  /\ arrived \in [Requests -> 0 .. MaxPayments]
  /\ at \in [Reconcilers -> {"idle", "receive", "ln_receive", "sats_deposit", "purge"}]
  /\ todo \in [Reconcilers -> SUBSET Requests]
  /\ answer \in [Reconcilers -> [Requests -> States]]
  /\ purged \subseteq Invoices /\ now \in 0 .. MaxClock /\ crashes \in 0 .. MaxCrashes

Credited == {r \in Requests : credits[r] > 0}

\* An address that was used again: its row goes with the first credit, so that
\* nothing looks for a transfer that comes afterwards.
Reused == {r \in Requests \ Invoices : credits[r] > 0 /\ arrived[r] > credits[r]}

\* However many reconcilers act on the same answer, a balance is the sum of
\* the requests credited to it, each once and each for something that arrived
\* (registry.rs 11-13: credits happen only on confirmed receives).
CreditsBacked ==
  /\ \A r \in Requests : credits[r] <= 1 /\ (credits[r] = 1 => arrived[r] > 0)
  /\ \A a \in Accounts : balance[a] = Total(Amt, {r \in Credited : Owner[r] = a})

\* As long as less was credited than arrived, the row is there and a later pass
\* finds it: no reconciler deletes a row on an old answer.  Two exceptions.  A
\* pass whose look-up of an old invoice failed, or came before its payment,
\* purges the row (registry.rs 649-651 expects only invoices lnd has
\* forgotten); and of the transfers to one address only the first is credited,
\* with which its row goes (registry.rs 530-560), although routes/mod.rs 797
\* says "On confirmation of an incoming transfer, reconciliation credits the
\* caller's balance".
ArrivalKept ==
  \A r \in Requests : arrived[r] > credits[r] => r \in rows \/ r \in purged \/ r \in Reused

\* Whatever arrived and is not credited yet is credited in the end, by the
\* maintenance loop alone if no user asks for anything; with the same two
\* exceptions, of a purged invoice and of an address's later transfers.
ArrivalCredited ==
  \A r \in Requests :
    arrived[r] > credits[r] ~> arrived[r] = credits[r] \/ r \in purged \/ r \in Reused
=============================================================================
