------------------------- MODULE GatewayCredit_proofs -------------------------
(***************************************************************************)
(* Theorems about GatewayCredit, for every set of accounts and requests,   *)
(* every amount, any number of reconcilers, transfers and crashes, and a   *)
(* clock of any length.                                                    *)
(***************************************************************************)
EXTENDS GatewayCredit, UnitSums_proofs

----------------------------------------------------------------------------
(* The inductive invariant *)

\* One request: its handler, its row, what the node says and what it was credited.
Receipt(r) ==
  /\ credits[r] <= 1 /\ (credits[r] = 1 => arrived[r] > 0)
  /\ invoice[r] = "settled" <=> arrived[r] > 0
  /\ r \in Invoices => arrived[r] <= 1
  /\ invoice[r] = "canceled" => r \in Invoices
  /\ pc[r] # "shown" => r \notin rows /\ arrived[r] = 0
  /\ pc[r] = "shown" => invoice[r] # "none"
  /\ r \in rows => credits[r] = 0 /\ issuedAt[r] <= born[r]
  /\ issuedAt[r] <= now

\* An answer that decides anything is one the node does not change any more.
Final(r) ==
  \A p \in Reconcilers : answer[p][r] \in {"settled", "canceled"} => answer[p][r] = invoice[r]

\* What a client was shown still has its row, or has lost it for a good reason.
Dead(r) == r \in Invoices /\ invoice[r] = "open" /\ now > issuedAt[r] + Expiry
Kept(r) ==
  pc[r] = "shown" =>
    r \in rows \/ credits[r] = 1 \/ r \in purged \/ invoice[r] = "canceled" \/ Dead(r)

Receipts == \A r \in Requests : Receipt(r) /\ Final(r)
Booked == \A a \in Accounts : balance[a] = Total(Amt, {r \in Credited : Owner[r] = a})
NoneLost == TTL >= Expiry => \A r \in Requests : Kept(r)

IInv == TypeOK /\ Receipts /\ Booked /\ NoneLost

----------------------------------------------------------------------------
(* Types *)

LEMMA ClockNat ==
  ASSUME TypeOK
  PROVE  /\ now \in Nat /\ TTL \in Nat /\ Expiry \in Nat
         /\ \A r \in Requests : /\ born[r] \in Nat /\ issuedAt[r] \in Nat /\ arrived[r] \in Nat
                                /\ credits[r] \in Nat
BY CreditAssumption DEF TypeOK

LEMMA AnswerTypes ==
  ASSUME TypeOK
  PROVE  /\ NoAnswer \in [Requests -> States] /\ {} \subseteq Requests
         /\ \A k : PendingOf(k) \subseteq Requests
BY DEF NoAnswer, States, PendingOf, TypeOK

TaskTypes ==
  /\ at \in [Reconcilers -> {"idle", "receive", "ln_receive", "sats_deposit", "purge"}]
  /\ todo \in [Reconcilers -> SUBSET Requests]
  /\ answer \in [Reconcilers -> [Requests -> States]]

LedgerTypes ==
  /\ rows \subseteq Requests /\ born \in [Requests -> 0 .. MaxClock]
  /\ balance \in [Accounts -> Nat] /\ credits \in [Requests -> Nat]

LEMMA ResolveTypes ==
  ASSUME TypeOK, NEW r \in Requests, Resolve(r) \/ Delete(r) \/ UNCHANGED ledger
  PROVE  LedgerTypes'
<1>1. Owner[r] \in Accounts /\ Amt[r] \in Nat
  BY CreditAssumption
<1>2. CASE Resolve(r) /\ r \in rows
  <2>1. balance' \in [Accounts -> Nat]
    BY <1>1, <1>2 DEF Resolve, Plus, TypeOK
  <2>2. credits' \in [Requests -> Nat]
    BY <1>2 DEF Resolve, TypeOK
  <2> QED
    BY <1>2, <2>1, <2>2 DEF Resolve, TypeOK, LedgerTypes
<1>3. CASE Delete(r)
  BY <1>3 DEF Delete, TypeOK, LedgerTypes
<1>4. CASE UNCHANGED ledger
  BY <1>4 DEF ledger, TypeOK, LedgerTypes
<1> QED
  BY <1>2, <1>3, <1>4 DEF Resolve

LEMMA TypeInit == Init => TypeOK
<1> SUFFICES ASSUME Init PROVE TypeOK
  OBVIOUS
<1>1. 0 \in 0 .. MaxClock /\ 0 \in 0 .. MaxPayments /\ 0 \in 0 .. MaxCrashes
  BY CreditAssumption
<1> QED
  BY <1>1 DEF Init, TypeOK, NoAnswer, States

LEMMA TypeStep == TypeOK /\ [Next]_vars => TypeOK'
<1> SUFFICES ASSUME TypeOK, [Next]_vars PROVE TypeOK'
  OBVIOUS
<1> USE CreditAssumption
<1>1. ASSUME NEW r \in Requests, Ask(r) \/ GiveUp(r) PROVE TypeOK'
  BY <1>1 DEF Ask, GiveUp, TypeOK, ledger, node, tasks
<1>2. ASSUME NEW r \in Requests, Record(r) PROVE TypeOK'
  BY <1>2 DEF Record, TypeOK, node, tasks
<1>3. ASSUME NEW r \in Requests, Issue(r) PROVE TypeOK'
  BY <1>3 DEF Issue, NodeOnly, TypeOK, States, ledger, tasks
<1>4. ASSUME NEW r \in Requests, Arrive(r) PROVE TypeOK'
  <2>1. arrived' \in [Requests -> 0 .. MaxPayments]
    BY <1>4 DEF Arrive, TypeOK
  <2> QED
    BY <1>4, <2>1 DEF Arrive, NodeOnly, TypeOK, States, ledger, tasks
<1>5. ASSUME NEW r \in Requests, Expire(r) PROVE TypeOK'
  BY <1>5 DEF Expire, NodeOnly, TypeOK, States, ledger, tasks
<1>6. ASSUME NEW p \in Reconcilers, Start(p) \/ Continue(p) \/ Events(p) \/ Abandon(p)
      PROVE  TypeOK'
  <2>1. UNCHANGED <<pc, ledger, node, purged, now, crashes>>
    BY <1>6 DEF Start, Continue, Events, Abandon, Begin, TaskOnly
  <2>2. \A r \in Requests : invoice[r] \in States
    BY DEF TypeOK
  <2>3. TaskTypes'
    <3>1. CASE Start(p)
      BY <3>1, AnswerTypes DEF Start, Begin, TypeOK, TaskTypes
    <3>2. CASE Continue(p)
      <4>1. PICK k \in {"ln_receive", "sats_deposit", "purge", "idle"} :
              at' = [at EXCEPT ![p] = k] /\ UNCHANGED answer
        BY <3>2 DEF Continue, Begin
      <4>2. todo' \in [Reconcilers -> SUBSET Requests]
        BY <3>2, AnswerTypes DEF Continue, Begin, TypeOK
      <4> QED
        BY <4>1, <4>2 DEF TypeOK, TaskTypes
    <3>3. CASE Events(p)
      <4> DEFINE f == [r \in Requests |-> IF r \in todo[p] THEN invoice[r] ELSE "none"]
      <4>1. f \in [Requests -> States]
        BY <2>2 DEF States
      <4>2. answer' = [answer EXCEPT ![p] = f]
        BY <3>3 DEF Events
      <4> HIDE DEF f
      <4> QED
        BY <3>3, <4>1, <4>2 DEF Events, TypeOK, TaskTypes
    <3>4. CASE Abandon(p)
      BY <3>4, AnswerTypes DEF Abandon, TypeOK, TaskTypes
    <3> QED
      BY <1>6, <3>1, <3>2, <3>3, <3>4
  <2> QED
    BY <2>1, <2>3 DEF TypeOK, TaskTypes, ledger, node
<1>7. ASSUME NEW p \in Reconcilers, NEW r \in Requests, Lookup(p, r) PROVE TypeOK'
  <2>1. invoice[r] \in States /\ answer[p] \in [Requests -> States]
    BY DEF TypeOK
  <2>2. [answer[p] EXCEPT ![r] = invoice[r]] \in [Requests -> States]
    BY <2>1
  <2>3. answer' = [answer EXCEPT ![p] = [answer[p] EXCEPT ![r] = invoice[r]]]
    BY <1>7 DEF Lookup
  <2>4. answer' \in [Reconcilers -> [Requests -> States]]
    BY <2>2, <2>3 DEF TypeOK
  <2> QED
    BY <1>7, <2>4 DEF Lookup, TaskOnly, TypeOK, ledger, node
<1>8. ASSUME NEW p \in Reconcilers, NEW r \in Requests, Apply(p, r) PROVE TypeOK'
  <2>1. LedgerTypes'
    BY <1>8, ResolveTypes DEF Apply, TypeOK, States
  <2>2. answer[p] \in [Requests -> States] /\ "none" \in States
    BY DEF TypeOK, States
  <2>3. [answer[p] EXCEPT ![r] = "none"] \in [Requests -> States]
    BY <2>2
  <2>4. answer' = [answer EXCEPT ![p] = [answer[p] EXCEPT ![r] = "none"]]
    BY <1>8 DEF Apply
  <2>5. answer' \in [Reconcilers -> [Requests -> States]]
    BY <2>3, <2>4 DEF TypeOK
  <2>6. todo' \in [Reconcilers -> SUBSET Requests]
    BY <1>8 DEF Apply, TypeOK
  <2> QED
    BY <1>8, <2>1, <2>5, <2>6 DEF Apply, TaskOnly, TypeOK, LedgerTypes, node
<1>9. ASSUME NEW p \in Reconcilers, NEW skipped \in SUBSET Requests, CallErrs(p, skipped)
      PROVE  TypeOK'
  <2>1. todo' \in [Reconcilers -> SUBSET Requests]
    BY <1>9 DEF CallErrs, TypeOK
  <2> QED
    BY <1>9, <2>1 DEF CallErrs, TaskOnly, TypeOK, ledger, node
<1>10. ASSUME NEW p \in Reconcilers, Purge(p) PROVE TypeOK'
  <2>1. Stale \subseteq Invoices
    BY DEF Stale, PendingOf, Invoices, TypeOK
  <2>2. at' \in [Reconcilers -> {"idle", "receive", "ln_receive", "sats_deposit", "purge"}]
    BY <1>10 DEF Purge, TypeOK
  <2> QED
    BY <1>10, <2>1, <2>2 DEF Purge, TypeOK, node
<1>11. CASE Tick
  BY <1>11 DEF Tick, TypeOK, ledger, node, tasks
<1>12. CASE Crash
  BY <1>12, AnswerTypes DEF Crash, TypeOK, ledger, node
<1>13. CASE UNCHANGED vars
  BY <1>13 DEF TypeOK, vars, ledger, node, tasks
<1> QED
  BY <1>1, <1>2, <1>3, <1>4, <1>5, <1>6, <1>7, <1>8, <1>9, <1>10, <1>11, <1>12, <1>13
     DEF Next, Handler, Node, Reconcile

----------------------------------------------------------------------------
(* The requests *)

\* A step of a request, or of the node about it, leaves the others alone.
OnlyAbout(r) ==
  \A x \in Requests \ {r} :
    /\ pc'[x] = pc[x] /\ (x \in rows' <=> x \in rows) /\ born'[x] = born[x]
    /\ credits'[x] = credits[x] /\ invoice'[x] = invoice[x] /\ issuedAt'[x] = issuedAt[x]
    /\ arrived'[x] = arrived[x] /\ (x \in purged' <=> x \in purged)

LEMMA OthersStay ==
  ASSUME NEW r \in Requests, Receipts, OnlyAbout(r), UNCHANGED now,
         NEW x \in Requests \ {r}
  PROVE  Receipt(x)' /\ (Kept(x) => Kept(x)')
BY DEF Receipts, Receipt, OnlyAbout, Kept, Dead, Invoices

\* The node's word about x is final, and no reconciler is told anything new.
LEMMA FinalStays ==
  ASSUME NEW x \in Requests, Final(x), UNCHANGED answer,
         invoice[x] \in {"settled", "canceled"} => invoice'[x] = invoice[x]
  PROVE  Final(x)'
BY DEF Final

LEMMA HandlerReceipts ==
  ASSUME TypeOK, Receipts, NEW r \in Requests, Handler(r) \/ Node(r)
  PROVE  Receipts' /\ (NoneLost => NoneLost')
<1>1. OnlyAbout(r) /\ UNCHANGED <<now, answer>>
  BY DEF Handler, Ask, Record, GiveUp, Node, Issue, Arrive, Expire, NodeOnly, OnlyAbout,
         TypeOK, ledger, node, tasks
<1>2. \A x \in Requests : Receipt(x) /\ Final(x)
  BY DEF Receipts
<1>3. /\ now \in Nat /\ issuedAt[r] \in Nat /\ arrived[r] \in Nat /\ credits[r] \in Nat
      /\ born[r] \in Nat /\ Expiry \in Nat
  BY ClockNat
<1>4. Receipt(r)' /\ (Kept(r) => Kept(r)')
  <2>1. CASE Ask(r) \/ GiveUp(r)
    BY <1>2, <2>1 DEF Ask, GiveUp, ledger, node, TypeOK, Receipt, Kept, Invoices
  <2>2. CASE Record(r)
    <3>1. /\ pc[r] = "asking" /\ invoice[r] # "none" /\ pc'[r] = "shown" /\ r \in rows'
          /\ born'[r] = now /\ UNCHANGED <<credits, invoice, issuedAt, arrived, now>>
      BY <2>2 DEF Record, node, TypeOK
    <3>2. credits[r] = 0
      BY <1>2, <1>3, <3>1 DEF Receipt
    <3> QED
      BY <1>2, <1>3, <3>1, <3>2 DEF Receipt, Kept, Invoices
  <2>3. CASE Issue(r)
    BY <1>2, <1>3, <2>3 DEF Issue, NodeOnly, ledger, TypeOK, Receipt, Kept, Invoices
  <2>4. CASE Arrive(r)
    <3>1. /\ pc[r] = "shown" /\ arrived'[r] = arrived[r] + 1 /\ invoice'[r] = "settled"
          /\ issuedAt'[r] = issuedAt[r]
          /\ r \in Invoices => invoice[r] = "open" /\ ~(now > issuedAt[r] + Expiry)
          /\ UNCHANGED <<pc, rows, born, credits, purged, now>>
      BY <1>3, <2>4 DEF Arrive, NodeOnly, ledger, TypeOK
    <3> QED
      BY <1>2, <1>3, <3>1 DEF Receipt, Kept, Dead, Invoices
  <2>5. CASE Expire(r)
    BY <1>2, <1>3, <2>5 DEF Expire, NodeOnly, ledger, TypeOK, Receipt, Kept, Dead, Invoices
  <2> QED
    BY <2>1, <2>2, <2>3, <2>4, <2>5 DEF Handler, Node
<1>5. \A x \in Requests : Receipt(x)' /\ (Kept(x) => Kept(x)')
  BY <1>1, <1>4, OthersStay DEF Receipts
<1>6. invoice[r] \in {"settled", "canceled"} => invoice'[r] = invoice[r]
  BY <1>2 DEF Handler, Ask, Record, GiveUp, Node, Issue, Arrive, Expire, TypeOK, node,
              Receipt, Invoices
<1>7. \A x \in Requests : Final(x)'
  BY <1>1, <1>2, <1>6, FinalStays DEF OnlyAbout
<1> QED
  BY <1>5, <1>7 DEF Receipts, NoneLost

\* What the reconcilers read.
LEMMA TaskReceipts ==
  ASSUME TypeOK, Receipts,
         UNCHANGED <<ledger, node, purged, now>>,
         \A x \in Requests : pc'[x] = pc[x] \/ (pc[x] = "asking" /\ pc'[x] = "gone"),
         \A x \in Requests, p \in Reconcilers : answer'[p][x] \in {answer[p][x], invoice[x], "none"}
  PROVE  Receipts' /\ (NoneLost => NoneLost')
<1>1. \A x \in Requests : Receipt(x)' /\ (Kept(x) => Kept(x)')
  BY DEF Receipts, Receipt, Kept, Dead, Invoices, ledger, node
<1>2. \A x \in Requests : Final(x)'
  BY DEF Receipts, Final, node
<1> QED
  BY <1>1, <1>2 DEF Receipts, NoneLost

\* What an answer makes of a row.
LEMMA ApplyReceipts ==
  ASSUME TypeOK, Receipts, NEW p \in Reconcilers, NEW r \in Requests, Apply(p, r)
  PROVE  Receipts' /\ (NoneLost => NoneLost')
<1>1. OnlyAbout(r) /\ UNCHANGED <<now, node, pc, purged, born>>
  <2>1. /\ UNCHANGED <<now, node, pc, purged>>
        /\ Resolve(r) \/ Delete(r) \/ UNCHANGED ledger
    BY DEF Apply, TaskOnly, TypeOK, States
  <2>2. UNCHANGED born /\ \A x \in Requests \ {r} : (x \in rows' <=> x \in rows) /\ credits'[x] = credits[x]
    BY <2>1 DEF Resolve, Delete, TypeOK, ledger
  <2> QED
    BY <2>1, <2>2 DEF OnlyAbout, node
<1>2. \A x \in Requests : Receipt(x) /\ Final(x)
  BY DEF Receipts
<1>3. /\ arrived[r] \in Nat /\ credits[r] \in Nat /\ now \in Nat
      /\ issuedAt[r] \in Nat /\ born[r] \in Nat
  BY ClockNat
<1>4. answer[p][r] \in {"settled", "canceled"} => answer[p][r] = invoice[r]
  BY <1>2 DEF Final
<1>5. Receipt(r)' /\ (Kept(r) => Kept(r)')
  <2>1. CASE answer[p][r] = "settled" /\ Resolve(r) /\ r \in rows
    BY <1>1, <1>2, <1>3, <1>4, <2>1 DEF Resolve, TypeOK, Receipt, Kept, Invoices, node
  <2>2. CASE answer[p][r] = "canceled" /\ Delete(r)
    BY <1>1, <1>2, <1>3, <1>4, <2>2 DEF Delete, TypeOK, Receipt, Kept, Invoices, node
  <2>3. CASE UNCHANGED ledger
    BY <1>1, <1>2, <2>3 DEF Receipt, Kept, Dead, Invoices, node, ledger
  <2> QED
    BY <2>1, <2>2, <2>3 DEF Apply, Resolve, TypeOK, States
<1>6. \A x \in Requests : Receipt(x)' /\ (Kept(x) => Kept(x)')
  BY <1>1, <1>5, OthersStay DEF Receipts
<1>7. \A x \in Requests, q \in Reconcilers : answer'[q][x] \in {answer[q][x], "none"}
  BY DEF Apply, TypeOK
<1>8. \A x \in Requests : Final(x)'
  BY <1>1, <1>2, <1>7 DEF Final, node
<1> QED
  BY <1>6, <1>8 DEF Receipts, NoneLost

\* What the purge takes either arrived, and is noted, or cannot arrive any more.
LEMMA PurgeReceipts ==
  ASSUME TypeOK, Receipts, NEW p \in Reconcilers, Purge(p)
  PROVE  Receipts' /\ (NoneLost => NoneLost')
<1>1. /\ rows' = rows \ Stale /\ purged' = purged \cup {r \in Stale : arrived[r] > 0}
      /\ UNCHANGED <<pc, born, balance, credits, node, answer, now>>
  BY DEF Purge
<1>2. \A x \in Requests : Receipt(x) /\ Final(x)
  BY DEF Receipts
<1>3. \A x \in Requests : Receipt(x)' /\ Final(x)'
  BY <1>1, <1>2 DEF Receipt, Final, Invoices, node
<1>4. ASSUME NEW x \in Requests, TTL >= Expiry, Kept(x) PROVE Kept(x)'
  <2>1. CASE x \in Stale /\ x \in rows /\ ~(arrived[x] > 0)
    <3>1. /\ x \in Invoices /\ born[x] < now - TTL /\ issuedAt[x] <= born[x]
          /\ pc[x] = "shown" /\ invoice[x] \in {"open", "canceled"}
      BY <1>2, <2>1 DEF Stale, PendingOf, Invoices, Receipt, TypeOK, States
    <3>2. now > issuedAt[x] + Expiry
      BY <1>4, <3>1, ClockNat
    <3> QED
      BY <1>1, <3>1, <3>2 DEF Kept, Dead, node, Invoices
  <2>2. CASE ~(x \in Stale /\ x \in rows /\ ~(arrived[x] > 0))
    BY <1>1, <1>4, <2>2 DEF Kept, Dead, node, Invoices
  <2> QED
    BY <2>1, <2>2
<1> QED
  BY <1>3, <1>4 DEF Receipts, NoneLost

LEMMA TickReceipts ==
  ASSUME TypeOK, Receipts, Tick
  PROVE  Receipts' /\ (NoneLost => NoneLost')
<1>1. now' = now + 1 /\ UNCHANGED <<pc, rows, born, credits, invoice, issuedAt, arrived, answer, purged>>
  BY DEF Tick, ledger, node, tasks
<1>2. \A x \in Requests : Receipt(x)' /\ Final(x)' /\ (Kept(x) => Kept(x)')
  <2> SUFFICES ASSUME NEW x \in Requests PROVE Receipt(x)' /\ Final(x)' /\ (Kept(x) => Kept(x)')
    OBVIOUS
  <2>1. now \in Nat /\ issuedAt[x] \in Nat /\ Expiry \in Nat /\ Receipt(x) /\ Final(x)
    BY ClockNat DEF Receipts
  <2>2. issuedAt[x] <= now => issuedAt[x] <= now'
    BY <1>1, <2>1
  <2>3. Receipt(x)' /\ Final(x)'
    BY <1>1, <2>1, <2>2 DEF Receipt, Final, Invoices
  <2>4. now > issuedAt[x] + Expiry => now' > issuedAt[x] + Expiry
    BY <1>1, <2>1
  <2>5. Kept(x) => Kept(x)'
    BY <1>1, <2>4 DEF Kept, Dead, Invoices
  <2> QED
    BY <2>3, <2>5
<1> QED
  BY <1>2 DEF Receipts, NoneLost

LEMMA ReceiptsStep ==
  TypeOK /\ Receipts /\ [Next]_vars => Receipts' /\ (NoneLost => NoneLost')
<1> SUFFICES ASSUME TypeOK, Receipts, [Next]_vars PROVE Receipts' /\ (NoneLost => NoneLost')
  OBVIOUS
<1>1. ASSUME NEW p \in Reconcilers, Start(p) \/ Continue(p) \/ Events(p) \/ Abandon(p)
      PROVE  Receipts' /\ (NoneLost => NoneLost')
  <2>1. UNCHANGED <<pc, ledger, node, purged, now>>
    BY <1>1 DEF Start, Continue, Events, Abandon, Begin, TaskOnly
  <2>2. \A x \in Requests, q \in Reconcilers : answer'[q][x] \in {answer[q][x], invoice[x], "none"}
    BY <1>1 DEF Start, Continue, Events, Abandon, Begin, NoAnswer, TypeOK
  <2> QED
    BY <2>1, <2>2, TaskReceipts
<1>2. ASSUME NEW p \in Reconcilers, NEW r \in Requests, Lookup(p, r)
      PROVE  Receipts' /\ (NoneLost => NoneLost')
  <2>1. UNCHANGED <<pc, ledger, node, purged, now>>
    BY <1>2 DEF Lookup, TaskOnly
  <2>2. \A x \in Requests, q \in Reconcilers : answer'[q][x] \in {answer[q][x], invoice[x], "none"}
    BY <1>2 DEF Lookup, TypeOK
  <2> QED
    BY <2>1, <2>2, TaskReceipts
<1>3. ASSUME \/ \E p \in Reconcilers, skipped \in SUBSET Requests : CallErrs(p, skipped)
             \/ UNCHANGED vars
      PROVE  Receipts' /\ (NoneLost => NoneLost')
  <2>1. UNCHANGED <<pc, ledger, node, purged, now, answer>>
    BY <1>3 DEF CallErrs, TaskOnly, vars, tasks
  <2> QED
    BY <2>1, TaskReceipts
<1>4. CASE Crash
  <2>1. /\ UNCHANGED <<ledger, node, purged, now>>
        /\ \A x \in Requests : pc'[x] = pc[x] \/ (pc[x] = "asking" /\ pc'[x] = "gone")
    BY <1>4 DEF Crash
  <2>2. \A x \in Requests, q \in Reconcilers : answer'[q][x] = "none"
    BY <1>4 DEF Crash, NoAnswer
  <2> QED
    BY <2>1, <2>2, TaskReceipts
<1> QED
  BY <1>1, <1>2, <1>3, <1>4, HandlerReceipts, ApplyReceipts, PurgeReceipts, TickReceipts
     DEF Next, Reconcile

----------------------------------------------------------------------------
(* The balances *)

LEMMA CreditedColumn ==
  ASSUME TypeOK, NEW a
  PROVE  Column(Amt, {r \in Credited : Owner[r] = a})
<1> DEFINE S == {r \in Credited : Owner[r] = a}
<1>1. IsFiniteSet(S) /\ S \subseteq Requests
  BY CreditAssumption, FS_Subset DEF Credited
<1> QED
  BY <1>1, CreditAssumption DEF Column

LEMMA BookedStays ==
  ASSUME Booked, UNCHANGED <<balance, credits>>
  PROVE  Booked'
BY DEF Booked, Credited

LEMMA ResolveBooked ==
  ASSUME TypeOK, Receipts, Booked, NEW r \in Requests, Resolve(r)
  PROVE  Booked'
<1>1. CASE r \notin rows
  BY <1>1, BookedStays DEF Resolve, ledger
<1>2. CASE r \in rows
  <2>1. /\ balance' = Plus(balance, Owner[r], Amt[r])
        /\ credits' = [credits EXCEPT ![r] = @ + 1] /\ credits[r] = 0
        /\ Owner[r] \in Accounts /\ Amt[r] \in Nat
    BY <1>2, CreditAssumption DEF Resolve, Receipts, Receipt
  <2>2. r \notin Credited /\ Credited' = Credited \cup {r}
    BY <2>1 DEF Credited, TypeOK
  <2> SUFFICES ASSUME NEW a \in Accounts
               PROVE  balance'[a] = Total(Amt, {x \in Credited' : Owner[x] = a})
    BY DEF Booked
  <2> DEFINE S == {x \in Credited : Owner[x] = a}
  <2>3. Column(Amt, S) /\ balance[a] = Total(Amt, S) /\ r \notin S
    BY <2>2, CreditedColumn DEF Booked
  <2>4. CASE a = Owner[r]
    <3>1. {x \in Credited' : Owner[x] = a} = S \cup {r}
      BY <2>2, <2>4
    <3> HIDE DEF S
    <3>2. Total(Amt, S \cup {r}) = Total(Amt, S) + Amt[r]
      BY <2>1, <2>3, TotalInsert
    <3>3. balance'[a] = balance[a] + Amt[r]
      BY <2>1, <2>4 DEF Plus, TypeOK
    <3> QED
      BY <2>3, <3>1, <3>2, <3>3
  <2>5. CASE a # Owner[r]
    <3>1. {x \in Credited' : Owner[x] = a} = S
      BY <2>2, <2>5
    <3>2. balance'[a] = balance[a]
      BY <2>1, <2>5 DEF Plus, TypeOK
    <3> QED
      BY <2>3, <3>1, <3>2
  <2> QED
    BY <2>4, <2>5
<1> QED
  BY <1>1, <1>2

LEMMA BookedStep == TypeOK /\ Receipts /\ Booked /\ [Next]_vars => Booked'
<1> SUFFICES ASSUME TypeOK, Receipts, Booked, [Next]_vars PROVE Booked'
  OBVIOUS
<1>1. ASSUME NEW p \in Reconcilers, NEW r \in Requests, Apply(p, r) PROVE Booked'
  <2>1. Resolve(r) \/ UNCHANGED <<balance, credits>>
    BY <1>1 DEF Apply, Delete, TypeOK, States, ledger
  <2> QED
    BY <2>1, ResolveBooked, BookedStays
<1>2. ASSUME \/ \E r \in Requests : Handler(r) \/ Node(r)
             \/ \E p \in Reconcilers :
                  \/ Start(p) \/ Continue(p) \/ Events(p) \/ Purge(p) \/ Abandon(p)
                  \/ \E r \in Requests : Lookup(p, r)
                  \/ \E skipped \in SUBSET Requests : CallErrs(p, skipped)
             \/ Tick \/ Crash \/ UNCHANGED vars
      PROVE  Booked'
  <2>1. UNCHANGED <<balance, credits>>
    BY <1>2 DEF Handler, Ask, Record, GiveUp, Node, Issue, Arrive, Expire, NodeOnly, Start,
                Continue, Events, Purge, Abandon, Lookup, CallErrs, TaskOnly, Tick, Crash,
                vars, ledger
  <2> QED
    BY <2>1, BookedStays
<1> QED
  BY <1>1, <1>2 DEF Next, Reconcile

----------------------------------------------------------------------------
(* The theorems *)

LEMMA InitHolds == Init => IInv
<1> SUFFICES ASSUME Init PROVE IInv
  OBVIOUS
<1>1. TypeOK
  BY TypeInit
<1>2. Receipts
  BY DEF Init, Receipts, Receipt, Final, NoAnswer
<1>3. Credited = {}
  BY DEF Init, Credited
<1>4. Booked
  <2>1. \A a \in Accounts : {r \in Credited : Owner[r] = a} = {}
    BY <1>3
  <2> QED
    BY <2>1, TotalEmpty DEF Init, Booked
<1>5. NoneLost
  BY DEF Init, NoneLost, Kept
<1> QED
  BY <1>1, <1>2, <1>4, <1>5 DEF IInv

\* Types, receipts, books and rows in every reachable state.
THEOREM CreditHolds == Spec => []IInv
<1>1. Init => IInv
  BY InitHolds
<1>2. IInv /\ [Next]_vars => IInv'
  BY TypeStep, ReceiptsStep, BookedStep DEF IInv
<1> QED
  BY <1>1, <1>2, PTL DEF Spec

\* Every variable keeps its type.
THEOREM CreditTypeCorrect == Spec => []TypeOK
<1>1. IInv => TypeOK
  BY DEF IInv
<1> QED
  BY <1>1, CreditHolds, PTL

\* Each receipt is credited once and only if it arrived, and a balance is the
\* sum of its receipts, with any number of reconcilers (registry.rs 11-13).
THEOREM CreditsHold == Spec => []CreditsBacked
<1>1. IInv => CreditsBacked
  BY DEF IInv, Receipts, Receipt, Booked, CreditsBacked
<1> QED
  BY <1>1, CreditHolds, PTL

\* When rows live at least as long as invoices, what is not credited yet has
\* its row, but for the purge and the later transfers that ArrivalKept names.
THEOREM ArrivalHolds ==
  ASSUME TTL >= Expiry
  PROVE  Spec => []ArrivalKept
<1>1. IInv => ArrivalKept
  <2> SUFFICES ASSUME IInv, NEW r \in Requests, arrived[r] > credits[r]
               PROVE  r \in rows \/ r \in purged \/ r \in Reused
    BY DEF ArrivalKept
  <2>1. Receipt(r) /\ Kept(r) /\ TypeOK
    BY DEF IInv, Receipts, NoneLost
  <2>2. arrived[r] \in Nat /\ credits[r] \in Nat /\ credits[r] <= 1
    BY <2>1, ClockNat DEF Receipt
  <2>3. CASE credits[r] = 0
    <3>1. pc[r] = "shown" /\ invoice[r] = "settled"
      BY <2>1, <2>2, <2>3 DEF Receipt, TypeOK
    <3> QED
      BY <2>1, <2>3, <3>1 DEF Kept, Dead
  <2>4. CASE credits[r] = 1
    <3>1. r \notin Invoices
      BY <2>1, <2>2, <2>4 DEF Receipt
    <3> QED
      BY <2>4, <3>1 DEF Reused
  <2> QED
    BY <2>2, <2>3, <2>4
<1> QED
  BY <1>1, CreditHolds, PTL
=============================================================================
