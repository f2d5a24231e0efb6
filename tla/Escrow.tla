------------------------------- MODULE Escrow -------------------------------
(***************************************************************************)
(* What the ledger promises about outgoing payments, whatever the node,    *)
(* the network and the process do: a request's units leave the owner's     *)
(* spendable funds once, when they are reserved, and the reservation ends  *)
(* at most once, either settled (the units are gone) or refunded (they are *)
(* back).  Between two owners units only move.                             *)
(***************************************************************************)
EXTENDS UnitSums

CONSTANTS Accounts, Requests, Owner, Amt, TransferAmounts, Funds0

VARIABLES
  funds,   \* what each account can spend
  state    \* of each request: "idle", "reserved", "settled" or "refunded"

vars == <<funds, state>>

Advance(r, from, to) == state[r] = from /\ state' = [state EXCEPT ![r] = to]

Reserve(r) ==
  /\ Advance(r, "idle", "reserved")
  /\ funds[Owner[r]] >= Amt[r]
  /\ funds' = Minus(funds, Owner[r], Amt[r])

Settle(r) == Advance(r, "reserved", "settled") /\ UNCHANGED funds

Refund(r) ==
  /\ Advance(r, "reserved", "refunded")
  /\ funds' = Plus(funds, Owner[r], Amt[r])

Move(from, to, n) ==
  /\ from # to /\ funds[from] >= n
  /\ funds' = Plus(Minus(funds, from, n), to, n)
  /\ UNCHANGED state

Init == funds = Funds0 /\ state = [r \in Requests |-> "idle"]

Next ==
  \/ \E r \in Requests : Reserve(r) \/ Settle(r) \/ Refund(r)
  \/ \E from, to \in Accounts, n \in TransferAmounts : Move(from, to, n)

Spec == Init /\ [][Next]_vars
=============================================================================
