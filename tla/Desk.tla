-------------------------------- MODULE Desk --------------------------------
(***************************************************************************)
(* A market of src-tauri/src/market/desk.rs, and the commands of           *)
(* market/commands.rs that trade on it: supply and reserve move along the  *)
(* curve, the ledger says who holds the tokens.  Every command runs under  *)
(* the desk's mutex, so each is one step.                                  *)
(*                                                                         *)
(* A market is a record, so that DeskListener can keep a second one, the   *)
(* snapshot on disk.  No step relates two markets, so there is one.        *)
(***************************************************************************)
EXTENDS Curve, UnitSums

CONSTANTS
  Users,       \* accounts of the ledger
  Curves,      \* the curves a creator may choose
  FeeRates,    \* creator fees, in basis points
  Budgets,     \* sats a buyer may bring
  Seeds,       \* sats the creator may open with
  MaxTrades    \* bound on the trades of a market

ASSUME DeskAssumption ==
  /\ IsFiniteSet(Users)
  /\ Curves \subseteq ValidCurves
  /\ FeeRates \subseteq 0 .. 1000 /\ Budgets \subseteq Nat /\ Seeds \subseteq Nat
  /\ MaxTrades \in Nat \ {0}

VARIABLE market

Markets ==
  [curve : Curves, feeBp : FeeRates, status : {"trading", "paused", "migrated"},
   supply : Nat, reserve : Nat, withdrawn : Nat, fees : Nat,
   balance : [Users -> Nat], trades : 0 .. MaxTrades]

----------------------------------------------------------------------------
(* Prices with the creator's fee *)

FeeOn(m, sats) == (sats * m.feeBp) \div 10000

\* A wrong variant: the budget is spent on the curve alone.
CurveBudgetGross(m, budget) == budget

\* The part of a budget that is left for the curve.
CurveBudget(m, budget) == (budget * 10000) \div (10000 + m.feeBp)

\* preview_buy and preview_sell: what is priced, and when it is refused
TokensFor(m, budget) == TokensForSats(m.curve, m.supply, CurveBudget(m, budget))
CanBuy(m, budget) == m.status = "trading" /\ TokensFor(m, budget) > 0
Cost(m, n) == CostToBuy(m.curve, m.supply, n)
TotalPrice(m, n) == Cost(m, n) + FeeOn(m, Cost(m, n))

CanSell(m, u, n) == m.status # "paused" /\ n > 0 /\ m.balance[u] >= n
Refund(m, n) == RefundToSell(m.curve, m.supply, n)
Payout(m, n) == Refund(m, n) - FeeOn(m, Refund(m, n))

\* maybe_migrate
Migrated(m) ==
  IF m.status = "trading" /\ Migratable(m.curve, m.supply)
  THEN [m EXCEPT !.status = "migrated"] ELSE m

----------------------------------------------------------------------------
(* The market after a trade *)

\* A wrong variant: a purchase that fills the curve leaves it open.
BoughtNoMigration(m, u, n) ==
  [m EXCEPT !.supply = @ + n, !.reserve = @ + Cost(m, n),
            !.fees = @ + FeeOn(m, Cost(m, n)),
            !.balance = Plus(@, u, n), !.trades = @ + 1]

Bought(m, u, n) ==
  Migrated([m EXCEPT !.supply = @ + n, !.reserve = @ + Cost(m, n),
                     !.fees = @ + FeeOn(m, Cost(m, n)),
                     !.balance = Plus(@, u, n), !.trades = @ + 1])

Sold(m, u, n) ==
  Migrated([m EXCEPT !.supply = @ - n, !.reserve = @ - Refund(m, n),
                     !.fees = @ + FeeOn(m, Refund(m, n)),
                     !.balance = Minus(@, u, n), !.trades = @ + 1])

\* A wrong variant: what is withdrawn counts as sold.
WithdrawnFromSupply(m, u, n) ==
  [m EXCEPT !.balance = Minus(@, u, n), !.supply = @ - n, !.withdrawn = @ + n]

\* Tokens leave custody and stay in circulation.
Withdrawn(m, u, n) == [m EXCEPT !.balance = Minus(@, u, n), !.withdrawn = @ + n]

Opened(c, bp) ==
  [curve |-> c, feeBp |-> bp, status |-> "trading", supply |-> 0, reserve |-> 0,
   withdrawn |-> 0, fees |-> 0, balance |-> [u \in Users |-> 0], trades |-> 0]

----------------------------------------------------------------------------
(* The commands *)

Buy(u, budget) ==
  /\ market.trades < MaxTrades /\ CanBuy(market, budget)
  /\ market' = Bought(market, u, TokensFor(market, budget))

Sell(u, n) ==
  /\ market.trades < MaxTrades /\ CanSell(market, u, n)
  /\ Refund(market, n) <= market.reserve      \* ReserveUnderflow
  /\ market' = Sold(market, u, n)

\* Desk::withdraw, after the asset has been sent
Withdraw(u, n) ==
  /\ n > 0 /\ market.balance[u] >= n
  /\ market' = Withdrawn(market, u, n)

SetPaused(paused) ==
  /\ market.status # "migrated"
  /\ market' = [market EXCEPT !.status = IF paused THEN "paused" ELSE "trading"]

\* create_market, with the creator's opening purchase if it brings sats
Create ==
  \E c \in Curves, bp \in FeeRates, seed \in Seeds, creator \in Users :
    LET opened == Opened(c, bp)
    IN IF seed = 0 THEN market = opened
       ELSE CanBuy(opened, seed) /\ market = Bought(opened, creator, TokensFor(opened, seed))

Init == Create

Next ==
  \/ \E u \in Users : \E budget \in Budgets : Buy(u, budget)
  \/ \E u \in Users : \E n \in 1 .. market.supply : Sell(u, n) \/ Withdraw(u, n)
  \/ \E paused \in BOOLEAN : SetPaused(paused)

Spec == Init /\ [][Next]_market

----------------------------------------------------------------------------
(* Properties *)

TypeOK == market \in Markets

\* The tokens in circulation are those on the ledger and those that left it
\* (desk.rs 19-20, 154-157).
LedgerConserved == market.supply = Total(market.balance, Users) + market.withdrawn

\* The reserve covers the area under the curve, to the fraction of a sat: no
\* sequence of trades, however they round, leaves it short (desk.rs 15-18).
ReserveCoversSupply ==
  Unit(market.curve) * market.reserve >= Area(market.curve, 0, market.supply)

\* Rounding takes less than a sat per trade from the traders.
RoundingBounded ==
  Unit(market.curve) * market.reserve
    <= Area(market.curve, 0, market.supply) + (Unit(market.curve) - 1) * market.trades

\* Everything in circulation could be sold back, at once or in parts, and no
\* sale meets ReserveUnderflow (desk.rs 49-52).
EverySaleCovered ==
  \A n \in 1 .. market.supply :
    LET rest == market.supply - n
    IN Refund(market, n) + ReserveAt(market.curve, rest) <= market.reserve

\* A market that trades has not reached its migration threshold: the trade that
\* reaches it closes it, and pausing does not reopen it.
ThresholdCloses == market.status = "trading" => ~Migratable(market.curve, market.supply)

\* The tokens a budget could buy beyond those it does buy, as far as the cap goes.
Beyond(m, budget) == TokensFor(m, budget) + 1 .. m.curve.cap - m.supply

\* A purchase is within the cap and, with its fee, within the budget.  More
\* tokens would take the budget to the last sat or exceed it; on a market
\* without a fee they exceed it (curve.rs 223-226, desk.rs 183-190).  A budget
\* that is the price of more tokens exactly may buy less: the fee is taken out
\* of it with one rounding and put on the cost with another, although
\* desk.rs 183 says "as many tokens as budget_sats affords (fee included)".
PurchaseLargest ==
  \A budget \in Budgets :
    LET n == TokensFor(market, budget)
    IN /\ n \in 0 .. market.curve.cap - market.supply /\ TotalPrice(market, n) <= budget
       /\ \A more \in Beyond(market, budget) :
            /\ TotalPrice(market, more) >= budget
            /\ market.feeBp = 0 => TotalPrice(market, more) > budget

\* An order is quoted for a budget and bought for the price quoted, which has the
\* fee taken out a second time.  If the market has not moved, what is left for
\* the curve is the quoted cost or one sat less, never more
\* (desk_listener.rs 223-229, 284-289).
QuoteWithinOneSat ==
  \A budget \in Budgets :
    CanBuy(market, budget) =>
      LET cost == Cost(market, TokensFor(market, budget))
      IN CurveBudget(market, TotalPrice(market, TokensFor(market, budget))) \in {cost - 1, cost}

\* What a budget buys, to a sat, and what a quote for it is bought for, to a sat.
BudgetsHonoured == PurchaseLargest /\ QuoteWithinOneSat

\* Buying and selling back at once costs something or nothing, a sat at most
\* (curve.rs 16-20), and buying in two parts is never cheaper.
RoundTripLoses ==
  \A n \in 1 .. market.curve.cap - market.supply :
    /\ RefundToSell(market.curve, market.supply + n, n) \in {Cost(market, n) - 1, Cost(market, n)}
    /\ \A i \in 1 .. n :
         Cost(market, n) <= Cost(market, i) + CostToBuy(market.curve, market.supply + i, n - i)
=============================================================================
