------------------------ MODULE DeskListener_proofs ------------------------
(***************************************************************************)
(* Theorems about DeskListener, for any users, messages, withdrawals and   *)
(* any number of restarts: who is credited has paid, who is debited was    *)
(* paid, what counts as withdrawn has left, and every step of the running  *)
(* desk is a step of module Desk.                                          *)
(*                                                                         *)
(* What a trade does to a market is taken from Desk_proofs, of which DP is *)
(* the instance for the market of DeskListener.                            *)
(***************************************************************************)
EXTENDS DeskListener, UnitSums_proofs

DP == INSTANCE Desk_proofs WITH Budgets <- UNION {0 .. b : b \in Budgets}

----------------------------------------------------------------------------
(* The desk of DeskListener and that of its proofs are one *)

\* A ledger in which nobody holds more than k
LEMMA TotalBound ==
  ASSUME NEW S, IsFiniteSet(S), NEW f, NEW k \in Nat, \A s \in S : f[s] \in Nat /\ f[s] <= k
  PROVE  Total(f, S) <= Cardinality(S) * k /\ Cardinality(S) * k \in Nat
<1>1. IsFiniteSet(1 .. k) /\ Cardinality(1 .. k) = k
  BY FS_Interval
<1>2. IsFiniteSet(S \X (1 .. k)) /\ Cardinality(S \X (1 .. k)) = Cardinality(S) * k
  BY <1>1, FS_Product
<1>3. Units(f, S) \in SUBSET (S \X (1 .. k))
  BY DEF Units, UnitsOf
<1>4. Cardinality(Units(f, S)) <= Cardinality(S \X (1 .. k))
  BY <1>2, <1>3, FS_Subset
<1>5. Cardinality(S \X (1 .. k)) \in Nat
  BY <1>2, FS_CardinalityType
<1> QED
  BY <1>2, <1>4, <1>5 DEF Total

LEMMA TradesBounded ==
  MaxTrades \in Nat \ {0} /\ Cardinality(Quotes) \in Nat /\ Cardinality(Sales) \in Nat
<1>1. Cardinality(Quotes) \in Nat /\ Cardinality(Sales) \in Nat
  BY ListenerAssumption, FS_CardinalityType
<1>2. Cardinality(Quotes) * (1 + MaxStops) \in Nat
  BY <1>1, ListenerAssumption
<1> QED
  BY <1>1, <1>2, ListenerAssumption DEF MaxTrades

\* What Desk asks of its constants
LEMMA DeskAssumptionHolds ==
  /\ DP!IsFiniteSet(Users)
  /\ Curves \subseteq DP!ValidCurves
  /\ FeeRates \subseteq 0 .. 1000 /\ UNION {0 .. b : b \in Budgets} \subseteq Nat
  /\ Seeds \subseteq Nat
  /\ MaxTrades \in Nat \ {0}
<1>1. D!ValidCurves = DP!ValidCurves
  BY DEF D!ValidCurves, DP!ValidCurves
<1>2. IsFiniteSet(Users) <=> DP!IsFiniteSet(Users)
  BY DEF IsFiniteSet, DP!IsFiniteSet
<1>3. UNION {0 .. b : b \in Budgets} \subseteq Nat
  BY MarketAssumption
<1> QED
  BY <1>1, <1>2, <1>3, TradesBounded, ListenerAssumption, MarketAssumption

LEMMA SamePrices ==
  /\ \A m, b : DP!TokensFor(m, b) = D!TokensFor(m, b)
  /\ \A m, n : DP!Cost(m, n) = D!Cost(m, n) /\ DP!Refund(m, n) = D!Refund(m, n)
  /\ \A m, x : DP!FeeOn(m, x) = D!FeeOn(m, x)
  /\ \A m : DP!Migrated(m) = D!Migrated(m)
<1>1. \A m, b : DP!TokensFor(m, b) = D!TokensFor(m, b)
  BY DEF D!TokensFor, DP!TokensFor, D!TokensForSats, DP!TokensForSats, D!Searched, DP!Searched,
         D!CurveBudget, DP!CurveBudget, D!CostToBuy, DP!CostToBuy, D!Unit, DP!Unit, D!Area, DP!Area
<1>2. \A m, n : DP!Cost(m, n) = D!Cost(m, n)
  BY DEF D!Cost, DP!Cost, D!CostToBuy, DP!CostToBuy, D!Unit, DP!Unit, D!Area, DP!Area
<1>3. \A m, n : DP!Refund(m, n) = D!Refund(m, n)
  BY DEF D!Refund, DP!Refund, D!RefundToSell, DP!RefundToSell, D!Unit, DP!Unit, D!Area, DP!Area
<1>4. \A m, x : DP!FeeOn(m, x) = D!FeeOn(m, x)
  BY DEF D!FeeOn, DP!FeeOn
<1>5. \A m : DP!Migrated(m) = D!Migrated(m)
  BY DEF D!Migrated, DP!Migrated, D!Migratable, DP!Migratable, D!ReserveAt, DP!ReserveAt,
         D!Unit, DP!Unit, D!Area, DP!Area
<1> QED
  BY <1>1, <1>2, <1>3, <1>4, <1>5

LEMMA SameMarkets ==
  /\ DP!Markets = D!Markets
  /\ \A m, u, n : /\ DP!Bought(m, u, n) = D!Bought(m, u, n)
                  /\ DP!Sold(m, u, n) = D!Sold(m, u, n)
                  /\ DP!Withdrawn(m, u, n) = D!Withdrawn(m, u, n)
  /\ \A c, bp : DP!Opened(c, bp) = D!Opened(c, bp)
<1>1. DP!Markets = D!Markets
  BY DEF D!Markets, DP!Markets
<1>2. \A m, u, n : DP!Bought(m, u, n) = D!Bought(m, u, n)
  BY SamePrices DEF D!Bought, DP!Bought, D!Plus, DP!Plus
<1>3. \A m, u, n : DP!Sold(m, u, n) = D!Sold(m, u, n)
  BY SamePrices DEF D!Sold, DP!Sold, D!Minus, DP!Minus
<1>4. \A m, u, n : DP!Withdrawn(m, u, n) = D!Withdrawn(m, u, n)
  BY DEF D!Withdrawn, DP!Withdrawn, D!Minus, DP!Minus
<1>5. \A c, bp : DP!Opened(c, bp) = D!Opened(c, bp)
  BY DEF D!Opened, DP!Opened
<1> QED
  BY <1>1, <1>2, <1>3, <1>4, <1>5

----------------------------------------------------------------------------
(* What a step does to a sound market *)

LEMMA MarketTypes ==
  ASSUME NEW m, DP!Sound(m)
  PROVE  /\ m \in D!Markets
         /\ m.trades \in Nat /\ m.trades <= MaxTrades
         /\ m.withdrawn \in Nat /\ m.supply \in Nat /\ m.balance \in [Users -> Nat]
<1>1. m \in D!Markets
  BY SameMarkets DEF DP!Sound
<1>2. m.trades \in 0 .. MaxTrades /\ m.withdrawn \in Nat /\ m.supply \in Nat
      /\ m.balance \in [Users -> Nat]
  BY <1>1 DEF D!Markets
<1> QED
  BY <1>1, <1>2, TradesBounded

LEMMA MarketBuys ==
  ASSUME NEW m, DP!Sound(m), NEW u \in Users, NEW b \in Nat, m.trades < MaxTrades,
         D!CanBuy(m, b)
  PROVE  /\ DP!Sound(D!Bought(m, u, D!TokensFor(m, b)))
         /\ D!Bought(m, u, D!TokensFor(m, b)).trades = m.trades + 1
         /\ D!Bought(m, u, D!TokensFor(m, b)).withdrawn = m.withdrawn
<1>1. m.status # "paused"
  BY DEF D!CanBuy
<1>2. /\ DP!Sound(DP!Bought(m, u, DP!TokensFor(m, b)))
      /\ DP!Counted(m, DP!Bought(m, u, DP!TokensFor(m, b)))
  BY <1>1, DP!BuySound, DeskAssumptionHolds
<1>3. DP!Bought(m, u, DP!TokensFor(m, b)) = D!Bought(m, u, D!TokensFor(m, b))
  BY SamePrices, SameMarkets
<1> QED
  BY <1>2, <1>3 DEF DP!Counted

LEMMA MarketSells ==
  ASSUME NEW m, DP!Sound(m), NEW u \in Users, NEW n \in Nat, m.trades < MaxTrades,
         D!CanSell(m, u, n)
  PROVE  /\ n \in 1 .. m.supply /\ D!Refund(m, n) <= m.reserve
         /\ DP!Sound(D!Sold(m, u, n))
         /\ D!Sold(m, u, n).trades = m.trades + 1
         /\ D!Sold(m, u, n).withdrawn = m.withdrawn
<1>1. m.status # "paused" /\ n > 0 /\ n <= m.balance[u] /\ m.balance[u] \in Nat /\ m.supply \in Nat
  BY MarketTypes DEF D!CanSell
<1>2. m.balance[u] <= m.supply
  BY DP!HoldingInSupply, DeskAssumptionHolds
<1>3. n <= m.supply
  BY <1>1, <1>2
<1>4. DP!Refund(m, n) <= m.reserve
  BY <1>3, DP!SaleCovered, DeskAssumptionHolds
<1>5. DP!Sound(DP!Sold(m, u, n)) /\ DP!Counted(m, DP!Sold(m, u, n))
  BY <1>1, <1>4, DP!SellSound, DeskAssumptionHolds
<1>6. DP!Sold(m, u, n) = D!Sold(m, u, n) /\ DP!Refund(m, n) = D!Refund(m, n)
  BY SamePrices, SameMarkets
<1> QED
  BY <1>1, <1>3, <1>4, <1>5, <1>6 DEF DP!Counted

LEMMA MarketWithdraws ==
  ASSUME NEW m, DP!Sound(m), NEW u \in Users, NEW n \in Nat \ {0}, n <= m.balance[u]
  PROVE  /\ n \in 1 .. m.supply
         /\ DP!Sound(D!Withdrawn(m, u, n))
         /\ D!Withdrawn(m, u, n).trades = m.trades
         /\ D!Withdrawn(m, u, n).withdrawn = m.withdrawn + n
<1>1. m.balance[u] <= m.supply /\ m.balance[u] \in Nat /\ m.supply \in Nat
  BY MarketTypes, DP!HoldingInSupply, DeskAssumptionHolds
<1>2. /\ DP!Sound(DP!Withdrawn(m, u, n))
      /\ DP!Withdrawn(m, u, n).trades = m.trades
      /\ DP!Withdrawn(m, u, n).withdrawn = m.withdrawn + n
  BY DP!WithdrawSound, DeskAssumptionHolds
<1>3. DP!Withdrawn(m, u, n) = D!Withdrawn(m, u, n)
  BY SameMarkets
<1> QED
  BY <1>1, <1>2, <1>3

LEMMA MarketPauses ==
  ASSUME NEW m, DP!Sound(m), m.status # "migrated", NEW st \in {"trading", "paused"},
         NEW a, a = [m EXCEPT !.status = st]
  PROVE  DP!Sound(a) /\ a.trades = m.trades /\ a.withdrawn = m.withdrawn
BY DP!PauseSound, DeskAssumptionHolds

LEMMA MarketOpens ==
  ASSUME D!Init
  PROVE  DP!Sound(market) /\ market.trades <= 1 /\ market.withdrawn = 0
<1>1. PICK c \in Curves, bp \in FeeRates, seed \in Seeds, creator \in Users :
        \/ market = D!Opened(c, bp)
        \/ /\ D!CanBuy(D!Opened(c, bp), seed)
           /\ market = D!Bought(D!Opened(c, bp), creator, D!TokensFor(D!Opened(c, bp), seed))
  BY DEF D!Init, D!Create
<1> DEFINE a == D!Opened(c, bp)
<1>2. DP!Sound(a) /\ a.trades = 0 /\ a.withdrawn = 0
  <2>1. /\ DP!Sound(DP!Opened(c, bp))
        /\ DP!Opened(c, bp).trades = 0 /\ DP!Opened(c, bp).withdrawn = 0
    BY DP!OpenSound, DeskAssumptionHolds
  <2> QED
    BY <2>1, SameMarkets
<1> HIDE DEF a
<1>3. seed \in Nat /\ a.trades < MaxTrades
  BY <1>2, MarketAssumption, TradesBounded
<1>4. CASE market = a
  BY <1>2, <1>4
<1>5. CASE D!CanBuy(a, seed) /\ market = D!Bought(a, creator, D!TokensFor(a, seed))
  BY <1>2, <1>3, <1>5, MarketBuys
<1> QED
  BY <1>1, <1>4, <1>5 DEF a

LEMMA QuotePriced ==
  ASSUME NEW m, DP!Sound(m), NEW b \in Nat
  PROVE  D!TotalPrice(m, D!TokensFor(m, b)) \in 0 .. b
<1> DEFINE n == DP!TokensFor(m, b)
<1>1. m \in DP!Markets /\ DP!Capped(m)
  BY DEF DP!Sound
<1>2. DP!TotalPrice(m, n) \in Nat /\ DP!TotalPrice(m, n) <= b
  BY <1>1, DP!Purchase, DeskAssumptionHolds
<1>3. DP!TotalPrice(m, n) = D!TotalPrice(m, D!TokensFor(m, b))
  BY SamePrices DEF DP!TotalPrice, D!TotalPrice
<1> QED
  BY <1>2, <1>3

----------------------------------------------------------------------------
(* The inductive invariant *)

\* TypeOK without the market and its copy on disk
TypeInv ==
  /\ orders \in [Quotes -> Orders]
  /\ seen \subseteq sent /\ sent \subseteq Messages /\ good \subseteq sent
  /\ task \in Tasks
  /\ withdrawal \in
       [Withdrawals -> {"idle", "sending", "sent", "failed", "done", "uncovered", "lost"}]
  /\ invoicePaid \subseteq Quotes /\ payouts \subseteq Sales
  /\ credits \in [Quotes -> Nat] /\ debits \in [Sales -> Nat] /\ stops \in 0 .. MaxStops

\* The market is one that trading reaches.  Commands trade up to their bound, and
\* every other trade is a credit or a debit.
MarketInv ==
  /\ DP!Sound(market)
  /\ market.trades <= MaxLocalTrades + Total(credits, Quotes) + Total(debits, Sales)
  /\ WithdrawnLeft

\* Every trade and every order is saved in the step that makes it.
DiskInv == disk = [market |-> market, orders |-> orders]

\* An order that awaits payment was credited in earlier sessions only, unless the
\* listener is about to mark it.
OrderSound(q) ==
  /\ orders[q].total <= BudgetOf[q]
  /\ credits[q] <= 1 + stops
  /\ credits[q] > 0 => q \in invoicePaid
  /\ orders[q].status = "none" => credits[q] = 0 /\ orders[q] = NoOrder
  /\ orders[q].status = "awaiting" /\ task # [does |-> "mark", order |-> q]
       => credits[q] <= stops
  /\ orders[q].status = "filled" => credits[q] > 0
  /\ q \in invoicePaid => orders[q].status # "none"

OrderInv == \A q \in Quotes : OrderSound(q)

\* Only the payment reveals the preimage.
ProofInv == \A p \in good \cap Proofs : OrderOf[p] \in invoicePaid

\* What the listener is in the middle of is still as it was checked.
TaskInv ==
  /\ task.does = "invoice" =>
       orders[task.order].status = "none" /\ task.total <= BudgetOf[task.order]
  /\ task.does = "mark" => credits[task.order] > 0 /\ orders[task.order].status = "awaiting"
  /\ task.does = "debit" => task.sale \in payouts /\ debits[task.sale] = 0

SaleInv == DebitedIsPaid

Tracked == TypeInv /\ OrderInv /\ ProofInv /\ TaskInv /\ SaleInv

IInv == Tracked /\ MarketInv /\ DiskInv

----------------------------------------------------------------------------
(* Steps that trade *)

\* What WithdrawnLeft counts
Left(state) == [w \in Withdrawals |-> IF state[w] = "done" THEN AmountOf[w] ELSE 0]

\* Orders credited at most once per session and sales debited at most once leave
\* room below the bound on trades.
LEMMA RoomToTrade ==
  ASSUME NEW c \in [Quotes -> Nat], NEW d \in [Sales -> Nat],
         \A q \in Quotes : c[q] <= 1 + MaxStops, \A s \in Sales : d[s] <= 1
  PROVE  /\ Total(c, Quotes) \in Nat /\ Total(d, Sales) \in Nat
         /\ MaxLocalTrades + Total(c, Quotes) + Total(d, Sales) <= MaxTrades
<1>1. 1 + MaxStops \in Nat /\ 1 \in Nat /\ MaxLocalTrades \in Nat
  BY ListenerAssumption
<1>2. Column(c, Quotes) /\ Column(d, Sales)
  BY ListenerAssumption DEF Column
<1>3. Total(c, Quotes) \in Nat /\ Total(d, Sales) \in Nat
  BY <1>2, TotalNat
<1>4. Total(c, Quotes) <= Cardinality(Quotes) * (1 + MaxStops)
      /\ Cardinality(Quotes) * (1 + MaxStops) \in Nat
  BY <1>1, ListenerAssumption, TotalBound
<1>5. Total(d, Sales) <= Cardinality(Sales) * 1
  BY <1>1, ListenerAssumption, TotalBound
<1> QED
  BY <1>1, <1>3, <1>4, <1>5, TradesBounded DEF MaxTrades

LEMMA CreditsBounded ==
  ASSUME Tracked'
  PROVE  /\ Total(credits', Quotes) \in Nat /\ Total(debits', Sales) \in Nat
         /\ MaxLocalTrades + Total(credits', Quotes) + Total(debits', Sales) <= MaxTrades
<1>1. credits' \in [Quotes -> Nat] /\ debits' \in [Sales -> Nat] /\ stops' \in 0 .. MaxStops
  BY DEF Tracked, TypeInv
<1>2. \A q \in Quotes : credits'[q] <= 1 + stops'
  BY DEF Tracked, OrderInv, OrderSound
<1>3. \A q \in Quotes : credits'[q] <= 1 + MaxStops
  <2> TAKE q \in Quotes
  <2>1. credits'[q] \in Nat /\ credits'[q] <= 1 + stops'
    BY <1>1, <1>2
  <2> QED
    BY <1>1, <2>1, ListenerAssumption
<1>4. \A s \in Sales : debits'[s] <= 1
  BY DEF Tracked, SaleInv, DebitedIsPaid
<1> QED
  BY <1>1, <1>3, <1>4, RoomToTrade

LEMMA SameMarket ==
  ASSUME IInv, UNCHANGED <<market, credits, debits>>,
         \A w \in Withdrawals : withdrawal'[w] = "done" <=> withdrawal[w] = "done"
  PROVE  MarketInv'
<1>1. Left(withdrawal') = Left(withdrawal)
  BY DEF Left
<1> QED
  BY <1>1 DEF IInv, MarketInv, WithdrawnLeft, Left

\* A trade on a sound market below the bound, seen from the listener
LEMMA CreditStep ==
  ASSUME IInv, Tracked', NEW p \in Proofs, HandleProof(p)
  PROVE  MarketInv' /\ \E u \in Users : \E b \in UNION {0 .. x : x \in Budgets} : D!Buy(u, b)
<1> DEFINE q == OrderOf[p]
           b == orders[q].total
           a == D!Bought(market, Sender[q], D!TokensFor(market, b))
<1>1. q \in Quotes /\ Sender[q] \in Users /\ BudgetOf[q] \in Budgets /\ BudgetOf[q] \in Nat
  <2>1. q \in Quotes
    BY ListenerAssumption
  <2>2. Sender[q] \in Users
    BY <2>1, ListenerAssumption DEF Messages
  <2>3. BudgetOf[q] \in Budgets
    BY <2>1, ListenerAssumption
  <2> QED
    BY <2>1, <2>2, <2>3, MarketAssumption
<1>2. b \in Nat /\ b <= BudgetOf[q]
  BY <1>1 DEF IInv, Tracked, TypeInv, OrderInv, OrderSound, Orders
<1>3. /\ D!CanBuy(market, b) /\ market' = a
      /\ credits' = Plus(credits, q, 1) /\ UNCHANGED <<debits, withdrawal>>
  BY DEF HandleProof, Trade, ListenerOnly, Plus
<1>4. /\ Total(credits', Quotes) = Total(credits, Quotes) + 1
      /\ credits \in [Quotes -> Nat]
  <2>1. credits \in [Quotes -> Nat] /\ IsFiniteSet(Quotes) /\ 1 \in Nat
    BY ListenerAssumption DEF IInv, Tracked, TypeInv
  <2> HIDE DEF q
  <2>2. Total(Plus(credits, q, 1), Quotes) = Total(credits, Quotes) + 1
    BY <1>1, <2>1, TotalPlus
  <2> QED
    BY <1>3, <2>1, <2>2
<1>5. /\ Total(credits', Quotes) \in Nat /\ Total(debits, Sales) \in Nat
      /\ MaxLocalTrades + Total(credits', Quotes) + Total(debits, Sales) <= MaxTrades
  BY <1>3, CreditsBounded
<1>6. Total(credits, Quotes) \in Nat /\ MaxLocalTrades \in Nat
  BY <1>4, ListenerAssumption, TotalNat DEF Column
<1>7. DP!Sound(market) /\ market.trades \in Nat /\ market.trades < MaxTrades
  <2>1. DP!Sound(market)
        /\ market.trades <= MaxLocalTrades + Total(credits, Quotes) + Total(debits, Sales)
    BY DEF IInv, MarketInv
  <2> QED
    BY <1>4, <1>5, <1>6, <2>1, MarketTypes, TradesBounded
<1>8. DP!Sound(a) /\ a.trades = market.trades + 1 /\ a.withdrawn = market.withdrawn
  BY <1>1, <1>2, <1>3, <1>7, MarketBuys
<1> HIDE DEF b, q, a
<1>9. market'.trades <= MaxLocalTrades + Total(credits', Quotes) + Total(debits', Sales)
  BY <1>3, <1>4, <1>5, <1>6, <1>7, <1>8 DEF IInv, MarketInv
<1>10. WithdrawnLeft'
  BY <1>3, <1>8 DEF IInv, MarketInv, WithdrawnLeft
<1>11. MarketInv'
  BY <1>3, <1>8, <1>9, <1>10 DEF MarketInv
<1>12. D!Buy(Sender[q], b) /\ b \in 0 .. BudgetOf[q]
  BY <1>1, <1>2, <1>3, <1>7 DEF D!Buy, a
<1> QED
  BY <1>1, <1>11, <1>12

LEMMA DebitStep ==
  ASSUME IInv, Tracked', DebitSale
  PROVE  /\ MarketInv'
         /\ \/ UNCHANGED market
            \/ \E u \in Users : \E n \in 1 .. market.supply : D!Sell(u, n)
<1> DEFINE s == task.sale
           u == Sender[s]
           n == AmountOf[s]
           a == D!Sold(market, u, n)
<1>1. s \in Sales /\ u \in Users /\ n \in Nat
  <2>1. s \in Sales
    BY DEF IInv, Tracked, TypeInv, Tasks, Idle, DebitSale
  <2> QED
    BY <2>1, ListenerAssumption DEF Messages
<1>2. UNCHANGED <<credits, withdrawal>>
  BY DEF DebitSale, ListenerOnly
<1>3. CASE UNCHANGED <<market, debits>>
  BY <1>2, <1>3, SameMarket
<1>4. CASE D!CanSell(market, u, n) /\ market' = a /\ debits' = Plus(debits, s, 1)
  <2>1. Total(debits', Sales) = Total(debits, Sales) + 1 /\ debits \in [Sales -> Nat]
    <3>1. debits \in [Sales -> Nat] /\ IsFiniteSet(Sales) /\ 1 \in Nat
      BY ListenerAssumption DEF IInv, Tracked, TypeInv
    <3>2. debits' = Plus(debits, s, 1)
      BY <1>4
    <3>3. s \in Sales
      BY <1>1
    <3> HIDE DEF s, u, n, a
    <3>4. Total(Plus(debits, s, 1), Sales) = Total(debits, Sales) + 1
      BY <3>1, <3>3, TotalPlus
    <3> QED
      BY <3>1, <3>2, <3>4
  <2>2. /\ Total(debits', Sales) \in Nat /\ Total(credits, Quotes) \in Nat
        /\ MaxLocalTrades + Total(credits, Quotes) + Total(debits', Sales) <= MaxTrades
    BY <1>2, CreditsBounded
  <2>3. Total(debits, Sales) \in Nat /\ MaxLocalTrades \in Nat
    BY <2>1, ListenerAssumption, TotalNat DEF Column
  <2>4. DP!Sound(market) /\ market.trades \in Nat /\ market.trades < MaxTrades
    <3>1. DP!Sound(market)
          /\ market.trades <= MaxLocalTrades + Total(credits, Quotes) + Total(debits, Sales)
      BY DEF IInv, MarketInv
    <3> QED
      BY <2>1, <2>2, <2>3, <3>1, MarketTypes, TradesBounded
  <2>5. /\ n \in 1 .. market.supply /\ D!Refund(market, n) <= market.reserve
        /\ DP!Sound(a) /\ a.trades = market.trades + 1 /\ a.withdrawn = market.withdrawn
    BY <1>1, <1>4, <2>4, MarketSells
  <2> HIDE DEF s, u, n, a
  <2>6. market'.trades <= MaxLocalTrades + Total(credits', Quotes) + Total(debits', Sales)
    BY <1>2, <1>4, <2>1, <2>2, <2>3, <2>4, <2>5 DEF IInv, MarketInv
  <2>7. WithdrawnLeft'
    BY <1>2, <1>4, <2>5 DEF IInv, MarketInv, WithdrawnLeft
  <2>8. MarketInv'
    BY <1>4, <2>5, <2>6, <2>7 DEF MarketInv
  <2>9. D!Sell(u, n)
    BY <1>4, <2>4, <2>5 DEF D!Sell, a
  <2> QED
    BY <1>1, <2>5, <2>8, <2>9
<1> QED
  BY <1>3, <1>4 DEF DebitSale, Trade, Plus, memory

LEMMA LocalStep ==
  ASSUME IInv, Tracked', LocalTrade
  PROVE  /\ MarketInv'
         /\ \E u \in Users : \/ \E b \in UNION {0 .. x : x \in Budgets} : D!Buy(u, b)
                           \/ \E n \in 1 .. market.supply : D!Sell(u, n)
<1>1. /\ UNCHANGED <<credits, debits, withdrawal>> /\ market.trades < MaxLocalTrades
  BY DEF LocalTrade, CommandOnly, history
<1>2. /\ DP!Sound(market) /\ market.trades \in Nat /\ market.supply \in Nat
      /\ market.balance \in [Users -> Nat]
  BY MarketTypes DEF IInv, MarketInv
<1>3. /\ Total(credits', Quotes) \in Nat /\ Total(debits', Sales) \in Nat
      /\ MaxLocalTrades + Total(credits', Quotes) + Total(debits', Sales) <= MaxTrades
      /\ MaxLocalTrades \in Nat
  BY CreditsBounded, ListenerAssumption
<1>4. market.trades < MaxTrades
  BY <1>1, <1>2, <1>3, TradesBounded
<1>5. ASSUME DP!Sound(market'), market'.trades = market.trades + 1,
             market'.withdrawn = market.withdrawn
      PROVE  MarketInv'
  <2>1. market'.trades <= MaxLocalTrades + Total(credits', Quotes) + Total(debits', Sales)
    BY <1>1, <1>2, <1>3, <1>5
  <2>2. WithdrawnLeft'
    BY <1>1, <1>5 DEF IInv, MarketInv, WithdrawnLeft
  <2> QED
    BY <1>5, <2>1, <2>2 DEF MarketInv
<1>6. PICK u \in Locals :
        \/ \E budget \in Budgets : D!Buy(u, budget)
        \/ \E n \in 1 .. market.balance[u] : D!Sell(u, n)
  BY DEF LocalTrade
<1>7. u \in Users
  BY ListenerAssumption
<1>8. CASE \E budget \in Budgets : D!Buy(u, budget)
  <2>1. PICK b \in Budgets : D!Buy(u, b)
    BY <1>8
  <2>2. b \in Nat /\ b \in UNION {0 .. x : x \in Budgets}
    BY MarketAssumption
  <2>3. D!CanBuy(market, b) /\ market' = D!Bought(market, u, D!TokensFor(market, b))
    BY <2>1 DEF D!Buy
  <2>4. MarketInv'
    BY <1>2, <1>4, <1>5, <1>7, <2>2, <2>3, MarketBuys
  <2> QED
    BY <1>7, <2>1, <2>2, <2>4
<1>9. CASE \E n \in 1 .. market.balance[u] : D!Sell(u, n)
  <2>1. PICK n \in 1 .. market.balance[u] : D!Sell(u, n)
    BY <1>9
  <2>2. n \in Nat
    BY <1>2, <1>7
  <2>3. D!CanSell(market, u, n) /\ market' = D!Sold(market, u, n)
    BY <2>1 DEF D!Sell
  <2>4. n \in 1 .. market.supply /\ MarketInv'
    BY <1>2, <1>4, <1>5, <1>7, <2>2, <2>3, MarketSells
  <2> QED
    BY <1>7, <2>1, <2>4
<1> QED
  BY <1>6, <1>8, <1>9

LEMMA PauseStep ==
  ASSUME IInv, SetPaused
  PROVE  MarketInv' /\ \E paused \in BOOLEAN : D!SetPaused(paused)
<1>1. UNCHANGED <<credits, debits, withdrawal>>
  BY DEF SetPaused, CommandOnly, history
<1>2. PICK paused \in BOOLEAN : D!SetPaused(paused)
  BY DEF SetPaused
<1>3. PICK st \in {"trading", "paused"} :
        market.status # "migrated" /\ market' = [market EXCEPT !.status = st]
  BY <1>2 DEF D!SetPaused
<1>4. /\ DP!Sound(market') /\ market'.trades = market.trades
      /\ market'.withdrawn = market.withdrawn
  BY <1>3, MarketPauses DEF IInv, MarketInv
<1>5. MarketInv'
  BY <1>1, <1>4 DEF IInv, MarketInv, WithdrawnLeft
<1> QED
  BY <1>2, <1>5

LEMMA WithdrawStep ==
  ASSUME IInv, NEW w \in Withdrawals, WithdrawDebit(w)
  PROVE  MarketInv' /\ \E u \in Users : \E n \in 1 .. market.supply : D!Withdraw(u, n)
<1> DEFINE u == Sender[w]
           n == AmountOf[w]
           a == D!Withdrawn(market, u, n)
<1>1. u \in Users /\ n \in Nat \ {0} /\ \A x \in Withdrawals : AmountOf[x] \in Nat
  BY ListenerAssumption
<1>2. /\ UNCHANGED <<credits, debits>> /\ D!Withdraw(u, n)
      /\ withdrawal[w] = "sent" /\ withdrawal' = [withdrawal EXCEPT ![w] = "done"]
  BY DEF WithdrawDebit, CommandOnly, GotoW, history
<1>3. n <= market.balance[u] /\ market' = a
  <2>1. market.balance[u] \in Nat
    BY <1>1, MarketTypes DEF IInv, MarketInv
  <2> QED
    BY <1>1, <1>2, <2>1 DEF D!Withdraw
<1>4. /\ n \in 1 .. market.supply /\ DP!Sound(a) /\ a.trades = market.trades
      /\ a.withdrawn = market.withdrawn + n
  BY <1>1, <1>3, MarketWithdraws DEF IInv, MarketInv
<1>5. Left(withdrawal') = Plus(Left(withdrawal), w, n)
  <2>1. withdrawal \in [Withdrawals ->
          {"idle", "sending", "sent", "failed", "done", "uncovered", "lost"}]
    BY DEF IInv, Tracked, TypeInv
  <2>2. n = 0 + n
    BY <1>1
  <2> QED
    BY <1>2, <2>1, <2>2 DEF Left, Plus
<1>6. Total(Left(withdrawal'), Withdrawals) = Total(Left(withdrawal), Withdrawals) + n
  <2>1. Left(withdrawal) \in [Withdrawals -> Nat] /\ IsFiniteSet(Withdrawals) /\ n \in Nat
    BY <1>1, ListenerAssumption DEF Left
  <2> QED
    BY <1>5, <2>1, TotalPlus
<1> HIDE DEF u, n, a
<1>7. WithdrawnLeft'
  BY <1>3, <1>4, <1>6 DEF IInv, MarketInv, WithdrawnLeft, Left
<1>8. MarketInv'
  BY <1>2, <1>3, <1>4, <1>7 DEF IInv, MarketInv
<1> QED
  BY <1>1, <1>2, <1>4, <1>8

----------------------------------------------------------------------------
(* Steps of the listener, its traders and its restarts *)

\* What the steps below read off the task and off an order
LEMMA TaskFields ==
  ASSUME TypeInv
  PROVE  /\ task.does = "invoice" => task.order \in Quotes /\ task.total \in Nat
         /\ task.does = "mark" =>
              task.order \in Quotes /\ task = [does |-> "mark", order |-> task.order]
         /\ task.does \in {"payout", "debit"} =>
              task.sale \in Sales /\ task = [does |-> task.does, sale |-> task.sale]
BY DEF TypeInv, Tasks, Idle

LEMMA IdleTask ==
  /\ Idle \in Tasks /\ Idle.does = "idle"
  /\ \A q : Idle # [does |-> "mark", order |-> q]
BY DEF Idle, Tasks

\* A step that only ends a task other than marking, or that only pays for a sale
LEMMA Ends ==
  ASSUME Tracked, task.does # "mark", task' = Idle, payouts \subseteq payouts',
         UNCHANGED <<orders, good, invoicePaid, credits, debits, stops>>
  PROVE  OrderInv' /\ ProofInv' /\ TaskInv' /\ SaleInv'
<1>1. OrderInv'
  BY DEF Tracked, OrderInv, OrderSound
<1>2. ProofInv'
  BY DEF Tracked, ProofInv
<1>3. TaskInv'
  BY IdleTask DEF TaskInv
<1>4. SaleInv'
  BY DEF Tracked, SaleInv, DebitedIsPaid
<1> QED
  BY <1>1, <1>2, <1>3, <1>4

LEMMA RemoteTracked ==
  ASSUME IInv, Remote
  PROVE  Tracked'
<1>1. ASSUME NEW x \in Messages, Send(x)
      PROVE  Tracked'
  <2>1. /\ UNCHANGED <<orders, seen, task, withdrawal, invoicePaid, payouts, credits, debits, stops>>
        /\ sent' = sent \cup {x}
        /\ good' = good \cup {p \in {x} \cap Proofs : OrderOf[p] \in invoicePaid}
    BY <1>1 DEF Send, memory, history
  <2>2. TypeInv'
    BY <2>1 DEF IInv, Tracked, TypeInv
  <2>3. OrderInv' /\ TaskInv' /\ SaleInv'
    BY <2>1 DEF IInv, Tracked, OrderInv, OrderSound, TaskInv, SaleInv, DebitedIsPaid
  <2>4. ProofInv'
    BY <2>1 DEF IInv, Tracked, ProofInv
  <2> QED
    BY <2>2, <2>3, <2>4 DEF Tracked
<1>2. ASSUME NEW q \in Quotes, Pay(q)
      PROVE  Tracked'
  <2>1. /\ UNCHANGED <<orders, seen, task, withdrawal, sent, good, payouts, credits, debits, stops>>
        /\ invoicePaid' = invoicePaid \cup {q}
    BY <1>2 DEF Pay, memory, history
  <2>2. TypeInv'
    BY <2>1 DEF IInv, Tracked, TypeInv
  <2>3. TaskInv' /\ SaleInv'
    BY <2>1 DEF IInv, Tracked, TaskInv, SaleInv, DebitedIsPaid
  <2>4. orders[q] # NoOrder
    BY <1>2 DEF IInv, DiskInv, Pay
  <2>5. OrderInv'
    BY <2>1, <2>4 DEF IInv, Tracked, OrderInv, OrderSound
  <2>6. ProofInv'
    BY <2>1 DEF IInv, Tracked, ProofInv
  <2> QED
    BY <2>2, <2>3, <2>5, <2>6 DEF Tracked
<1> QED
  BY <1>1, <1>2 DEF Remote

LEMMA QuoteTracked ==
  ASSUME IInv, NEW q \in Quotes, HandleQuote(q)
  PROVE  Tracked'
<1> DEFINE price == D!TotalPrice(market, D!TokensFor(market, BudgetOf[q]))
<1>1. /\ UNCHANGED <<orders, withdrawal, sent, good, invoicePaid, payouts, credits, debits, stops>>
      /\ task = Idle /\ seen' = seen \cup {q} /\ q \in sent
      /\ \/ task' = Idle
         \/ orders[q] = NoOrder /\ task' = [does |-> "invoice", order |-> q, total |-> price]
  BY DEF HandleQuote, Take, ListenerOnly, memory, history, world
<1>2. price \in Nat /\ price <= BudgetOf[q]
  <2>1. BudgetOf[q] \in Nat /\ DP!Sound(market)
    BY ListenerAssumption, MarketAssumption DEF IInv, MarketInv
  <2> QED
    BY <2>1, QuotePriced
<1> HIDE DEF price
<1>3. task' \in Tasks
  BY <1>1, <1>2, IdleTask DEF Tasks
<1>4. TypeInv'
  BY <1>1, <1>3 DEF IInv, Tracked, TypeInv
<1>5. task.does # "mark"
  BY <1>1, IdleTask
<1>6. CASE task' = Idle
  BY <1>1, <1>4, <1>5, <1>6, Ends DEF IInv, Tracked
<1>7. CASE orders[q] = NoOrder /\ task' = [does |-> "invoice", order |-> q, total |-> price]
  <2>1. TaskInv'
    BY <1>1, <1>2, <1>7 DEF TaskInv, NoOrder
  <2>2. OrderInv'
    BY <1>1, <1>7, IdleTask DEF IInv, Tracked, OrderInv, OrderSound
  <2>3. ProofInv' /\ SaleInv'
    BY <1>1 DEF IInv, Tracked, ProofInv, SaleInv, DebitedIsPaid
  <2> QED
    BY <1>4, <2>1, <2>2, <2>3 DEF Tracked
<1> QED
  BY <1>1, <1>6, <1>7

LEMMA CreatedTracked ==
  ASSUME IInv, InvoiceCreated
  PROVE  Tracked'
<1> DEFINE o == task.order
           order == [status |-> "awaiting", total |-> task.total]
<1>1. /\ UNCHANGED <<seen, withdrawal, sent, good, invoicePaid, payouts, credits, debits, stops>>
      /\ task.does = "invoice" /\ task' = Idle
      /\ orders' = [orders EXCEPT ![o] = order]
  BY DEF InvoiceCreated, ListenerOnly, history, world
<1>2. o \in Quotes /\ task.total \in Nat /\ order \in Orders
      /\ task.total <= BudgetOf[o] /\ orders[o].status = "none"
  BY <1>1, TaskFields DEF IInv, Tracked, TaskInv, Orders
<1>3. TypeInv'
  BY <1>1, <1>2, IdleTask DEF IInv, Tracked, TypeInv
<1>4. OrderInv'
  <2> SUFFICES ASSUME NEW q \in Quotes
               PROVE  OrderSound(q)'
    BY DEF OrderInv
  <2>1. OrderSound(q) /\ stops \in Nat /\ credits[q] \in Nat
    BY DEF IInv, Tracked, OrderInv, TypeInv
  <2>2. CASE q = o
    <3>1. orders'[q] = order /\ credits[q] = 0
      BY <1>1, <1>2, <2>1, <2>2 DEF IInv, Tracked, TypeInv, OrderSound
    <3> QED
      BY <1>1, <1>2, <2>1, <2>2, <3>1 DEF OrderSound
  <2>3. CASE q # o
    <3>1. orders'[q] = orders[q] /\ task # [does |-> "mark", order |-> q]
      BY <1>1, <2>3 DEF IInv, Tracked, TypeInv
    <3> QED
      BY <1>1, <2>1, <3>1 DEF OrderSound
  <2> QED
    BY <2>2, <2>3
<1>5. ProofInv' /\ SaleInv'
  BY <1>1 DEF IInv, Tracked, ProofInv, SaleInv, DebitedIsPaid
<1>6. TaskInv'
  BY <1>1, IdleTask DEF TaskInv
<1> QED
  BY <1>3, <1>4, <1>5, <1>6 DEF Tracked

LEMMA ProofTracked ==
  ASSUME IInv, NEW p \in Proofs, HandleProof(p)
  PROVE  Tracked'
<1> DEFINE o == OrderOf[p]
<1>1. /\ UNCHANGED <<orders, withdrawal, sent, good, invoicePaid, payouts, debits, stops>>
      /\ task = Idle /\ seen' = seen \cup {p} /\ p \in sent
      /\ orders[o].status = "awaiting" /\ p \in good
      /\ credits' = [credits EXCEPT ![o] = @ + 1]
      /\ task' = [does |-> "mark", order |-> o]
  BY DEF HandleProof, Take, Payable, Trade, ListenerOnly, world
<1>2. o \in Quotes /\ o \in invoicePaid
  BY <1>1, ListenerAssumption DEF IInv, Tracked, ProofInv
<1>3. stops \in Nat /\ credits[o] \in Nat /\ credits'[o] = credits[o] + 1
  BY <1>1, <1>2 DEF IInv, Tracked, TypeInv
<1> HIDE DEF o
<1>4. TypeInv'
  <2>1. task' \in Tasks
    BY <1>1, <1>2 DEF Tasks
  <2>2. credits' \in [Quotes -> Nat]
    BY <1>1, <1>2 DEF IInv, Tracked, TypeInv
  <2> QED
    BY <1>1, <2>1, <2>2 DEF IInv, Tracked, TypeInv
<1>5. OrderInv'
  <2> SUFFICES ASSUME NEW q \in Quotes
               PROVE  OrderSound(q)'
    BY DEF OrderInv
  <2>1. OrderSound(q)
    BY DEF IInv, Tracked, OrderInv
  <2>2. CASE q = o
    BY <1>1, <1>2, <1>3, <2>1, <2>2, IdleTask DEF OrderSound
  <2>3. CASE q # o
    <3>1. credits'[q] = credits[q] /\ task # [does |-> "mark", order |-> q]
      BY <1>1, <2>3, IdleTask DEF IInv, Tracked, TypeInv
    <3> QED
      BY <1>1, <2>1, <3>1 DEF OrderSound
  <2> QED
    BY <2>2, <2>3
<1>6. TaskInv'
  BY <1>1, <1>3 DEF TaskInv
<1>7. ProofInv' /\ SaleInv'
  BY <1>1 DEF IInv, Tracked, ProofInv, SaleInv, DebitedIsPaid
<1> QED
  BY <1>4, <1>5, <1>6, <1>7 DEF Tracked

LEMMA RefuseTracked ==
  ASSUME IInv, NEW p \in Proofs, RefuseProof(p)
  PROVE  Tracked'
<1>1. /\ UNCHANGED <<orders, task, withdrawal, sent, good, invoicePaid, payouts, credits, debits, stops>>
      /\ seen' = seen \cup {p} /\ p \in sent
  BY DEF RefuseProof, Take, ListenerOnly, memory, history, world
<1>2. TypeInv'
  BY <1>1 DEF IInv, Tracked, TypeInv
<1>3. OrderInv' /\ TaskInv'
  BY <1>1 DEF IInv, Tracked, OrderInv, OrderSound, TaskInv
<1>4. ProofInv' /\ SaleInv'
  BY <1>1 DEF IInv, Tracked, ProofInv, SaleInv, DebitedIsPaid
<1> QED
  BY <1>2, <1>3, <1>4 DEF Tracked

LEMMA FilledTracked ==
  ASSUME IInv, MarkFilled
  PROVE  Tracked'
<1> DEFINE o == task.order
<1>1. /\ UNCHANGED <<seen, withdrawal, sent, good, invoicePaid, payouts, credits, debits, stops>>
      /\ task.does = "mark" /\ task' = Idle
      /\ orders' = [orders EXCEPT ![o].status = "filled"]
  BY DEF MarkFilled, ListenerOnly, history, world
<1>2. o \in Quotes /\ task = [does |-> "mark", order |-> o] /\ credits[o] > 0
  BY <1>1, TaskFields DEF IInv, Tracked, TaskInv
<1>3. orders'[o].status = "filled" /\ orders'[o].total = orders[o].total
  BY <1>1, <1>2 DEF IInv, Tracked, TypeInv, Orders
<1> HIDE DEF o
<1>4. TypeInv'
  <2>1. orders' \in [Quotes -> Orders]
    BY <1>1, <1>2 DEF IInv, Tracked, TypeInv, Orders
  <2> QED
    BY <1>1, <2>1, IdleTask DEF IInv, Tracked, TypeInv
<1>5. OrderInv'
  <2> SUFFICES ASSUME NEW q \in Quotes
               PROVE  OrderSound(q)'
    BY DEF OrderInv
  <2>1. OrderSound(q)
    BY DEF IInv, Tracked, OrderInv
  <2>2. CASE q = o
    BY <1>1, <1>2, <1>3, <2>1, <2>2 DEF OrderSound
  <2>3. CASE q # o
    <3>1. orders'[q] = orders[q] /\ task # [does |-> "mark", order |-> q]
      BY <1>1, <1>2, <2>3 DEF IInv, Tracked, TypeInv
    <3> QED
      BY <1>1, <2>1, <3>1 DEF OrderSound
  <2> QED
    BY <2>2, <2>3
<1>6. ProofInv' /\ SaleInv'
  BY <1>1 DEF IInv, Tracked, ProofInv, SaleInv, DebitedIsPaid
<1>7. TaskInv'
  BY <1>1, IdleTask DEF TaskInv
<1> QED
  BY <1>4, <1>5, <1>6, <1>7 DEF Tracked

\* The listener gives up, or answers without a change.
LEMMA GivesUpTracked ==
  ASSUME IInv, InvoiceRefused \/ PayoutFails
  PROVE  Tracked'
<1>1. /\ UNCHANGED <<orders, seen, withdrawal, sent, good, invoicePaid, payouts, credits, debits, stops>>
      /\ task.does \in {"invoice", "payout"} /\ task' = Idle
  BY DEF InvoiceRefused, PayoutFails, ListenerOnly, memory, history, world
<1>2. TypeInv'
  BY <1>1, IdleTask DEF IInv, Tracked, TypeInv
<1>3. task.does # "mark"
  BY <1>1
<1> QED
  BY <1>1, <1>2, <1>3, Ends DEF IInv, Tracked

LEMMA SaleTracked ==
  ASSUME IInv, NEW s \in Sales, HandleSale(s)
  PROVE  Tracked'
<1>1. /\ UNCHANGED <<orders, withdrawal, sent, good, invoicePaid, payouts, credits, debits, stops>>
      /\ task = Idle /\ seen' = seen \cup {s} /\ s \in sent
      /\ task' = Idle \/ task' = [does |-> "payout", sale |-> s]
  BY DEF HandleSale, Take, ListenerOnly, memory, history, world
<1>2. task' \in Tasks
  BY <1>1, IdleTask DEF Tasks
<1>3. TypeInv'
  BY <1>1, <1>2 DEF IInv, Tracked, TypeInv
<1>4. OrderInv'
  BY <1>1, IdleTask DEF IInv, Tracked, OrderInv, OrderSound
<1>5. ProofInv' /\ SaleInv'
  BY <1>1 DEF IInv, Tracked, ProofInv, SaleInv, DebitedIsPaid
<1>6. TaskInv'
  BY <1>1, IdleTask DEF TaskInv
<1> QED
  BY <1>3, <1>4, <1>5, <1>6 DEF Tracked

LEMMA PayoutTracked ==
  ASSUME IInv, PayoutSucceeds
  PROVE  Tracked'
<1> DEFINE s == task.sale
<1>1. /\ UNCHANGED <<orders, seen, withdrawal, sent, good, invoicePaid, credits, debits, stops>>
      /\ task.does = "payout" /\ s \notin payouts /\ payouts' = payouts \cup {s}
      /\ task' = [task EXCEPT !.does = "debit"]
  BY DEF PayoutSucceeds, ListenerOnly, memory, history, world
<1>2. s \in Sales /\ task = [does |-> "payout", sale |-> s]
  BY <1>1, TaskFields DEF IInv, Tracked
<1> HIDE DEF s
<1>3. task' = [does |-> "debit", sale |-> s]
  BY <1>1, <1>2
<1>4. debits[s] = 0
  <2>1. debits[s] \in Nat /\ debits[s] <= 1 /\ debits[s] # 1
    BY <1>1, <1>2 DEF IInv, Tracked, TypeInv, SaleInv, DebitedIsPaid
  <2> QED
    BY <2>1
<1>5. TypeInv'
  <2>1. task' \in Tasks
    BY <1>2, <1>3 DEF Tasks
  <2> QED
    BY <1>1, <1>2, <2>1 DEF IInv, Tracked, TypeInv
<1>6. OrderInv'
  BY <1>1, <1>2 DEF IInv, Tracked, OrderInv, OrderSound
<1>7. ProofInv' /\ SaleInv'
  BY <1>1 DEF IInv, Tracked, ProofInv, SaleInv, DebitedIsPaid
<1>8. TaskInv'
  BY <1>1, <1>3, <1>4 DEF TaskInv
<1> QED
  BY <1>5, <1>6, <1>7, <1>8 DEF Tracked

LEMMA DebitTracked ==
  ASSUME IInv, DebitSale
  PROVE  Tracked'
<1> DEFINE s == task.sale
<1>1. /\ UNCHANGED <<orders, seen, withdrawal, sent, good, invoicePaid, payouts, credits, stops>>
      /\ task.does = "debit" /\ task' = Idle
      /\ debits' = debits \/ debits' = [debits EXCEPT ![s] = @ + 1]
  BY DEF DebitSale, Trade, ListenerOnly, memory, world
<1>2. s \in Sales /\ s \in payouts /\ debits[s] = 0
  BY <1>1, TaskFields DEF IInv, Tracked, TaskInv
<1> HIDE DEF s
<1>3. TypeInv'
  <2>1. debits' \in [Sales -> Nat]
    BY <1>1, <1>2 DEF IInv, Tracked, TypeInv
  <2> QED
    BY <1>1, <2>1, IdleTask DEF IInv, Tracked, TypeInv
<1>4. OrderInv'
  <2>1. \A q : task # [does |-> "mark", order |-> q]
    BY <1>1
  <2> QED
    BY <1>1, <2>1 DEF IInv, Tracked, OrderInv, OrderSound
<1>5. ProofInv'
  BY <1>1 DEF IInv, Tracked, ProofInv
<1>6. SaleInv'
  BY <1>1, <1>2 DEF IInv, Tracked, TypeInv, SaleInv, DebitedIsPaid
<1>7. TaskInv'
  BY <1>1, IdleTask DEF TaskInv
<1> QED
  BY <1>3, <1>4, <1>5, <1>6, <1>7 DEF Tracked

LEMMA CommandTracked ==
  ASSUME IInv, Command
  PROVE  Tracked'
<1>1. UNCHANGED <<orders, seen, task, sent, good, invoicePaid, payouts, credits, debits, stops>>
  BY DEF Command, LocalTrade, SetPaused, WithdrawCheck, WithdrawSent, WithdrawFailed,
         WithdrawDebit, WithdrawUncovered, CommandOnly, history, world
<1>2. withdrawal' \in
        [Withdrawals -> {"idle", "sending", "sent", "failed", "done", "uncovered", "lost"}]
  BY DEF IInv, Tracked, TypeInv, Command, LocalTrade, SetPaused, WithdrawCheck, WithdrawSent,
         WithdrawFailed, WithdrawDebit, WithdrawUncovered, GotoW
<1>3. TypeInv'
  BY <1>1, <1>2 DEF IInv, Tracked, TypeInv
<1>4. OrderInv' /\ TaskInv'
  BY <1>1 DEF IInv, Tracked, OrderInv, OrderSound, TaskInv
<1>5. ProofInv' /\ SaleInv'
  BY <1>1 DEF IInv, Tracked, ProofInv, SaleInv, DebitedIsPaid
<1> QED
  BY <1>3, <1>4, <1>5 DEF Tracked

\* A restart begins a session: what awaited payment, or was about to be marked,
\* may be credited once more.
LEMMA RestartTracked ==
  ASSUME IInv, Relock \/ Crash
  PROVE  Tracked'
<1>1. /\ UNCHANGED <<sent, good, invoicePaid, credits, debits>>
      /\ stops < MaxStops /\ stops' = stops + 1 /\ task' = Idle /\ seen' = {}
      /\ \/ UNCHANGED payouts
         \/ task.does = "payout" /\ payouts' = payouts \cup {task.sale}
  BY DEF Relock, Crash, Stop, history, world
<1>2. UNCHANGED orders
  BY DEF IInv, DiskInv, Relock, Crash, memory
<1>3. payouts \subseteq payouts' /\ payouts' \subseteq Sales
  BY <1>1, TaskFields DEF IInv, Tracked, TypeInv
<1>4. stops \in Nat /\ stops' \in 0 .. MaxStops
  BY <1>1, ListenerAssumption DEF IInv, Tracked, TypeInv
<1>5. withdrawal' \in
        [Withdrawals -> {"idle", "sending", "sent", "failed", "done", "uncovered", "lost"}]
  BY DEF IInv, Tracked, TypeInv, Relock, Crash
<1>6. TypeInv'
  BY <1>1, <1>2, <1>3, <1>4, <1>5, IdleTask DEF IInv, Tracked, TypeInv
<1>7. OrderInv'
  <2> SUFFICES ASSUME NEW q \in Quotes
               PROVE  OrderSound(q)'
    BY DEF OrderInv
  <2>1. OrderSound(q) /\ credits[q] \in Nat
    BY DEF IInv, Tracked, OrderInv, TypeInv
  <2> QED
    BY <1>1, <1>2, <1>4, <2>1 DEF OrderSound
<1>8. TaskInv'
  BY <1>1, IdleTask DEF TaskInv
<1>9. ProofInv' /\ SaleInv'
  BY <1>1, <1>3 DEF IInv, Tracked, ProofInv, SaleInv, DebitedIsPaid
<1> QED
  BY <1>6, <1>7, <1>8, <1>9 DEF Tracked

----------------------------------------------------------------------------
(* The invariant holds, and the market makes steps of Desk *)

LEMMA StepTracked ==
  ASSUME IInv, [Next]_vars
  PROVE  Tracked'
<1>1. CASE Listener
  BY <1>1, QuoteTracked, ProofTracked, RefuseTracked, SaleTracked, CreatedTracked,
     GivesUpTracked, FilledTracked, PayoutTracked, DebitTracked DEF Listener
<1>2. CASE UNCHANGED vars
  <2>1. UNCHANGED <<orders, seen, task, withdrawal, sent, good, invoicePaid, payouts,
                    credits, debits, stops>>
    BY <1>2 DEF vars, memory, history, world
  <2>2. TypeInv' /\ OrderInv'
    BY <2>1 DEF IInv, Tracked, TypeInv, OrderInv, OrderSound
  <2>3. TaskInv' /\ ProofInv' /\ SaleInv'
    BY <2>1 DEF IInv, Tracked, TaskInv, ProofInv, SaleInv, DebitedIsPaid
  <2> QED
    BY <2>2, <2>3 DEF Tracked
<1> QED
  BY <1>1, <1>2, RemoteTracked, CommandTracked, RestartTracked DEF Next

\* What is on disk is what is in memory.
LEMMA StepDisk ==
  ASSUME IInv, [Next]_vars
  PROVE  DiskInv'
<1>1. disk = [market |-> market, orders |-> orders]
  BY DEF IInv, DiskInv
<1>2. CASE UNCHANGED <<market, orders, disk>>
  BY <1>1, <1>2 DEF DiskInv
<1>3. CASE SaveMarket /\ UNCHANGED orders
  BY <1>1, <1>3 DEF DiskInv, SaveMarket
<1>4. CASE SaveOrders /\ UNCHANGED market
  BY <1>1, <1>4 DEF DiskInv, SaveOrders
<1>5. CASE Crash
  BY <1>1, <1>5 DEF DiskInv, Crash, Stop
<1>6. CASE Remote
  BY <1>2, <1>6 DEF Remote, Send, Pay, memory
<1>7. CASE Listener
  BY <1>2, <1>3, <1>4, <1>7
  DEF Listener, HandleQuote, HandleProof, RefuseProof, HandleSale, InvoiceCreated,
      InvoiceRefused, MarkFilled, PayoutSucceeds, PayoutFails, DebitSale, Trade, memory
<1>8. CASE Command
  BY <1>2, <1>3, <1>8
  DEF Command, LocalTrade, SetPaused, WithdrawCheck, WithdrawSent, WithdrawFailed,
      WithdrawDebit, WithdrawUncovered, CommandOnly
<1>9. CASE Relock
  BY <1>2, <1>9 DEF Relock, Stop, memory
<1>10. CASE UNCHANGED vars
  BY <1>2, <1>10 DEF vars, memory
<1> QED
  BY <1>5, <1>6, <1>7, <1>8, <1>9, <1>10 DEF Next

LEMMA StepMarket ==
  ASSUME IInv, [Next]_vars
  PROVE  MarketInv' /\ [D!Next]_market
<1>1. Tracked'
  BY StepTracked
<1>2. ASSUME UNCHANGED <<market, credits, debits>>,
             \A w \in Withdrawals : withdrawal'[w] = "done" <=> withdrawal[w] = "done"
      PROVE  MarketInv' /\ [D!Next]_market
  BY <1>2, SameMarket
<1>3. CASE Remote
  BY <1>2, <1>3 DEF Remote, Send, Pay, memory, history
<1>4. CASE Listener
  <2>1. ASSUME NEW p \in Proofs, HandleProof(p)
        PROVE  MarketInv' /\ [D!Next]_market
    BY <1>1, <2>1, CreditStep DEF D!Next
  <2>2. CASE DebitSale
    BY <1>1, <2>2, DebitStep DEF D!Next
  <2>3. CASE \/ \E q \in Quotes : HandleQuote(q)
             \/ \E p \in Proofs : RefuseProof(p)
             \/ \E s \in Sales : HandleSale(s)
             \/ InvoiceCreated \/ InvoiceRefused \/ MarkFilled
             \/ PayoutSucceeds \/ PayoutFails
    BY <1>2, <2>3
    DEF HandleQuote, RefuseProof, HandleSale, InvoiceCreated, InvoiceRefused, MarkFilled,
        PayoutSucceeds, PayoutFails, ListenerOnly, memory, history
  <2> QED
    BY <1>4, <2>1, <2>2, <2>3 DEF Listener
<1>5. CASE Command
  <2>1. CASE LocalTrade
    BY <1>1, <2>1, LocalStep DEF D!Next
  <2>2. CASE SetPaused
    BY <2>2, PauseStep DEF D!Next
  <2>3. ASSUME NEW w \in Withdrawals, WithdrawDebit(w)
        PROVE  MarketInv' /\ [D!Next]_market
    BY <2>3, WithdrawStep DEF D!Next
  <2>4. ASSUME NEW w \in Withdrawals,
               WithdrawCheck(w) \/ WithdrawSent(w) \/ WithdrawFailed(w) \/ WithdrawUncovered(w)
        PROVE  MarketInv' /\ [D!Next]_market
    <3>1. UNCHANGED <<market, credits, debits>>
      BY <2>4 DEF WithdrawCheck, WithdrawSent, WithdrawFailed, WithdrawUncovered, CommandOnly,
                  history
    <3>2. \E from \in SUBSET {"idle", "sending", "sent"}, to \in {"sending", "sent", "failed", "uncovered"} :
            GotoW(w, from, to)
      BY <2>4 DEF WithdrawCheck, WithdrawSent, WithdrawFailed, WithdrawUncovered
    <3>3. \A x \in Withdrawals : withdrawal'[x] = "done" <=> withdrawal[x] = "done"
      BY <3>2 DEF GotoW, IInv, Tracked, TypeInv
    <3> QED
      BY <1>2, <3>1, <3>3
  <2> QED
    BY <1>5, <2>1, <2>2, <2>3, <2>4 DEF Command
<1>6. CASE Relock \/ Crash
  <2>1. UNCHANGED <<market, credits, debits>>
    BY <1>6 DEF IInv, DiskInv, Relock, Crash, Stop, memory, history
  <2>2. \A w \in Withdrawals : withdrawal'[w] = "done" <=> withdrawal[w] = "done"
    BY <1>6 DEF Relock, Crash
  <2> QED
    BY <1>2, <2>1, <2>2
<1>7. CASE UNCHANGED vars
  BY <1>2, <1>7 DEF vars, memory, history
<1> QED
  BY <1>3, <1>4, <1>5, <1>6, <1>7 DEF Next

LEMMA InitInv == Init => IInv
<1> SUFFICES ASSUME Init
             PROVE  IInv
  OBVIOUS
<1>1. Tracked
  <2>1. TypeInv
    BY ListenerAssumption, IdleTask DEF Init, TypeInv, Orders, NoOrder
  <2>2. OrderInv
    <3>1. \A q \in Quotes : BudgetOf[q] \in Nat
      BY ListenerAssumption, MarketAssumption
    <3> QED
      BY <3>1 DEF Init, OrderInv, OrderSound, NoOrder
  <2>3. ProofInv /\ SaleInv
    BY DEF Init, ProofInv, SaleInv, DebitedIsPaid
  <2>4. TaskInv
    BY IdleTask DEF Init, TaskInv
  <2> QED
    BY <2>1, <2>2, <2>3, <2>4 DEF Tracked
<1>2. MarketInv
  <2>1. DP!Sound(market) /\ market.trades <= 1 /\ market.withdrawn = 0
    BY MarketOpens DEF Init
  <2>2. credits \in [Quotes -> Nat] /\ debits \in [Sales -> Nat]
        /\ (\A q \in Quotes : credits[q] <= 1 + MaxStops) /\ (\A s \in Sales : debits[s] <= 1)
    BY ListenerAssumption DEF Init
  <2>3. Total(credits, Quotes) \in Nat /\ Total(debits, Sales) \in Nat
    BY <2>2, RoomToTrade
  <2>4. market.trades <= MaxLocalTrades + Total(credits, Quotes) + Total(debits, Sales)
    BY <2>1, <2>3, MarketTypes, ListenerAssumption
  <2>5. Total(Left(withdrawal), Withdrawals) = 0
    <3>1. \A w \in Withdrawals : Left(withdrawal)[w] = 0
      BY DEF Init, Left
    <3>2. \A w \in Withdrawals : UnitsOf(Left(withdrawal), w) = {}
      BY <3>1 DEF UnitsOf
    <3>3. Units(Left(withdrawal), Withdrawals) = {}
      BY <3>2 DEF Units
    <3> QED
      BY <3>3, FS_EmptySet DEF Total
  <2>6. WithdrawnLeft
    BY <2>1, <2>5 DEF WithdrawnLeft, Left
  <2> QED
    BY <2>1, <2>4, <2>6 DEF MarketInv
<1>3. DiskInv
  BY DEF Init, DiskInv
<1> QED
  BY <1>1, <1>2, <1>3 DEF IInv

LEMMA IInvHolds == Spec => []IInv
<1>1. IInv /\ [Next]_vars => IInv'
  BY StepTracked, StepMarket, StepDisk DEF IInv
<1> QED
  BY <1>1, InitInv, PTL DEF Spec

----------------------------------------------------------------------------
(* The theorems *)

\* Market, orders, their files and the listener's task keep the types of the code,
\* through any number of restarts.
THEOREM ListenerTypeCorrect == Spec => []TypeOK
<1>1. IInv => TypeOK
  <2> SUFFICES ASSUME IInv
               PROVE  TypeOK
    OBVIOUS
  <2>1. market \in D!Markets
    BY MarketTypes DEF IInv, MarketInv
  <2>2. disk \in [market : D!Markets, orders : [Quotes -> Orders]]
    BY <2>1 DEF IInv, DiskInv, Tracked, TypeInv
  <2> QED
    BY <2>1, <2>2 DEF IInv, Tracked, TypeInv, TypeOK, D!TypeOK
<1> QED
  BY <1>1, IInvHolds, PTL

\* However often a proof is delivered and the wallet restarted, only paid orders
\* are credited, at most once per session, and an order that is filled on disk has
\* its tokens (desk_listener.rs 270-306, settle.rs 99-101).
THEOREM CreditsHold == Spec => []CreditsArePaid
<1>1. IInv => CreditsArePaid
  BY DEF IInv, Tracked, OrderInv, OrderSound, DiskInv, CreditsArePaid
<1> QED
  BY <1>1, IInvHolds, PTL

\* A sale is debited once at most, and not before its seller has been paid
\* (desk_listener.rs 119-122).
THEOREM DebitsHold == Spec => []DebitedIsPaid
<1>1. IInv => DebitedIsPaid
  BY DEF IInv, Tracked, SaleInv
<1> QED
  BY <1>1, IInvHolds, PTL

\* What the ledger counts as withdrawn is what has left and was debited, crashes
\* between the two or not (market/commands.rs 324-328).
THEOREM WithdrawalsHold == Spec => []WithdrawnLeft
<1>1. IInv => WithdrawnLeft
  BY DEF IInv, MarketInv
<1> QED
  BY <1>1, IInvHolds, PTL

\* The orders change in three steps only, and none takes a paid order that is not
\* credited yet.
LEMMA StepOrders ==
  ASSUME IInv, [Next]_vars, NEW q \in Quotes, q \in invoicePaid
  PROVE  \/ orders'[q] = orders[q]
         \/ orders'[q] = [orders[q] EXCEPT !.status = "filled"] /\ credits[q] > 0
<1>1. orders[q].status # "none" /\ orders \in [Quotes -> Orders]
  BY DEF IInv, Tracked, TypeInv, OrderInv, OrderSound
<1>2. CASE InvoiceCreated
  <2>1. task.does = "invoice" /\ task.order # q
    BY <1>1, <1>2 DEF InvoiceCreated, IInv, Tracked, TaskInv
  <2> QED
    BY <1>1, <1>2, <2>1 DEF InvoiceCreated
<1>3. CASE MarkFilled
  <2>1. task.does = "mark" /\ orders' = [orders EXCEPT ![task.order].status = "filled"]
    BY <1>3 DEF MarkFilled
  <2>2. credits[task.order] > 0
    BY <2>1 DEF IInv, Tracked, TaskInv
  <2> QED
    BY <1>1, <2>1, <2>2
<1>4. CASE UNCHANGED orders
  BY <1>4
<1>5. CASE Relock \/ Crash
  BY <1>4, <1>5 DEF IInv, DiskInv, Relock, Crash, memory
<1>6. CASE Remote \/ Command \/ UNCHANGED vars
  BY <1>4, <1>6
  DEF Remote, Send, Pay, Command, LocalTrade, SetPaused, WithdrawCheck, WithdrawSent,
      WithdrawFailed, WithdrawDebit, WithdrawUncovered, CommandOnly, vars, memory
<1>7. CASE Listener
  BY <1>2, <1>3, <1>4, <1>7
  DEF Listener, HandleQuote, HandleProof, RefuseProof, HandleSale, InvoiceRefused,
      PayoutSucceeds, PayoutFails, DebitSale, Trade, memory
<1> QED
  BY <1>5, <1>6, <1>7 DEF Next

\* A paid order stands at its price, in memory and on disk, until it is credited,
\* whatever is delivered again, aborted or restarted (desk_listener.rs 84-95,
\* 202-205, 283-303).
THEOREM PaidOrdersStand == Spec => PaidOrderStands
<1>1. IInv /\ IInv' /\ [Next]_vars =>
        [\A q \in invoicePaid :
           /\ disk'.orders[q] = orders'[q]
           /\ \/ orders'[q] = orders[q] /\ orders[q].status # "none"
              \/ orders'[q] = [orders[q] EXCEPT !.status = "filled"] /\ credits[q] > 0]_vars
  <2> SUFFICES ASSUME IInv, IInv', [Next]_vars, NEW q \in invoicePaid
               PROVE  /\ disk'.orders[q] = orders'[q]
                      /\ \/ orders'[q] = orders[q] /\ orders[q].status # "none"
                         \/ orders'[q] = [orders[q] EXCEPT !.status = "filled"] /\ credits[q] > 0
    OBVIOUS
  <2>1. q \in Quotes /\ orders[q].status # "none"
    BY DEF IInv, Tracked, TypeInv, OrderInv, OrderSound
  <2>2. disk'.orders = orders'
    BY DEF IInv, DiskInv
  <2> QED
    BY <2>1, <2>2, StepOrders
<1> QED
  BY <1>1, IInvHolds, PTL DEF Spec, PaidOrderStands

\* The running desk implements Desk: whatever is delivered, paid, aborted or
\* restarted, its market makes the steps of Desk and no others.  So every theorem
\* about a market of Desk is one about the market that is served remotely.
THEOREM ListenerRefinesDesk == Spec => RefinesDesk
<1>1. Init => D!Init
  BY DEF Init
<1>2. IInv /\ [Next]_vars => [D!Next]_market
  BY StepMarket
<1> QED
  BY <1>1, <1>2, IInvHolds, PTL DEF Spec, RefinesDesk, D!Spec
=============================================================================
