\* One order with two proofs, a sale and a withdrawal of the same buyer.
SPECIFICATION Spec
CONSTANTS
  creator = creator buyer = buyer
  q1 = q1 p1 = p1 p2 = p2 s1 = s1 w1 = w1
  Users = {creator, buyer}
  Locals = {creator}
  Curves <- OneCurve
  FeeRates = {1000}
  Budgets = {14}
  Seeds = {0}
  MaxLocalTrades = 2
  Quotes = {q1}
  Proofs = {p1, p2}
  Sales = {s1}
  Withdrawals = {w1}
  Sender <- SenderOf
  BudgetOf <- Budget
  OrderOf <- Order
  AmountOf <- One
  MaxStops = 2
INVARIANTS CreditsArePaid DebitedIsPaid WithdrawnLeft
PROPERTIES RefinesDesk PaidOrderStands
CHECK_DEADLOCK FALSE
