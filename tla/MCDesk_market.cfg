\* Two traders on each of four curves, with and without a fee.
SPECIFICATION Spec
CONSTANTS
  alice = alice bob = bob
  Users = {alice, bob}
  Curves <- SomeCurves
  FeeRates = {0, 1000}
  Budgets = {1, 2, 5, 11, 12, 25, 60}
  Seeds = {0, 6}
  MaxTrades = 4
INVARIANTS LedgerConserved ReserveCoversSupply ThresholdCloses BudgetsHonoured
CHECK_DEADLOCK FALSE
