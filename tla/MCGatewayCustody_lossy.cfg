\* Two users pay one invoice, any reply may be lost, the gateway may crash.
SPECIFICATION FairSpec
CONSTANTS
  alice = alice bob = bob
  r1 = r1 r2 = r2 r3 = r3 r4 = r4 r5 = r5 x = x y = y
  Accounts = {alice, bob}
  Callers = {alice, bob}
  Requests = {r1, r2}
  NoRequest = NoRequest
  Kind <- MixedKind
  Owner <- MixedOwner
  Amt <- OneUnit
  Hash <- SharedHash
  NoHash = NoHash
  TransferAmounts = {1}
  Balance0 <- Funds
  Holding0 = 3
  Sats0 <- Sats
  ChargeFees = TRUE
  Operator = bob
  NoOperator = NoOperator
  Fee <- OneUnit
  LossyReplies = TRUE
  MaxCrashes = 1
INVARIANTS HistoryExplainsBalance ShortfallIsWrongRefunds
PROPERTIES RefinesEscrow LnPaymentsResolved
CHECK_DEADLOCK FALSE
