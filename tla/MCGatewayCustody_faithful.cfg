\* Replies tell the truth, every invoice is paid by one request.
SPECIFICATION Spec
CONSTANTS
  alice = alice bob = bob
  r1 = r1 r2 = r2 r3 = r3 r4 = r4 r5 = r5 x = x y = y
  Accounts = {alice, bob}
  Callers = {alice, bob}
  Requests = {r1, r3, r4, r5}
  NoRequest = NoRequest
  Kind <- MixedKind
  Owner <- MixedOwner
  Amt <- OneUnit
  Hash <- OwnHash
  NoHash = NoHash
  TransferAmounts = {1}
  Balance0 <- Funds
  Holding0 = 3
  Sats0 <- Sats
  ChargeFees = TRUE
  Operator = bob
  NoOperator = NoOperator
  Fee <- OneUnit
  LossyReplies = FALSE
  MaxCrashes = 1
SYMMETRY TwoSends
INVARIANTS LedgerMatchesNode AnswersMatchLedger FeesMatchAnswers
CHECK_DEADLOCK FALSE
