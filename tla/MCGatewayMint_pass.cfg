\* Two mints, one of which owes a fee; the loop and a request reconcile.
SPECIFICATION MintFairSpec
CONSTANTS
  m1 = m1 m2 = m2 loop = loop status = status
  Mints = {m1, m2}
  Charged = {m1}
  Reconcilers = {loop, status}
  Maintenance = loop
  LossyReplies = TRUE
  MaxCrashes = 1
INVARIANTS BatchCreditedOnce FeesSettled
PROPERTIES MintCredited
CHECK_DEADLOCK FALSE
