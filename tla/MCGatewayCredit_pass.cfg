\* An address and an invoice; the maintenance loop and a status request reconcile; the purge is on.
SPECIFICATION FairSpec
CONSTANTS
  alice = alice r1 = r1 r2 = r2 r3 = r3 loop = loop status = status
  Accounts = {alice}
  Requests = {r1, r2}
  Kind <- EveryKind
  Owner <- AliceOwns
  Amt <- OneUnit
  Reconcilers = {loop, status}
  Maintenance = loop
  TTL = 1
  Expiry = 0
  MaxClock = 2
  MaxPayments = 2
  MaxCrashes = 1
INVARIANTS CreditsBacked ArrivalKept
PROPERTIES ArrivalCredited
CHECK_DEADLOCK FALSE
