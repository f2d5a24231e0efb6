\* Two events of two callers, two connections; three snapshots; two faults.
SPECIFICATION HostSpec
CONSTANTS
  alice = alice  bob = bob
  e1 = e1  e2 = e2
  q1 = q1  q2 = q2
  Events = {e1, e2}
  Requests = {q1, q2}
  Callers = {alice, bob}
  Signer <- MCSigner
  NoOne = NoOne
  MaxSkew = 1
  Retention = 0
  MaxClock = 3
  MaxSnapshots = 3
  MaxFaults = 2
SYMMETRY Symmetry
CONSTRAINT Apart
INVARIANTS SpentOnce OneOperator NewestSnapshotKept
CHECK_DEADLOCK FALSE
