\* One unlock is enough.
SPECIFICATION SessionSpec
CONSTANTS
  s1 = s1 s2 = s2 v1 = v1 c1 = c1 c2 = c2
  Seeds = {s1} Rich = s1 Vtxos = {} Calls = {}
  NoSeed = NoSeed NoCall = NoCall
  MaxStarts = 1 MaxFaults = 0
INVARIANT ServesBuyers
CHECK_DEADLOCK FALSE
