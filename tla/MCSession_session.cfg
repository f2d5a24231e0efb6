\* Two unlocks of two seeds, two commands, one fault.
SPECIFICATION SessionSpec
CONSTANTS
  s1 = s1 s2 = s2 v1 = v1 c1 = c1 c2 = c2
  Seeds = {s1, s2} Rich = s1 Vtxos = {v1} Calls = {c1, c2}
  NoSeed = NoSeed NoCall = NoCall
  MaxStarts = 2 MaxFaults = 1
SYMMETRY Symmetry
CONSTRAINT Apart
INVARIANTS ServesThisWallet OpensItsOwn NobodyForgotten
PROPERTIES ExitsHaveFunds
CHECK_DEADLOCK FALSE
