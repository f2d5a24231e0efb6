\* Two payments from two coins, two unlocks of two seeds, two Esplora servers, one fault.
SPECIFICATION OnchainSpec
CONSTANTS
  s1 = s1 s2 = s2 k1 = k1 k2 = k2 t1 = t1 t2 = t2
  Seeds = {s1, s2} Owner = s1 NoSeed = NoSeed
  Coins = {k1, k2} Sends = {t1, t2} Endpoints = 2
  MaxOpens = 2 MaxFaults = 1
SYMMETRY Symmetry
CONSTRAINT Apart
INVARIANTS OpensAgain PaidStays ErrorMeansUnpaid
PROPERTIES SyncedCoinsLeft
CHECK_DEADLOCK FALSE
