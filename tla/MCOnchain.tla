------------------------------ MODULE MCOnchain ------------------------------
(***************************************************************************)
(* The instance of Onchain that TLC checks.  Only the wallet of the owner  *)
(* can pay: Apart leaves out the histories that have two payments beside   *)
(* a second seed, or beside a new address after both a second unlock and a *)
(* fault.                                                                  *)
(***************************************************************************)
EXTENDS Onchain, TLC

CONSTANTS s1, s2, k1, k2, t1, t2

Symmetry == Permutations({k1, k2}) \cup Permutations({t1, t2})

FewPayments == Cardinality({t \in Sends : send[t] # Unsent}) <= 1
OwnerOnly == {wallet, db.seed} \cup {mem[i].seed : i \in Opens} \subseteq {Owner, NoSeed}
Simple == opens <= 1 \/ faults = 0 \/ reveal = 0
Apart == FewPayments \/ (OwnerOnly /\ Simple)
=============================================================================
