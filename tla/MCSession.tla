------------------------------ MODULE MCSession ------------------------------
(***************************************************************************)
(* The instances of Session that TLC checks.  Only the wallet that owns    *)
(* the outputs can lose them: Apart leaves out the histories that have a   *)
(* command in flight beside a second seed, or two of them at once after    *)
(* both a second unlock and a fault.                                       *)
(***************************************************************************)
EXTENDS Session, TLC

CONSTANTS s1, s2, v1, c1, c2

Symmetry == Permutations({c1, c2})

NoRequest == call = [c \in Calls |-> 0] /\ \A n \in Starts : thread[n].at = NoCall
RichOnly == {wallet, arkDb} \cup {thread[n].seed : n \in Starts} \subseteq {Rich, NoSeed}
Simple == starts <= 1 \/ faults = 0 \/ Cardinality({c \in Calls : call[c] # 0}) <= 1
Apart == NoRequest \/ (RichOnly /\ Simple)
=============================================================================
