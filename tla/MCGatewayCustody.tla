------------------------- MODULE MCGatewayCustody -------------------------
(***************************************************************************)
(* The instances of GatewayCustody that TLC checks.  Each run names the    *)
(* requests it submits; what a request asks for is fixed here.             *)
(***************************************************************************)
EXTENDS GatewayCustody, TLC

CONSTANTS alice, bob, r1, r2, r3, r4, r5, x, y

\* Two Lightning payments, two sends by one user, a burn.
MixedKind == [r \in Requests |->
  IF r \in {r1, r2} THEN "ln_send" ELSE IF r = r4 THEN "burn" ELSE "send"]
MixedOwner == [r \in Requests |-> IF r \in {r2, r4} THEN bob ELSE alice]
OneUnit == [r \in Requests |-> 1]

\* r1 and r2 pay the same invoice, or one each.
SharedHash == [r \in Requests |-> IF r \in {r1, r2} THEN x ELSE NoHash]
OwnHash == [r \in Requests |-> IF r = r1 THEN x ELSE IF r = r2 THEN y ELSE NoHash]

\* r3 and r5 ask for the same.
TwoSends == Permutations({r3, r5})

Funds == [a \in Accounts |-> IF a = alice THEN 2 ELSE IF a = bob THEN 1 ELSE 0]
Sats == [a \in Accounts |-> IF a = alice THEN 1 ELSE 0]
=============================================================================
