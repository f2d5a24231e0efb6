--------------------------- MODULE MCGatewayHost ---------------------------
(***************************************************************************)
(* The instance of GatewayHost that TLC checks.  Requests and snapshots    *)
(* share nothing but the clock and the restarts: Apart leaves out the      *)
(* histories that have both.                                               *)
(***************************************************************************)
EXTENDS GatewayHost, TLC

CONSTANTS alice, bob, e1, e2, q1, q2

MCSigner == [e \in Events |-> IF e = e2 THEN bob ELSE alice]

Symmetry == Permutations(Requests)

NoRequest == request = [q \in Requests |-> Idle] /\ accepted = [e \in Events |-> 0]
NoSnapshot == taken = 0
Apart == NoRequest \/ NoSnapshot
=============================================================================
