--------------------------- MODULE MCGatewayCredit ---------------------------
(***************************************************************************)
(* The instances of GatewayCredit that TLC checks.                         *)
(***************************************************************************)
EXTENDS GatewayCredit

CONSTANTS alice, r1, r2, r3, loop, status

EveryKind == [r \in Requests |->
  IF r = r1 THEN "receive" ELSE IF r = r2 THEN "ln_receive" ELSE "sats_deposit"]
AliceOwns == [r \in Requests |-> alice]
OneUnit == [r \in Requests |-> 1]
=============================================================================
