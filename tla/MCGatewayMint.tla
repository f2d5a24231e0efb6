---------------------------- MODULE MCGatewayMint ----------------------------
(***************************************************************************)
(* The instances of GatewayMint that TLC checks.                           *)
(***************************************************************************)
EXTENDS GatewayMint

CONSTANTS m1, m2, loop, status
=============================================================================
