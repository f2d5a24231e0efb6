------------------------------ MODULE MCNodeLink ------------------------------
(***************************************************************************)
(* The instances of NodeLink that TLC checks: the embedded node is behind  *)
(* Tor, the user's own ones are not.                                       *)
(***************************************************************************)
EXTENDS NodeLink

CONSTANTS home, n1
=============================================================================
