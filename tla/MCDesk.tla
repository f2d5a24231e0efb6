------------------------------- MODULE MCDesk -------------------------------
(***************************************************************************)
(* The instance of Desk that TLC checks.                                   *)
(***************************************************************************)
EXTENDS Desk

CONSTANTS alice, bob

Curve(p0, k, denom, migration) ==
  [p0 |-> p0, k |-> k, denom |-> denom, cap |-> 4, migration |-> migration]

\* A rising one with fractions of a sat, one that starts at zero, a flat one,
\* and one that closes half way.
SomeCurves == {Curve(9, 7, 3, 0), Curve(0, 5, 2, 0), Curve(7, 0, 5, 0), Curve(20, 3, 2, 21)}
=============================================================================
