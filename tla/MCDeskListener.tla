--------------------------- MODULE MCDeskListener ---------------------------
(***************************************************************************)
(* The instances of DeskListener that TLC checks.                          *)
(***************************************************************************)
EXTENDS DeskListener

CONSTANTS creator, buyer, q1, p1, p2, s1, w1

\* Tokens at 10, 12 and 14 sats, and one sat of fee on each: the fee of the
\* second rounds to the disadvantage of an order that is quoted for it.
OneCurve == {[p0 |-> 18, k |-> 4, denom |-> 2, cap |-> 3, migration |-> 34]}

SenderOf == [x \in Messages \cup Withdrawals |-> buyer]
Budget == [q \in Quotes |-> 14]
Order == [p \in Proofs |-> q1]
One == [x \in Sales \cup Withdrawals |-> 1]
=============================================================================
