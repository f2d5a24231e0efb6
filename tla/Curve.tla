------------------------------- MODULE Curve -------------------------------
(***************************************************************************)
(* The bonding curve of src-tauri/src/market/curve.rs.  One token costs    *)
(* (p0 + k * supply) / denom sats; a trade costs the area under that line, *)
(* which is a fraction with the denominator 2 * denom: rounded up for a    *)
(* buyer and down for a seller.                                            *)
(*                                                                         *)
(* The code computes in 128 bits and refuses what does not fit 64; all the *)
(* sats there are fit in 51, so the numbers here are plain integers.       *)
(***************************************************************************)
EXTENDS Integers

\* validate: a curve that is flat at zero would hand out tokens for free.
ValidCurves ==
  {c \in [p0 : Nat, k : Nat, denom : Nat \ {0}, cap : Nat \ {0}, migration : Nat] :
     c.p0 > 0 \/ c.k > 0}

\* integral_frac: the area between supplies s1 and s2, in units of Unit(c).
Area(c, s1, s2) == (s2 - s1) * (2 * c.p0 + c.k * (s1 + s2))
Unit(c) == 2 * c.denom

\* A wrong variant: buyers pay the floor.
CostRoundedDown(c, s, n) == Area(c, s, s + n) \div Unit(c)

\* cost_to_buy, for n tokens that the cap admits
CostToBuy(c, s, n) == (Area(c, s, s + n) + Unit(c) - 1) \div Unit(c)

\* refund_to_sell, for n tokens that are in circulation
RefundToSell(c, s, n) == Area(c, s - n, s) \div Unit(c)

\* tokens_for_sats: a binary search for the largest purchase a budget affords,
\* on the pair of its bounds.
Searched(c, s, budget, top) ==
  LET search[r \in (0 .. top) \X (0 .. top)] ==
        LET mid == r[1] + (r[2] - r[1] + 1) \div 2
        IN IF r[1] >= r[2] THEN r[1]
           ELSE IF CostToBuy(c, s, mid) <= budget THEN search[<<mid, r[2]>>]
           ELSE search[<<r[1], mid - 1>>]
  IN search

TokensForSats(c, s, budget) ==
  LET top == c.cap - s
  IN IF budget = 0 \/ top <= 0 THEN 0 ELSE Searched(c, s, budget, top)[<<0, top>>]

ReserveAt(c, s) == Area(c, 0, s) \div Unit(c)

\* is_migratable
Migratable(c, s) == c.migration > 0 /\ ReserveAt(c, s) >= c.migration
=============================================================================
