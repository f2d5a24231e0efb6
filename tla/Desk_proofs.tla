---------------------------- MODULE Desk_proofs ----------------------------
(***************************************************************************)
(* Theorems about Desk, for every set of users, every valid curve, every   *)
(* fee, budget and seed, and markets of any length.                        *)
(***************************************************************************)
EXTENDS Desk, UnitSums_proofs, WellFoundedInduction, TLAPS

----------------------------------------------------------------------------
(* Division *)

LEMMA DivBounds ==
  ASSUME NEW a \in Nat, NEW d \in Nat \ {0}
  PROVE  /\ a \div d \in Nat
         /\ d * (a \div d) <= a
         /\ a < d * (a \div d) + d
OBVIOUS

\* Multiples of d that differ by less than d
LEMMA Multiples ==
  ASSUME NEW d \in Nat \ {0}, NEW x \in Int, NEW y \in Int, d * x < d * y + d
  PROVE  x <= y
OBVIOUS

LEMMA Distribute ==
  ASSUME NEW d \in Int, NEW x \in Int, NEW y \in Int
  PROVE  d * (x + y) = d * x + d * y /\ d * (x - y) = d * x - d * y
OBVIOUS

----------------------------------------------------------------------------
(* Areas *)

LEMMA CurveTypes ==
  ASSUME NEW c \in ValidCurves
  PROVE  /\ c.p0 \in Nat /\ c.k \in Nat /\ c.denom \in Nat \ {0}
         /\ c.cap \in Nat \ {0} /\ c.migration \in Nat
         /\ Unit(c) \in Nat \ {0}
BY DEF ValidCurves, Unit

LEMMA AreaNat ==
  ASSUME NEW c \in ValidCurves, NEW s1 \in Nat, NEW s2 \in Nat, s1 <= s2
  PROVE  Area(c, s1, s2) \in Nat
<1> DEFINE slope == c.k * (s1 + s2)
<1>1. c.p0 \in Nat /\ c.k \in Nat
  BY CurveTypes
<1>2. slope \in Nat
  BY <1>1
<1>3. 2 * c.p0 + slope \in Nat /\ s2 - s1 \in Nat
  BY <1>1, <1>2
<1> HIDE DEF slope
<1>4. (s2 - s1) * (2 * c.p0 + slope) \in Nat
  BY <1>3
<1> QED
  BY <1>4 DEF Area, slope

\* The area from s1 to s3 is the area to s2 and the area from there.
LEMMA AreaAdds ==
  ASSUME NEW c \in ValidCurves, NEW s1 \in Nat, NEW s2 \in Nat, NEW s3 \in Nat
  PROVE  Area(c, s1, s3) = Area(c, s1, s2) + Area(c, s2, s3)
<1>1. \A p, k \in Nat :
        (s3 - s1) * (2 * p + k * (s1 + s3))
          = (s2 - s1) * (2 * p + k * (s1 + s2)) + (s3 - s2) * (2 * p + k * (s2 + s3))
  OBVIOUS
<1> QED
  BY <1>1, CurveTypes DEF Area

----------------------------------------------------------------------------
(* Costs and refunds *)

\* A buyer pays for the area, and less than a sat more.
LEMMA CostBounds ==
  ASSUME NEW c \in ValidCurves, NEW s \in Nat, NEW n \in Nat
  PROVE  /\ CostToBuy(c, s, n) \in Nat
         /\ Area(c, s, s + n) <= Unit(c) * CostToBuy(c, s, n)
         /\ Unit(c) * CostToBuy(c, s, n) <= Area(c, s, s + n) + Unit(c) - 1
<1> DEFINE a == Area(c, s, s + n)
<1>1. a \in Nat /\ Unit(c) \in Nat \ {0}
  BY AreaNat, CurveTypes
<1>2. a + Unit(c) - 1 \in Nat
  BY <1>1
<1> HIDE DEF a
<1>3. /\ (a + Unit(c) - 1) \div Unit(c) \in Nat
      /\ Unit(c) * ((a + Unit(c) - 1) \div Unit(c)) <= a + Unit(c) - 1
      /\ a + Unit(c) - 1 < Unit(c) * ((a + Unit(c) - 1) \div Unit(c)) + Unit(c)
  BY <1>1, <1>2, DivBounds
<1>4. CostToBuy(c, s, n) = (a + Unit(c) - 1) \div Unit(c)
  BY DEF CostToBuy, a
<1>5. Unit(c) * CostToBuy(c, s, n) \in Int
  BY <1>1, <1>3, <1>4
<1> QED
  BY <1>1, <1>3, <1>4, <1>5 DEF a

\* A seller gets the area, or less than a sat less.
LEMMA RefundBounds ==
  ASSUME NEW c \in ValidCurves, NEW s \in Nat, NEW n \in Nat, n <= s
  PROVE  /\ RefundToSell(c, s, n) \in Nat
         /\ Unit(c) * RefundToSell(c, s, n) <= Area(c, s - n, s)
         /\ Area(c, s - n, s) < Unit(c) * RefundToSell(c, s, n) + Unit(c)
<1>1. s - n \in Nat /\ s - n <= s
  OBVIOUS
<1>2. Area(c, s - n, s) \in Nat /\ Unit(c) \in Nat \ {0}
  BY <1>1, AreaNat, CurveTypes
<1> QED
  BY <1>2, DivBounds DEF RefundToSell

LEMMA ReserveAtBounds ==
  ASSUME NEW c \in ValidCurves, NEW s \in Nat
  PROVE  ReserveAt(c, s) \in Nat /\ Unit(c) * ReserveAt(c, s) <= Area(c, 0, s)
<1>1. Area(c, 0, s) \in Nat /\ Unit(c) \in Nat \ {0}
  BY AreaNat, CurveTypes
<1> QED
  BY <1>1, DivBounds DEF ReserveAt

\* Buying and selling back at once loses nothing or one sat (curve.rs 16-20).
THEOREM RoundTrip ==
  ASSUME NEW c \in ValidCurves, NEW s \in Nat, NEW n \in Nat
  PROVE  RefundToSell(c, s + n, n) \in {CostToBuy(c, s, n) - 1, CostToBuy(c, s, n)}
<1> DEFINE cost == CostToBuy(c, s, n)
           refund == RefundToSell(c, s + n, n)
           a == Area(c, s, s + n)
           u == Unit(c)
<1>1. u \in Nat \ {0} /\ a \in Nat
  BY CurveTypes, AreaNat
<1>2. cost \in Nat /\ a <= u * cost /\ u * cost <= a + u - 1
  BY CostBounds
<1>3. refund \in Nat /\ u * refund <= a /\ a < u * refund + u
  <2>1. s + n \in Nat /\ n <= s + n /\ (s + n) - n = s
    OBVIOUS
  <2> QED
    BY <2>1, RefundBounds
<1> HIDE DEF cost, refund, a, u
<1>4. u * cost \in Int /\ u * refund \in Int /\ u * (cost - 1) \in Int
  BY <1>1, <1>2, <1>3
<1>5. refund <= cost
  BY <1>1, <1>2, <1>3, <1>4, Multiples
<1>6. cost - 1 <= refund
  <2>1. u * (cost - 1) = u * cost - u
    BY <1>1, <1>2
  <2>2. u * (cost - 1) < u * refund + u
    BY <1>1, <1>2, <1>3, <1>4, <2>1
  <2>3. cost - 1 \in Int /\ refund \in Int
    BY <1>2, <1>3
  <2> QED
    BY <1>1, <2>2, <2>3, Multiples
<1>7. refund = cost \/ refund = cost - 1
  BY <1>2, <1>3, <1>5, <1>6
<1> QED
  BY <1>7 DEF cost, refund

\* Buying in two parts is never cheaper than at once.
THEOREM PartsCostMore ==
  ASSUME NEW c \in ValidCurves, NEW s \in Nat, NEW n \in Nat, NEW i \in 0 .. n
  PROVE  CostToBuy(c, s, n) <= CostToBuy(c, s, i) + CostToBuy(c, s + i, n - i)
<1> DEFINE whole == CostToBuy(c, s, n)
           first == CostToBuy(c, s, i)
           second == CostToBuy(c, s + i, n - i)
           u == Unit(c)
<1>1. i \in Nat /\ n - i \in Nat /\ s + i \in Nat /\ s + n \in Nat /\ (s + i) + (n - i) = s + n
  OBVIOUS
<1>2. u \in Nat \ {0} /\ whole \in Nat /\ first \in Nat /\ second \in Nat
  BY <1>1, CurveTypes, CostBounds
<1>3. u * whole <= Area(c, s, s + n) + u - 1
  BY CostBounds
<1>4. Area(c, s, s + i) <= u * first /\ Area(c, s + i, s + n) <= u * second
  BY <1>1, CostBounds
<1>5. Area(c, s, s + n) = Area(c, s, s + i) + Area(c, s + i, s + n)
  BY <1>1, AreaAdds
<1>6. /\ Area(c, s, s + n) \in Nat /\ Area(c, s, s + i) \in Nat
      /\ Area(c, s + i, s + n) \in Nat
  BY <1>1, AreaNat
<1> HIDE DEF whole, first, second, u
<1>7. u * (first + second) = u * first + u * second
  BY <1>2
<1>8. u * whole \in Int /\ u * first \in Int /\ u * second \in Int
  BY <1>2
<1>9. u * whole < u * (first + second) + u
  BY <1>2, <1>3, <1>4, <1>5, <1>6, <1>7, <1>8
<1>10. whole <= first + second
  BY <1>2, <1>9, Multiples
<1> QED
  BY <1>10 DEF whole, first, second

\* A larger purchase costs no less.
LEMMA CostGrows ==
  ASSUME NEW c \in ValidCurves, NEW s \in Nat, NEW n \in Nat, NEW i \in 0 .. n
  PROVE  CostToBuy(c, s, i) <= CostToBuy(c, s, n)
<1> DEFINE less == CostToBuy(c, s, i)
           more == CostToBuy(c, s, n)
           u == Unit(c)
<1>1. i \in Nat /\ s + i \in Nat /\ s + n \in Nat /\ s + i <= s + n /\ s <= s + i
  OBVIOUS
<1>2. u \in Nat \ {0} /\ less \in Nat /\ more \in Nat
  BY <1>1, CurveTypes, CostBounds
<1>3. u * less <= Area(c, s, s + i) + u - 1
  BY <1>1, CostBounds
<1>4. Area(c, s, s + n) <= u * more
  BY CostBounds
<1>5. Area(c, s, s + n) = Area(c, s, s + i) + Area(c, s + i, s + n)
  BY <1>1, AreaAdds
<1>6. Area(c, s, s + i) \in Nat /\ Area(c, s + i, s + n) \in Nat
  BY <1>1, AreaNat
<1> HIDE DEF less, more, u
<1>7. u * less \in Int /\ u * more \in Int
  BY <1>2
<1>8. u * less < u * more + u
  BY <1>2, <1>3, <1>4, <1>5, <1>6, <1>7
<1>9. less <= more
  BY <1>2, <1>8, Multiples
<1> QED
  BY <1>9 DEF less, more

\* A token costs something: a curve that is flat at zero is not valid.
LEMMA TokenCosts ==
  ASSUME NEW c \in ValidCurves, NEW s \in Nat
  PROVE  CostToBuy(c, s, 0) = 0 /\ CostToBuy(c, s, 1) > 0
<1>1. /\ c.p0 \in Nat /\ c.k \in Nat /\ (c.p0 > 0 \/ c.k > 0)
      /\ Unit(c) \in Nat \ {0}
  BY CurveTypes DEF ValidCurves
<1>2. Area(c, s, s + 0) = 0
  <2>1. \A p, k \in Nat : ((s + 0) - s) * (2 * p + k * (s + (s + 0))) = 0
    OBVIOUS
  <2> QED
    BY <1>1, <2>1, CurveTypes DEF Area
<1>3. \A p, k \in Nat : p > 0 \/ k > 0 => ((s + 1) - s) * (2 * p + k * (s + (s + 1))) > 0
  OBVIOUS
<1>4. Area(c, s, s + 1) > 0
  BY <1>1, <1>3, CurveTypes DEF Area
<1>5. CostToBuy(c, s, 0) \in Nat /\ CostToBuy(c, s, 1) \in Nat
  BY CostBounds
<1>6. Unit(c) * CostToBuy(c, s, 0) <= Unit(c) - 1
  BY <1>1, <1>2, CostBounds
<1>7. CostToBuy(c, s, 0) = 0
  <2>1. \A u \in Nat \ {0}, x \in Nat : u * x <= u - 1 => x = 0
    OBVIOUS
  <2> QED
    BY <1>1, <1>5, <1>6, <2>1
<1>8. Area(c, s, s + 1) <= Unit(c) * CostToBuy(c, s, 1)
  BY CostBounds
<1>9. CostToBuy(c, s, 1) # 0
  <2>1. Area(c, s, s + 1) \in Nat
    BY AreaNat
  <2> QED
    BY <1>1, <1>4, <1>8, <2>1
<1> QED
  BY <1>5, <1>7, <1>9

----------------------------------------------------------------------------
(* The largest purchase: a binary search, by induction on its bounds *)

LEMMA LeastMember ==
  ASSUME NEW S \in SUBSET Nat, S # {}
  PROVE  \E m \in S : \A n \in S : m <= n
<1>1. \E x \in S : \A y \in S : ~ (<<y, x>> \in OpToRel(<, Nat))
  <2> DEFINE R == OpToRel(<, Nat)
  <2>1. IsWellFoundedOn(R, Nat)
    BY NatLessThanWellFounded
  <2> HIDE DEF R
  <2>2. \E x \in S : \A y \in S : ~ (<<y, x>> \in R)
    BY <2>1, WFMin
  <2> QED
    BY <2>2 DEF R
<1>2. PICK x \in S : \A y \in S : ~ (<<y, x>> \in OpToRel(<, Nat))
  BY <1>1
<1>3. \A y \in S : ~(y < x)
  <2> TAKE y \in S
  <2>1. <<y, x>> \in Nat \X Nat
    OBVIOUS
  <2>2. y < x => <<y, x>> \in OpToRel(<, Nat)
    BY <2>1, Zenon DEF OpToRel
  <2> QED
    BY <1>2, <2>2
<1>4. \A y \in S : x <= y
  BY <1>3
<1> QED
  BY <1>4

\* A set of numbers below a bound has a largest one.
LEMMA LargestMember ==
  ASSUME NEW top \in Nat, NEW S \in SUBSET (0 .. top), S # {}
  PROVE  \E m \in S : \A n \in S : n <= m
<1> DEFINE T == {k \in Nat : top - k \in S}
<1>1. T \in SUBSET Nat /\ T # {}
  <2>1. PICK n \in S : TRUE
    OBVIOUS
  <2>2. top - n \in Nat /\ top - (top - n) = n
    OBVIOUS
  <2> QED
    BY <2>2
<1> HIDE DEF T
<1>2. PICK k \in T : \A j \in T : k <= j
  BY <1>1, LeastMember
<1>3. k \in Nat /\ top - k \in S
  BY DEF T
<1>4. ASSUME NEW n \in S PROVE n <= top - k
  <2>1. n \in Nat /\ top - n \in Nat /\ top - (top - n) = n
    OBVIOUS
  <2>2. top - n \in T
    BY <2>1 DEF T
  <2> QED
    BY <1>2, <1>3, <2>1, <2>2
<1> QED
  BY <1>3, <1>4

\* Between lo and hi, the largest member of A; lo if there is none.
Best(A, lo, hi, n) ==
  /\ n \in lo .. hi
  /\ n = lo \/ n \in A
  /\ \A m \in lo .. hi : m > n => m \notin A

Pairs(top) == (0 .. top) \X (0 .. top)
Mid(r) == r[1] + (r[2] - r[1] + 1) \div 2

\* The equation of the loop, when A is what the budget affords.
Bisects(A, f, top) ==
  f = [r \in Pairs(top) |->
         IF r[1] >= r[2] THEN r[1]
         ELSE IF Mid(r) \in A THEN f[<<Mid(r), r[2]>>]
         ELSE f[<<r[1], Mid(r) - 1>>]]

DownClosed(A) == \A n \in A : \A m \in Nat : m <= n => m \in A

LEMMA MidBetween ==
  ASSUME NEW top \in Nat, NEW r \in Pairs(top), r[1] < r[2]
  PROVE  /\ r[1] \in Nat /\ r[2] \in Nat /\ r[1] <= top /\ r[2] <= top
         /\ Mid(r) \in Nat /\ r[1] < Mid(r) /\ Mid(r) <= r[2]
         /\ <<Mid(r), r[2]>> \in Pairs(top) /\ <<r[1], Mid(r) - 1>> \in Pairs(top)
<1>1. r[1] \in 0 .. top /\ r[2] \in 0 .. top
  BY DEF Pairs
<1>2. Mid(r) \in Nat /\ r[1] < Mid(r) /\ Mid(r) <= r[2]
  BY <1>1 DEF Mid
<1> HIDE DEF Mid
<1>3. Mid(r) \in 0 .. top /\ Mid(r) - 1 \in 0 .. top
  BY <1>1, <1>2
<1> QED
  BY <1>1, <1>2, <1>3 DEF Pairs

LEMMA BestExists ==
  ASSUME NEW A \in SUBSET Nat, NEW lo \in Nat, NEW hi \in Nat, lo <= hi
  PROVE  \E n \in Nat : Best(A, lo, hi, n)
<1> DEFINE S == {n \in lo .. hi : n = lo \/ n \in A}
<1>1. S \in SUBSET (0 .. hi) /\ S # {}
  <2>1. lo \in S
    OBVIOUS
  <2> QED
    BY <2>1
<1> HIDE DEF S
<1>2. PICK n \in S : \A m \in S : m <= n
  BY <1>1, LargestMember
<1>3. n \in lo .. hi /\ (n = lo \/ n \in A)
  BY DEF S
<1>4. ASSUME NEW m \in lo .. hi, m > n
      PROVE  m \notin A
  BY <1>2, <1>3, <1>4 DEF S
<1> QED
  BY <1>3, <1>4 DEF Best

LEMMA BestUnique ==
  ASSUME NEW A \in SUBSET Nat, NEW lo \in Nat, NEW hi \in Nat,
         NEW n, NEW m, Best(A, lo, hi, n), Best(A, lo, hi, m)
  PROVE  n = m
BY DEF Best

\* One round of the loop keeps the answer between its bounds.
LEMMA BestHalves ==
  ASSUME NEW A \in SUBSET Nat, DownClosed(A), NEW lo \in Nat, NEW hi \in Nat,
         NEW mid \in Nat, lo < mid, mid <= hi, NEW n,
         \/ mid \in A /\ Best(A, mid, hi, n)
         \/ mid \notin A /\ Best(A, lo, mid - 1, n)
  PROVE  Best(A, lo, hi, n)
<1>1. CASE mid \in A /\ Best(A, mid, hi, n)
  BY <1>1 DEF Best
<1>2. CASE mid \notin A /\ Best(A, lo, mid - 1, n)
  <2>1. n \in lo .. hi /\ (n = lo \/ n \in A)
    BY <1>2 DEF Best
  <2>2. ASSUME NEW m \in lo .. hi, m > n PROVE m \notin A
    <3>1. CASE m <= mid - 1
      BY <1>2, <2>2, <3>1 DEF Best
    <3>2. CASE m >= mid
      BY <1>2, <3>2 DEF DownClosed
    <3> QED
      BY <3>1, <3>2
  <2> QED
    BY <2>1, <2>2 DEF Best
<1> QED
  BY <1>1, <1>2

\* The loop has a meaning: some function satisfies its equation.
LEMMA BisectionExists ==
  ASSUME NEW A \in SUBSET Nat, DownClosed(A), NEW top \in Nat
  PROVE  \E f : Bisects(A, f, top)
<1> DEFINE best(lo, hi) == CHOOSE n \in Nat : Best(A, lo, hi, n)
           f == [r \in Pairs(top) |-> IF r[1] >= r[2] THEN r[1] ELSE best(r[1], r[2])]
<1>1. \A lo, hi \in Nat : lo <= hi => best(lo, hi) \in Nat /\ Best(A, lo, hi, best(lo, hi))
  BY BestExists
<1> HIDE DEF best
<1>2. ASSUME NEW r \in Pairs(top), r[1] >= r[2]
      PROVE  f[r] = r[1]
  BY <1>2
<1>3. ASSUME NEW r \in Pairs(top), r[1] <= r[2]
      PROVE  Best(A, r[1], r[2], f[r])
  <2>1. r[1] \in Nat /\ r[2] \in Nat
    BY DEF Pairs
  <2>2. CASE r[1] < r[2]
    <3>1. f[r] = best(r[1], r[2])
      BY <2>1, <2>2
    <3> QED
      BY <1>1, <2>1, <2>2, <3>1
  <2>3. CASE r[1] = r[2]
    <3>1. f[r] = r[1]
      BY <1>2, <2>1, <2>3
    <3> QED
      BY <2>1, <2>3, <3>1 DEF Best
  <2> QED
    BY <1>3, <2>1, <2>2, <2>3
<1>4. DOMAIN f = Pairs(top) /\ f = [r \in Pairs(top) |-> f[r]]
  OBVIOUS
<1> HIDE DEF f
<1>5. ASSUME NEW r \in Pairs(top), r[1] < r[2]
      PROVE  f[r] = IF Mid(r) \in A THEN f[<<Mid(r), r[2]>>] ELSE f[<<r[1], Mid(r) - 1>>]
  <2> DEFINE upper == <<Mid(r), r[2]>>
             lower == <<r[1], Mid(r) - 1>>
  <2>1. /\ r[1] \in Nat /\ r[2] \in Nat /\ Mid(r) \in Nat /\ r[1] < Mid(r) /\ Mid(r) <= r[2]
        /\ upper \in Pairs(top) /\ lower \in Pairs(top)
    BY <1>5, MidBetween
  <2>2. upper[1] = Mid(r) /\ upper[2] = r[2] /\ lower[1] = r[1] /\ lower[2] = Mid(r) - 1
    OBVIOUS
  <2> HIDE DEF upper, lower
  <2>3. Best(A, r[1], r[2], f[r])
    BY <1>3, <1>5, <2>1
  <2>4. CASE Mid(r) \in A
    <3>1. Best(A, Mid(r), r[2], f[upper])
      BY <1>3, <2>1, <2>2
    <3>2. Best(A, r[1], r[2], f[upper])
      BY <2>1, <2>4, <3>1, BestHalves
    <3> QED
      BY <2>1, <2>3, <2>4, <3>2, BestUnique DEF upper
  <2>5. CASE Mid(r) \notin A
    <3>1. Best(A, r[1], Mid(r) - 1, f[lower])
      BY <1>3, <2>1, <2>2
    <3>2. Best(A, r[1], r[2], f[lower])
      BY <2>1, <2>5, <3>1, BestHalves
    <3> QED
      BY <2>1, <2>3, <2>5, <3>2, BestUnique DEF lower
  <2> QED
    BY <2>4, <2>5
<1>6. \A r \in Pairs(top) :
        f[r] = IF r[1] >= r[2] THEN r[1]
               ELSE IF Mid(r) \in A THEN f[<<Mid(r), r[2]>>]
               ELSE f[<<r[1], Mid(r) - 1>>]
  <2> TAKE r \in Pairs(top)
  <2>1. r[1] \in Nat /\ r[2] \in Nat
    BY DEF Pairs
  <2> QED
    BY <1>2, <1>5, <2>1
<1>7. Bisects(A, f, top)
  BY <1>4, <1>6 DEF Bisects
<1> QED
  BY <1>7

\* Whatever satisfies the equation finds the answer, by induction on the
\* distance of the bounds: there is no smallest one where it does not.
LEMMA BisectionCorrect ==
  ASSUME NEW A \in SUBSET Nat, DownClosed(A), NEW top \in Nat,
         NEW f, Bisects(A, f, top), NEW q \in Pairs(top), q[1] <= q[2]
  PROVE  Best(A, q[1], q[2], f[q])
<1> DEFINE Wrong == {r \in Pairs(top) : r[1] <= r[2] /\ ~Best(A, r[1], r[2], f[r])}
           Gaps == {r[2] - r[1] : r \in Wrong}
<1>1. SUFFICES ASSUME Wrong # {}
               PROVE  FALSE
  OBVIOUS
<1>2. Gaps \in SUBSET Nat /\ Gaps # {}
  BY <1>1 DEF Pairs
<1>3. PICK r \in Wrong : \A x \in Wrong : r[2] - r[1] <= x[2] - x[1]
  <2>1. PICK g \in Gaps : \A h \in Gaps : g <= h
    BY <1>2, LeastMember
  <2> QED
    BY <2>1
<1>4. r \in Pairs(top) /\ r[1] \in Nat /\ r[2] \in Nat /\ r[1] <= r[2]
  BY DEF Pairs
<1>5. ~Best(A, r[1], r[2], f[r])
  OBVIOUS
<1>6. ASSUME NEW x \in Pairs(top), x[1] <= x[2], x[2] - x[1] < r[2] - r[1]
      PROVE  Best(A, x[1], x[2], f[x])
  <2>1. x[1] \in Nat /\ x[2] \in Nat
    BY DEF Pairs
  <2>2. x \notin Wrong
    BY <1>3, <1>4, <1>6, <2>1
  <2> QED
    BY <1>6, <2>2
<1> HIDE DEF Wrong, Gaps
<1>7. f[r] = IF r[1] >= r[2] THEN r[1]
             ELSE IF Mid(r) \in A THEN f[<<Mid(r), r[2]>>]
             ELSE f[<<r[1], Mid(r) - 1>>]
  BY <1>4 DEF Bisects
<1>8. CASE r[1] = r[2]
  <2>1. f[r] = r[1]
    BY <1>4, <1>7, <1>8
  <2> QED
    BY <1>4, <1>5, <1>8, <2>1 DEF Best
<1>9. CASE r[1] < r[2]
  <2> DEFINE upper == <<Mid(r), r[2]>>
             lower == <<r[1], Mid(r) - 1>>
  <2>1. /\ Mid(r) \in Nat /\ r[1] < Mid(r) /\ Mid(r) <= r[2]
        /\ upper \in Pairs(top) /\ lower \in Pairs(top)
    BY <1>4, <1>9, MidBetween
  <2>2. upper[1] = Mid(r) /\ upper[2] = r[2] /\ lower[1] = r[1] /\ lower[2] = Mid(r) - 1
    OBVIOUS
  <2>3. f[r] = IF Mid(r) \in A THEN f[upper] ELSE f[lower]
    BY <1>4, <1>7, <1>9
  <2> HIDE DEF upper, lower
  <2>4. CASE Mid(r) \in A
    <3>1. Best(A, Mid(r), r[2], f[upper])
      BY <1>4, <1>6, <2>1, <2>2
    <3> QED
      BY <1>4, <1>5, <2>1, <2>3, <2>4, <3>1, BestHalves
  <2>5. CASE Mid(r) \notin A
    <3>1. Best(A, r[1], Mid(r) - 1, f[lower])
      BY <1>4, <1>6, <2>1, <2>2
    <3> QED
      BY <1>4, <1>5, <2>1, <2>3, <2>5, <3>1, BestHalves
  <2> QED
    BY <2>4, <2>5
<1> QED
  BY <1>4, <1>8, <1>9

\* tokens_for_sats returns the largest purchase the budget affords.
THEOREM LargestPurchase ==
  ASSUME NEW c \in ValidCurves, NEW s \in Nat, NEW budget \in Nat, s <= c.cap,
         NEW n, n = TokensForSats(c, s, budget)
  PROVE  /\ n \in 0 .. c.cap - s
         /\ CostToBuy(c, s, n) <= budget
         /\ \A m \in n + 1 .. c.cap - s : CostToBuy(c, s, m) > budget
<1> DEFINE top == c.cap - s
           A == {m \in Nat : CostToBuy(c, s, m) <= budget}
<1>1. c.cap \in Nat /\ top \in Nat
  BY CurveTypes
<1>2. \A m \in Nat : CostToBuy(c, s, m) \in Nat
  BY CostBounds
<1>3. CostToBuy(c, s, 0) = 0
  BY TokenCosts
<1>4. A \in SUBSET Nat /\ DownClosed(A)
  <2>1. ASSUME NEW k \in A, NEW m \in Nat, m <= k PROVE m \in A
    <3>1. m \in 0 .. k /\ k \in Nat
      BY <2>1
    <3>2. CostToBuy(c, s, m) <= CostToBuy(c, s, k)
      BY <3>1, CostGrows
    <3> QED
      BY <1>2, <2>1, <3>1, <3>2
  <2> QED
    BY <2>1 DEF DownClosed
<1>5. CASE budget = 0 \/ top <= 0
  <2>1. n = 0
    BY <1>5 DEF TokensForSats
  <2>2. ASSUME NEW m \in 1 .. top PROVE CostToBuy(c, s, m) > budget
    <3>1. m \in Nat /\ 1 \in 0 .. m
      BY <1>1
    <3>2. CostToBuy(c, s, 1) <= CostToBuy(c, s, m) /\ CostToBuy(c, s, 1) > 0
      BY <3>1, CostGrows, TokenCosts
    <3>3. budget = 0
      BY <1>1, <1>5
    <3> QED
      BY <1>2, <3>1, <3>2, <3>3
  <2> QED
    BY <1>1, <1>3, <2>1, <2>2
<1>6. CASE ~(budget = 0 \/ top <= 0)
  <2> DEFINE f == Searched(c, s, budget, top)
  <2> DEFINE Loop(g) ==
               g = [r \in (0 .. top) \X (0 .. top) |->
                      IF r[1] >= r[2] THEN r[1]
                      ELSE IF CostToBuy(c, s, r[1] + (r[2] - r[1] + 1) \div 2) <= budget
                           THEN g[<<r[1] + (r[2] - r[1] + 1) \div 2, r[2]>>]
                      ELSE g[<<r[1], r[1] + (r[2] - r[1] + 1) \div 2 - 1>>]]
  <2>1. ASSUME NEW g
        PROVE  Loop(g) <=> Bisects(A, g, top)
    <3>1. ASSUME NEW r \in Pairs(top), r[1] < r[2]
          PROVE  Mid(r) \in A <=> CostToBuy(c, s, Mid(r)) <= budget
      BY <1>1, <3>1, MidBetween
    <3>2. \A r \in Pairs(top) : r[1] \in Nat /\ r[2] \in Nat
      BY DEF Pairs
    <3> QED
      BY <3>1, <3>2 DEF Bisects, Mid, Pairs
  <2>2. Bisects(A, f, top)
    <3>1. \E g : Loop(g)
      BY <1>1, <1>4, <2>1, BisectionExists
    <3>2. f = CHOOSE g : Loop(g)
      BY DEF Searched
    <3> HIDE DEF Loop, f
    <3>3. Loop(f)
      BY <3>1, <3>2
    <3> QED
      BY <2>1, <3>3
  <2>3. n = f[<<0, top>>]
    BY <1>6 DEF TokensForSats
  <2> HIDE DEF f, A, top
  <2>4. <<0, top>> \in Pairs(top) /\ <<0, top>>[1] = 0 /\ <<0, top>>[2] = top
    BY <1>1 DEF Pairs
  <2>5. Best(A, 0, top, n)
    <3> DEFINE q == <<0, top>>
    <3>1. q \in Pairs(top) /\ q[1] <= q[2]
      BY <1>1, <2>4
    <3> HIDE DEF q
    <3>2. Best(A, q[1], q[2], f[q])
      BY <1>1, <1>4, <2>2, <3>1, BisectionCorrect
    <3> QED
      BY <2>3, <2>4, <3>2 DEF q
  <2>6. n \in 0 .. top /\ (n = 0 \/ n \in A) /\ \A m \in 0 .. top : m > n => m \notin A
    BY <2>5 DEF Best
  <2>7. CostToBuy(c, s, n) <= budget
    BY <1>3, <2>6 DEF A
  <2>8. \A m \in n + 1 .. top : CostToBuy(c, s, m) > budget
    <3> TAKE m \in n + 1 .. top
    <3>1. m \in Nat /\ m \in 0 .. top /\ m > n
      BY <1>1, <2>6
    <3> QED
      BY <1>2, <2>6, <3>1 DEF A
  <2> QED
    BY <2>6, <2>7, <2>8 DEF top
<1> QED
  BY <1>5, <1>6

----------------------------------------------------------------------------
(* What the trades do to a market's fields *)

LEMMA FieldTypes ==
  ASSUME NEW m \in Markets
  PROVE  /\ m.curve \in Curves /\ m.curve \in ValidCurves /\ m.feeBp \in 0 .. 1000
         /\ m.supply \in Nat /\ m.reserve \in Nat /\ m.withdrawn \in Nat /\ m.fees \in Nat
         /\ m.balance \in [Users -> Nat] /\ m.trades \in 0 .. MaxTrades
         /\ m.status \in {"trading", "paused", "migrated"}
<1>1. m.curve \in Curves /\ m.feeBp \in FeeRates
  BY DEF Markets
<1>2. m.curve \in ValidCurves /\ m.feeBp \in 0 .. 1000
  BY <1>1, DeskAssumption
<1> QED
  BY <1>1, <1>2 DEF Markets

LEMMA FeeNat ==
  ASSUME NEW m \in Markets, NEW sats \in Nat
  PROVE  FeeOn(m, sats) \in Nat
<1>1. m.feeBp \in Nat
  <2>1. m.feeBp \in 0 .. 1000
    BY FieldTypes
  <2> QED
    BY <2>1
<1>2. sats * m.feeBp \in Nat
  BY <1>1
<1>3. (sats * m.feeBp) \div 10000 \in Nat
  BY <1>2, DivBounds
<1> QED
  BY <1>3 DEF FeeOn

\* The fields two markets have in common when they differ in their status.
SameButStatus(a, b) ==
  /\ a.curve = b.curve /\ a.feeBp = b.feeBp /\ a.supply = b.supply
  /\ a.reserve = b.reserve /\ a.withdrawn = b.withdrawn /\ a.fees = b.fees
  /\ a.balance = b.balance /\ a.trades = b.trades

LEMMA MigratedFields ==
  ASSUME NEW m \in Markets
  PROVE  /\ Migrated(m) \in Markets /\ SameButStatus(Migrated(m), m)
         /\ m.status = "trading" =>
              Migrated(m).status = "migrated" \/ ~Migratable(Migrated(m).curve, Migrated(m).supply)
         /\ m.status = "migrated" => Migrated(m).status = "migrated"
BY DEF Migrated, Markets, SameButStatus

\* A market after a trade, before it may migrate
Traded(m, supply, reserve, fees, balance, trades) ==
  [m EXCEPT !.supply = supply, !.reserve = reserve, !.fees = fees,
            !.balance = balance, !.trades = trades]

AfterTrade(m, supply, reserve, balance, trades, after) ==
  /\ after \in Markets
  /\ after.curve = m.curve /\ after.withdrawn = m.withdrawn
  /\ after.supply = supply /\ after.reserve = reserve
  /\ after.balance = balance /\ after.trades = trades
  /\ after.status = "migrated" \/ ~Migratable(after.curve, after.supply)

LEMMA TradedFields ==
  ASSUME NEW m \in Markets, m.status # "paused",
         NEW s \in Nat, NEW r \in Nat, NEW f \in Nat,
         NEW b \in [Users -> Nat], NEW t \in 0 .. MaxTrades,
         NEW after, after = Migrated(Traded(m, s, r, f, b, t))
  PROVE  AfterTrade(m, s, r, b, t, after)
<1> DEFINE d == Traded(m, s, r, f, b, t)
<1>1. d \in Markets
  BY DEF Traded, Markets
<1>2. /\ d.curve = m.curve /\ d.withdrawn = m.withdrawn
      /\ d.supply = s /\ d.reserve = r /\ d.balance = b /\ d.trades = t
      /\ d.status \in {"trading", "migrated"}
  BY DEF Traded, Markets
<1> HIDE DEF d
<1>3. after = Migrated(d)
  BY DEF d
<1>4. /\ after \in Markets /\ SameButStatus(after, d)
      /\ after.status = "migrated" \/ ~Migratable(after.curve, after.supply)
  BY <1>1, <1>2, <1>3, MigratedFields
<1> QED
  BY <1>2, <1>4 DEF SameButStatus, AfterTrade

LEMMA BoughtFields ==
  ASSUME NEW m \in Markets, NEW u \in Users, NEW n \in Nat, m.trades < MaxTrades,
         m.status # "paused"
  PROVE  AfterTrade(m, m.supply + n, m.reserve + Cost(m, n),
                    Plus(m.balance, u, n), m.trades + 1, Bought(m, u, n))
<1> DEFINE supply == m.supply + n
           reserve == m.reserve + Cost(m, n)
           fees == m.fees + FeeOn(m, Cost(m, n))
           balance == Plus(m.balance, u, n)
           trades == m.trades + 1
<1>1. Cost(m, n) \in Nat /\ FeeOn(m, Cost(m, n)) \in Nat
  BY FieldTypes, CostBounds, FeeNat DEF Cost
<1>2. supply \in Nat /\ reserve \in Nat
  BY <1>1, FieldTypes
<1>3. fees \in Nat
  BY <1>1, FieldTypes
<1>4. balance \in [Users -> Nat]
  BY FieldTypes DEF Plus
<1>5. trades \in 0 .. MaxTrades
  BY FieldTypes, DeskAssumption
<1>6. Bought(m, u, n) = Migrated(Traded(m, supply, reserve, fees, balance, trades))
  BY DEF Bought, Traded
<1> HIDE DEF supply, reserve, fees, balance, trades
<1>7. AfterTrade(m, supply, reserve, balance, trades, Bought(m, u, n))
  BY <1>2, <1>3, <1>4, <1>5, <1>6, TradedFields
<1> QED
  BY <1>7 DEF supply, reserve, balance, trades

LEMMA SoldFields ==
  ASSUME NEW m \in Markets, NEW u \in Users, NEW n \in Nat, m.trades < MaxTrades,
         m.status # "paused", n <= m.balance[u], n <= m.supply, Refund(m, n) <= m.reserve
  PROVE  AfterTrade(m, m.supply - n, m.reserve - Refund(m, n),
                    Minus(m.balance, u, n), m.trades + 1, Sold(m, u, n))
<1> DEFINE supply == m.supply - n
           reserve == m.reserve - Refund(m, n)
           fees == m.fees + FeeOn(m, Refund(m, n))
           balance == Minus(m.balance, u, n)
           trades == m.trades + 1
<1>1. Refund(m, n) \in Nat /\ FeeOn(m, Refund(m, n)) \in Nat
  BY FieldTypes, RefundBounds, FeeNat DEF Refund
<1>2. supply \in Nat /\ reserve \in Nat
  BY <1>1, FieldTypes
<1>3. fees \in Nat
  BY <1>1, FieldTypes
<1>4. balance \in [Users -> Nat]
  BY FieldTypes DEF Minus
<1>5. trades \in 0 .. MaxTrades
  BY FieldTypes, DeskAssumption
<1>6. Sold(m, u, n) = Migrated(Traded(m, supply, reserve, fees, balance, trades))
  BY DEF Sold, Traded
<1> HIDE DEF supply, reserve, fees, balance, trades
<1>7. AfterTrade(m, supply, reserve, balance, trades, Sold(m, u, n))
  BY <1>2, <1>3, <1>4, <1>5, <1>6, TradedFields
<1> QED
  BY <1>7 DEF supply, reserve, balance, trades

----------------------------------------------------------------------------
(* The inductive invariant, as a predicate on markets *)

Conserved(m) == m.supply = Total(m.balance, Users) + m.withdrawn
Covered(m) == Unit(m.curve) * m.reserve >= Area(m.curve, 0, m.supply)
Rounded(m) ==
  Unit(m.curve) * m.reserve <= Area(m.curve, 0, m.supply) + (Unit(m.curve) - 1) * m.trades
Closed(m) == m.status = "migrated" \/ ~Migratable(m.curve, m.supply)

Capped(m) == m.supply <= m.curve.cap

Sound(m) ==
  m \in Markets /\ Conserved(m) /\ Covered(m) /\ Rounded(m) /\ Closed(m) /\ Capped(m)

\* Reserve and area in numbers: a purchase adds its cost to the one and its
\* area to the other, and the cost is the area or less than a sat more.
LEMMA BuyPrices ==
  ASSUME NEW u \in Nat \ {0}, NEW r \in Nat, NEW cost \in Nat, NEW t \in Nat,
         NEW a \in Nat, NEW b \in Nat,
         u * r >= a, u * r <= a + (u - 1) * t,
         b <= u * cost, u * cost <= b + u - 1
  PROVE  /\ u * (r + cost) >= a + b
         /\ u * (r + cost) <= (a + b) + (u - 1) * (t + 1)
<1>1. u * (r + cost) = u * r + u * cost
  BY Distribute
<1>2. (u - 1) * (t + 1) = (u - 1) * t + (u - 1)
  OBVIOUS
<1>3. u * r \in Nat /\ u * cost \in Nat /\ (u - 1) * t \in Nat
  <2>1. u - 1 \in Nat
    OBVIOUS
  <2> QED
    BY <2>1
<1> QED
  BY <1>1, <1>2, <1>3

LEMMA SellPrices ==
  ASSUME NEW u \in Nat \ {0}, NEW r \in Nat, NEW refund \in Nat, NEW t \in Nat,
         NEW a \in Nat, NEW b \in Nat,
         u * r >= a + b, u * r <= (a + b) + (u - 1) * t,
         u * refund <= b, b < u * refund + u
  PROVE  /\ u * (r - refund) >= a
         /\ u * (r - refund) <= a + (u - 1) * (t + 1)
<1>1. u * (r - refund) = u * r - u * refund
  BY Distribute
<1>2. (u - 1) * (t + 1) = (u - 1) * t + (u - 1)
  OBVIOUS
<1>3. u * r \in Nat /\ u * refund \in Nat /\ (u - 1) * t \in Nat
  <2>1. u - 1 \in Nat
    OBVIOUS
  <2> QED
    BY <2>1
<1> QED
  BY <1>1, <1>2, <1>3

\* What a budget leaves for the curve, and the fee on that, are within it.
LEMMA FeeWithinBudget ==
  ASSUME NEW m \in Markets, NEW budget \in Nat, NEW cost \in Nat,
         cost <= CurveBudget(m, budget)
  PROVE  cost + FeeOn(m, cost) <= budget
<1> DEFINE bp == m.feeBp
           left == CurveBudget(m, budget)
           fee == FeeOn(m, cost)
<1>1. bp \in Nat
  <2>1. bp \in 0 .. 1000
    BY FieldTypes
  <2> QED
    BY <2>1
<1>2. fee \in Nat
  BY FeeNat
<1> HIDE DEF bp
<1>3. budget * 10000 \in Nat /\ cost * bp \in Nat /\ 10000 + bp \in Nat \ {0}
  BY <1>1
<1>4. left \in Nat /\ (10000 + bp) * left <= budget * 10000
  BY <1>3, DivBounds DEF CurveBudget, bp
<1>5. 10000 * fee <= cost * bp
  BY <1>3, DivBounds DEF FeeOn, bp
<1> HIDE DEF fee, left
<1>6. (10000 + bp) * cost <= (10000 + bp) * left
  <2>1. \A k, x, y \in Nat : x <= y => k * x <= k * y
    OBVIOUS
  <2>2. cost <= left
    BY DEF left
  <2> QED
    BY <1>3, <1>4, <2>1, <2>2
<1>7. (10000 + bp) * cost = 10000 * cost + cost * bp /\ (10000 + bp) * left \in Nat
  BY <1>1, <1>4
<1>8. 10000 * cost + 10000 * fee <= budget * 10000
  BY <1>2, <1>3, <1>4, <1>5, <1>6, <1>7
<1> QED
  BY <1>2, <1>8 DEF fee

\* What leaves the curve too little costs the budget at least: the rounding of the
\* fee hides less than a sat.
LEMMA BeyondBudget ==
  ASSUME NEW m \in Markets, NEW budget \in Nat, NEW cost \in Nat,
         cost > CurveBudget(m, budget)
  PROVE  /\ cost + FeeOn(m, cost) >= budget
         /\ m.feeBp = 0 => cost + FeeOn(m, cost) > budget
<1> DEFINE bp == m.feeBp
           left == CurveBudget(m, budget)
           fee == FeeOn(m, cost)
<1>1. bp \in Nat
  <2>1. bp \in 0 .. 1000
    BY FieldTypes
  <2> QED
    BY <2>1
<1>2. fee \in Nat
  BY FeeNat
<1> HIDE DEF bp
<1>3. budget * 10000 \in Nat /\ cost * bp \in Nat /\ 10000 + bp \in Nat \ {0}
  BY <1>1
<1>4. left \in Nat /\ budget * 10000 < (10000 + bp) * left + (10000 + bp)
  BY <1>3, DivBounds DEF CurveBudget, bp
<1>5. cost * bp < 10000 * fee + 10000
  BY <1>3, DivBounds DEF FeeOn, bp
<1>6. left + 1 <= cost
  <2>1. left < cost
    BY DEF left
  <2> QED
    BY <1>4, <2>1
<1> HIDE DEF fee, left
<1>7. (10000 + bp) * (left + 1) <= (10000 + bp) * cost
  <2>1. \A k, x, y \in Nat : x <= y => k * x <= k * y
    OBVIOUS
  <2>2. left + 1 \in Nat /\ 10000 + bp \in Nat
    BY <1>1, <1>4
  <2> QED
    BY <1>6, <2>1, <2>2
<1>8. /\ (10000 + bp) * cost = 10000 * cost + cost * bp
      /\ (10000 + bp) * (left + 1) = (10000 + bp) * left + (10000 + bp)
      /\ (10000 + bp) * left \in Nat
  BY <1>1, <1>4
<1>9. budget * 10000 < 10000 * cost + cost * bp
  BY <1>3, <1>4, <1>7, <1>8
<1>10. cost + fee >= budget
  BY <1>2, <1>3, <1>5, <1>9
<1>11. ASSUME bp = 0 PROVE cost + fee > budget
  <2>1. cost * bp = 0
    BY <1>11
  <2>2. budget < cost
    BY <1>9, <2>1
  <2> QED
    BY <1>2, <2>2
<1> QED
  BY <1>10, <1>11 DEF bp, fee

\* What a budget buys: what the cap allows and the budget, fee included, pays for,
\* and no more would leave it a sat.
LEMMA Purchase ==
  ASSUME NEW m \in Markets, Capped(m), NEW budget \in Nat,
         NEW n, n = TokensFor(m, budget)
  PROVE  /\ n \in Nat /\ n \in 0 .. m.curve.cap - m.supply
         /\ TotalPrice(m, n) \in Nat /\ TotalPrice(m, n) <= budget
         /\ \A more \in n + 1 .. m.curve.cap - m.supply :
              /\ TotalPrice(m, more) >= budget
              /\ m.feeBp = 0 => TotalPrice(m, more) > budget
<1> DEFINE left == CurveBudget(m, budget)
           room == m.curve.cap - m.supply
<1>1. m.curve \in ValidCurves /\ m.supply \in Nat /\ m.curve.cap \in Nat /\ m.feeBp \in Nat
  <2>1. m.feeBp \in 0 .. 1000
    BY FieldTypes
  <2>2. m.feeBp \in Nat
    BY <2>1
  <2>3. m.curve \in ValidCurves /\ m.supply \in Nat
    BY FieldTypes
  <2> QED
    BY <2>2, <2>3, CurveTypes
<1>2. left \in Nat
  <2>1. budget * 10000 \in Nat /\ 10000 + m.feeBp \in Nat \ {0}
    BY <1>1
  <2> QED
    BY <2>1, DivBounds DEF CurveBudget
<1>3. n = TokensForSats(m.curve, m.supply, left)
  BY DEF TokensFor
<1> HIDE DEF left
<1>4. /\ n \in 0 .. room /\ Cost(m, n) <= left
      /\ \A k \in n + 1 .. room : Cost(m, k) > left
  BY <1>1, <1>2, <1>3, LargestPurchase DEF Capped, Cost
<1>5. room \in Nat /\ n \in Nat
  BY <1>1, <1>4 DEF Capped
<1>6. Cost(m, n) \in Nat /\ FeeOn(m, Cost(m, n)) \in Nat
  BY <1>1, <1>5, CostBounds, FeeNat DEF Cost
<1>7. Cost(m, n) + FeeOn(m, Cost(m, n)) <= budget
  BY <1>4, <1>6, FeeWithinBudget DEF left
<1>8. ASSUME NEW more \in n + 1 .. room
      PROVE  /\ TotalPrice(m, more) >= budget
             /\ m.feeBp = 0 => TotalPrice(m, more) > budget
  <2>1. more \in Nat /\ Cost(m, more) > left
    BY <1>4, <1>5
  <2>2. Cost(m, more) \in Nat
    BY <1>1, <2>1, CostBounds DEF Cost
  <2> QED
    BY <2>1, <2>2, BeyondBudget DEF TotalPrice, left
<1> QED
  BY <1>4, <1>5, <1>6, <1>7, <1>8 DEF TotalPrice

\* A trade is counted, and takes no tokens out of custody.
Counted(m, after) == after.trades = m.trades + 1 /\ after.withdrawn = m.withdrawn

LEMMA BuySound ==
  ASSUME NEW m, Sound(m), NEW u \in Users, NEW budget \in Nat, m.trades < MaxTrades,
         m.status # "paused"
  PROVE  /\ Sound(Bought(m, u, TokensFor(m, budget)))
         /\ Counted(m, Bought(m, u, TokensFor(m, budget)))
<1> DEFINE n == TokensFor(m, budget)
           a == Bought(m, u, n)
           c == m.curve
<1>0. n \in Nat /\ n \in 0 .. c.cap - m.supply
  BY Purchase DEF Sound
<1> HIDE DEF n
<1>1. m \in Markets
  BY DEF Sound
<1>2. AfterTrade(m, m.supply + n, m.reserve + Cost(m, n), Plus(m.balance, u, n),
                 m.trades + 1, a)
  BY <1>0, <1>1, BoughtFields
<1> HIDE DEF a
<1>3. /\ c \in ValidCurves /\ m.supply \in Nat /\ m.reserve \in Nat /\ m.trades \in Nat
      /\ m.withdrawn \in Nat /\ m.balance \in [Users -> Nat]
  BY <1>1, FieldTypes
<1>4. Conserved(a)
  <2>1. Total(Plus(m.balance, u, n), Users) = Total(m.balance, Users) + n
    <3>1. n \in Nat /\ m.balance \in [Users -> Nat] /\ IsFiniteSet(Users)
      BY <1>0, <1>3, DeskAssumption
    <3> QED
      BY <3>1, TotalPlus
  <2>2. Total(m.balance, Users) \in Nat
    BY <1>3, DeskAssumption, TotalNat DEF Column
  <2>3. m.supply = Total(m.balance, Users) + m.withdrawn
    BY DEF Sound, Conserved
  <2> QED
    BY <1>0, <1>2, <1>3, <2>1, <2>2, <2>3 DEF AfterTrade, Conserved
<1>5. Covered(a) /\ Rounded(a)
  <2> DEFINE unit == Unit(c)
             cost == Cost(m, n)
             before == Area(c, 0, m.supply)
             more == Area(c, m.supply, m.supply + n)
  <2>1. Area(c, 0, m.supply + n) = before + more
    BY <1>0, <1>3, AreaAdds
  <2>2. before \in Nat /\ more \in Nat /\ unit \in Nat \ {0}
    BY <1>0, <1>3, AreaNat, CurveTypes
  <2>3. cost \in Nat /\ more <= unit * cost /\ unit * cost <= more + unit - 1
    BY <1>0, <1>3, CostBounds DEF Cost
  <2>4. unit * m.reserve >= before /\ unit * m.reserve <= before + (unit - 1) * m.trades
    BY DEF Sound, Covered, Rounded
  <2>5. a.curve = c /\ a.supply = m.supply + n /\ a.reserve = m.reserve + cost
        /\ a.trades = m.trades + 1
    BY <1>2 DEF AfterTrade
  <2>6. Unit(a.curve) = unit /\ Area(a.curve, 0, a.supply) = before + more
    BY <2>1, <2>5
  <2> HIDE DEF unit, cost, before, more
  <2>7. /\ unit * (m.reserve + cost) >= before + more
        /\ unit * (m.reserve + cost) <= (before + more) + (unit - 1) * (m.trades + 1)
    BY <1>3, <2>2, <2>3, <2>4, BuyPrices
  <2> QED
    BY <2>5, <2>6, <2>7 DEF Covered, Rounded
<1>6. a \in Markets /\ Closed(a)
  BY <1>2 DEF AfterTrade, Closed
<1>7. Capped(a)
  BY <1>0, <1>2, <1>3, CurveTypes DEF AfterTrade, Capped
<1> QED
  BY <1>2, <1>4, <1>5, <1>6, <1>7 DEF Sound, AfterTrade, Counted, a, n

\* A holder's tokens are in circulation.
LEMMA HoldingInSupply ==
  ASSUME NEW m, Sound(m), NEW u \in Users
  PROVE  m.balance[u] <= m.supply
<1>1. m.balance \in [Users -> Nat] /\ m.withdrawn \in Nat /\ m.balance[u] \in Nat
  BY FieldTypes DEF Sound
<1>2. Column(m.balance, Users)
  BY <1>1, DeskAssumption DEF Column
<1>3. Total(m.balance, {u}) <= Total(m.balance, Users)
  BY <1>2, TotalSubset
<1>4. Total(m.balance, {u}) = m.balance[u] /\ Total(m.balance, Users) \in Nat
  BY <1>1, <1>2, TotalOne, TotalNat
<1> QED
  BY <1>1, <1>3, <1>4 DEF Sound, Conserved

LEMMA SellSound ==
  ASSUME NEW m, Sound(m), NEW u \in Users, NEW n \in Nat, m.trades < MaxTrades,
         m.status # "paused", n <= m.balance[u], Refund(m, n) <= m.reserve
  PROVE  Sound(Sold(m, u, n)) /\ Counted(m, Sold(m, u, n))
<1> DEFINE a == Sold(m, u, n)
           c == m.curve
           rest == m.supply - n
<1>1. m \in Markets
  BY DEF Sound
<1>2. /\ c \in ValidCurves /\ m.supply \in Nat /\ m.reserve \in Nat /\ m.trades \in Nat
      /\ m.withdrawn \in Nat /\ m.balance \in [Users -> Nat]
  BY <1>1, FieldTypes
<1>3. n <= m.supply /\ rest \in Nat
  BY <1>2, HoldingInSupply
<1>4. AfterTrade(m, m.supply - n, m.reserve - Refund(m, n), Minus(m.balance, u, n),
                 m.trades + 1, a)
  BY <1>1, <1>3, SoldFields
<1> HIDE DEF a
<1>5. Conserved(a)
  <2>1. Total(Minus(m.balance, u, n), Users) = Total(m.balance, Users) - n
    BY <1>2, DeskAssumption, TotalMinus
  <2>2. Total(m.balance, Users) \in Nat
    BY <1>2, DeskAssumption, TotalNat DEF Column
  <2>3. m.supply = Total(m.balance, Users) + m.withdrawn
    BY DEF Sound, Conserved
  <2> QED
    BY <1>2, <1>4, <2>1, <2>2, <2>3 DEF AfterTrade, Conserved
<1>6. Covered(a) /\ Rounded(a)
  <2> DEFINE unit == Unit(c)
             refund == Refund(m, n)
             after == Area(c, 0, rest)
             less == Area(c, rest, m.supply)
  <2>1. Area(c, 0, m.supply) = after + less
    BY <1>2, <1>3, AreaAdds
  <2>2. after \in Nat /\ less \in Nat /\ unit \in Nat \ {0}
    BY <1>2, <1>3, AreaNat, CurveTypes
  <2>3. refund \in Nat /\ unit * refund <= less /\ less < unit * refund + unit
    BY <1>2, <1>3, RefundBounds DEF Refund
  <2>4. /\ unit * m.reserve >= after + less
        /\ unit * m.reserve <= (after + less) + (unit - 1) * m.trades
    BY <2>1 DEF Sound, Covered, Rounded
  <2>5. a.curve = c /\ a.supply = rest /\ a.reserve = m.reserve - refund
        /\ a.trades = m.trades + 1
    BY <1>4 DEF AfterTrade
  <2>6. Unit(a.curve) = unit /\ Area(a.curve, 0, a.supply) = after
    BY <2>5
  <2> HIDE DEF unit, refund, after, less
  <2>7. /\ unit * (m.reserve - refund) >= after
        /\ unit * (m.reserve - refund) <= after + (unit - 1) * (m.trades + 1)
    BY <1>2, <2>2, <2>3, <2>4, SellPrices
  <2> QED
    BY <2>5, <2>6, <2>7 DEF Covered, Rounded
<1>7. a \in Markets /\ Closed(a)
  BY <1>4 DEF AfterTrade, Closed
<1>8. Capped(a)
  <2>1. m.supply <= c.cap /\ c.cap \in Nat
    BY <1>2, CurveTypes DEF Sound, Capped
  <2> QED
    BY <1>2, <1>3, <1>4, <2>1 DEF AfterTrade, Capped
<1> QED
  BY <1>4, <1>5, <1>6, <1>7, <1>8 DEF Sound, AfterTrade, Counted, a

\* The reserve pays a sale of any size, and keeps what the rest would be sold for.
LEMMA SaleCovered ==
  ASSUME NEW m, Sound(m), NEW n \in Nat, n <= m.supply
  PROVE  /\ Refund(m, n) \in Nat /\ Refund(m, n) <= m.reserve
         /\ Refund(m, n) + ReserveAt(m.curve, m.supply - n) <= m.reserve
<1> DEFINE c == m.curve
           u == Unit(c)
           refund == Refund(m, n)
           kept == ReserveAt(c, m.supply - n)
           lower == Area(c, 0, m.supply - n)
           upper == Area(c, m.supply - n, m.supply)
<1>1. c \in ValidCurves /\ m.supply \in Nat /\ m.reserve \in Nat /\ m.supply - n \in Nat
  BY FieldTypes DEF Sound
<1>2. u \in Nat \ {0} /\ lower \in Nat /\ upper \in Nat
  BY <1>1, CurveTypes, AreaNat
<1>3. refund \in Nat /\ u * refund <= upper
  BY <1>1, RefundBounds DEF Refund
<1>4. kept \in Nat /\ u * kept <= lower
  BY <1>1, ReserveAtBounds
<1>5. lower + upper <= u * m.reserve
  <2>1. Area(c, 0, m.supply) = lower + upper
    BY <1>1, AreaAdds
  <2> QED
    BY <1>1, <1>2, <2>1 DEF Sound, Covered
<1> HIDE DEF u, refund, kept, lower, upper
<1>6. u * (refund + kept) = u * refund + u * kept
  BY <1>2, <1>3, <1>4
<1>7. u * refund \in Int /\ u * kept \in Int /\ u * m.reserve \in Int
  BY <1>1, <1>2, <1>3, <1>4
<1>8. u * (refund + kept) < u * m.reserve + u
  BY <1>2, <1>3, <1>4, <1>5, <1>6, <1>7
<1>9. refund + kept \in Int /\ m.reserve \in Int
  BY <1>1, <1>3, <1>4
<1>10. refund + kept <= m.reserve
  BY <1>2, <1>8, <1>9, Multiples
<1> QED
  BY <1>3, <1>4, <1>9, <1>10 DEF refund, kept

LEMMA WithdrawSound ==
  ASSUME NEW m, Sound(m), NEW u \in Users, NEW n \in Nat, n <= m.balance[u]
  PROVE  /\ Sound(Withdrawn(m, u, n))
         /\ Withdrawn(m, u, n).trades = m.trades
         /\ Withdrawn(m, u, n).withdrawn = m.withdrawn + n
<1> DEFINE a == Withdrawn(m, u, n)
           balance == Minus(m.balance, u, n)
           withdrawn == m.withdrawn + n
<1>1. /\ m \in Markets /\ m.withdrawn \in Nat /\ m.balance \in [Users -> Nat]
      /\ m.supply \in Nat
  BY FieldTypes DEF Sound
<1>2. balance \in [Users -> Nat] /\ withdrawn \in Nat
  BY <1>1 DEF Minus
<1>3. a = [m EXCEPT !.balance = balance, !.withdrawn = withdrawn]
  BY DEF Withdrawn
<1> HIDE DEF balance, withdrawn
<1>4. /\ a \in Markets
      /\ a.curve = m.curve /\ a.supply = m.supply /\ a.reserve = m.reserve
      /\ a.trades = m.trades /\ a.status = m.status
      /\ a.balance = balance /\ a.withdrawn = withdrawn
  BY <1>1, <1>2, <1>3 DEF Markets
<1> HIDE DEF a
<1>5. Conserved(a)
  <2>1. Total(Minus(m.balance, u, n), Users) = Total(m.balance, Users) - n
    BY <1>1, DeskAssumption, TotalMinus
  <2>2. Total(m.balance, Users) \in Nat
    BY <1>1, DeskAssumption, TotalNat DEF Column
  <2>3. m.supply = Total(m.balance, Users) + m.withdrawn
    BY DEF Sound, Conserved
  <2> QED
    BY <1>1, <1>4, <2>1, <2>2, <2>3 DEF Conserved, balance, withdrawn
<1>6. Covered(a) /\ Rounded(a) /\ Closed(a) /\ Capped(a)
  BY <1>4 DEF Sound, Covered, Rounded, Closed, Capped
<1> QED
  BY <1>4, <1>5, <1>6 DEF Sound, a, withdrawn

LEMMA PauseSound ==
  ASSUME NEW m, Sound(m), m.status # "migrated", NEW st \in {"trading", "paused"},
         NEW a, a = [m EXCEPT !.status = st]
  PROVE  Sound(a) /\ a.trades = m.trades /\ a.withdrawn = m.withdrawn
<1>1. a \in Markets /\ SameButStatus(a, m)
  BY DEF Sound, Markets, SameButStatus
<1>2. Sound(a)
  BY <1>1 DEF Sound, Conserved, Covered, Rounded, Closed, Capped, SameButStatus
<1> QED
  BY <1>1, <1>2 DEF SameButStatus

\* A market opens empty, below its threshold.
LEMMA OpenSound ==
  ASSUME NEW c \in Curves, NEW bp \in FeeRates
  PROVE  /\ Sound(Opened(c, bp))
         /\ Opened(c, bp).status = "trading"
         /\ Opened(c, bp).trades = 0 /\ Opened(c, bp).withdrawn = 0
<1> DEFINE a == Opened(c, bp)
<1>1. /\ a \in Markets /\ a.curve = c /\ a.supply = 0 /\ a.reserve = 0 /\ a.withdrawn = 0
      /\ a.trades = 0 /\ a.status = "trading" /\ \A u \in Users : a.balance[u] = 0
  BY DeskAssumption DEF Opened, Markets
<1> HIDE DEF a
<1>2. c \in ValidCurves /\ Unit(c) \in Nat \ {0}
  BY DeskAssumption, CurveTypes
<1>3. Area(c, 0, 0) = 0
  BY <1>2, CurveTypes DEF Area
<1>4. Conserved(a)
  <2>1. \A u \in Users : UnitsOf(a.balance, u) = {}
    BY <1>1 DEF UnitsOf
  <2>2. Units(a.balance, Users) = {}
    BY <2>1 DEF Units
  <2>3. Total(a.balance, Users) = 0
    BY <2>2, FS_EmptySet DEF Total
  <2> QED
    BY <1>1, <2>3 DEF Conserved
<1>5. Covered(a) /\ Rounded(a)
  BY <1>1, <1>2, <1>3 DEF Covered, Rounded
<1>6. Closed(a)
  <2>1. ReserveAt(c, 0) = 0
    BY <1>2, <1>3 DEF ReserveAt
  <2> QED
    BY <1>1, <1>2, <2>1, CurveTypes DEF Closed, Migratable
<1>7. Capped(a)
  BY <1>1, <1>2, CurveTypes DEF Capped
<1> QED
  BY <1>1, <1>4, <1>5, <1>6, <1>7 DEF Sound, a

----------------------------------------------------------------------------
(* The invariant of the specification *)

\* The inductive invariant: what the theorems state, together.
IInv == Sound(market)

LEMMA InitSound == Init => Sound(market)
<1> SUFFICES ASSUME NEW c \in Curves, NEW bp \in FeeRates, NEW creator \in Users,
                    NEW seed \in Seeds,
                    \/ market = Opened(c, bp)
                    \/ market = Bought(Opened(c, bp), creator, TokensFor(Opened(c, bp), seed))
             PROVE  Sound(market)
  BY DEF Init, Create
<1> DEFINE a == Opened(c, bp)
<1>1. Sound(a) /\ a.trades < MaxTrades /\ a.status # "paused" /\ seed \in Nat
  BY OpenSound, DeskAssumption
<1> HIDE DEF a
<1>2. Sound(Bought(a, creator, TokensFor(a, seed)))
  BY <1>1, BuySound
<1> QED
  BY <1>1, <1>2 DEF a

LEMMA StepSound == Sound(market) /\ [Next]_market => Sound(market')
<1> SUFFICES ASSUME Sound(market), [Next]_market
             PROVE  Sound(market')
  OBVIOUS
<1>0. market.curve \in ValidCurves /\ market.supply \in Nat
  BY FieldTypes DEF Sound
<1>1. ASSUME NEW u \in Users, NEW budget \in Budgets, Buy(u, budget)
      PROVE  Sound(market')
  <2>1. market' = Bought(market, u, TokensFor(market, budget)) /\ budget \in Nat
    BY <1>1, DeskAssumption DEF Buy
  <2>2. market.trades < MaxTrades /\ market.status # "paused"
    BY <1>1 DEF Buy, CanBuy
  <2> QED
    BY <2>1, <2>2, BuySound
<1>2. ASSUME NEW u \in Users, NEW n \in 1 .. market.supply, Sell(u, n)
      PROVE  Sound(market')
  <2>1. n \in Nat /\ market.balance[u] \in Nat
    BY <1>0, FieldTypes DEF Sound
  <2>2. /\ market.trades < MaxTrades /\ market.status # "paused"
        /\ n <= market.balance[u] /\ Refund(market, n) <= market.reserve
    BY <1>2, <2>1 DEF Sell, CanSell
  <2>3. market' = Sold(market, u, n)
    BY <1>2 DEF Sell
  <2> QED
    BY <2>1, <2>2, <2>3, SellSound
<1>3. ASSUME NEW u \in Users, NEW n \in 1 .. market.supply, Withdraw(u, n)
      PROVE  Sound(market')
  <2>1. n \in Nat /\ market.balance[u] \in Nat
    BY <1>0, FieldTypes DEF Sound
  <2>2. n <= market.balance[u] /\ market' = Withdrawn(market, u, n)
    BY <1>3, <2>1 DEF Withdraw
  <2> QED
    BY <2>1, <2>2, WithdrawSound
<1>4. ASSUME NEW paused \in BOOLEAN, SetPaused(paused)
      PROVE  Sound(market')
  BY <1>4, PauseSound DEF SetPaused
<1>5. CASE UNCHANGED market
  BY <1>5
<1> QED
  BY <1>1, <1>2, <1>3, <1>4, <1>5 DEF Next

LEMMA IInvHolds == Spec => []IInv
<1>1. Init => IInv
  BY InitSound DEF IInv
<1>2. IInv /\ [Next]_market => IInv'
  BY StepSound DEF IInv
<1> QED
  BY <1>1, <1>2, PTL DEF Spec

----------------------------------------------------------------------------
(* The theorems *)

\* Every market that trading can reach has the fields and ranges of the struct.
THEOREM DeskTypeCorrect == Spec => []TypeOK
<1>1. IInv => TypeOK
  BY DEF IInv, Sound, TypeOK
<1> QED
  BY <1>1, IInvHolds, PTL

\* Tokens in circulation are on the ledger or have been withdrawn (desk.rs 19-20, 154-157).
THEOREM LedgerHolds == Spec => []LedgerConserved
<1>1. IInv => LedgerConserved
  BY DEF IInv, Sound, Conserved, LedgerConserved
<1> QED
  BY <1>1, IInvHolds, PTL

\* The reserve never falls below the area under the curve, whatever the sizes and
\* the order of the trades (desk.rs 15-18).
THEOREM ReserveHolds == Spec => []ReserveCoversSupply
<1>1. IInv => ReserveCoversSupply
  BY DEF IInv, Sound, Covered, ReserveCoversSupply
<1> QED
  BY <1>1, IInvHolds, PTL

\* What rounding has added to the reserve is less than a sat per trade.
THEOREM RoundingHolds == Spec => []RoundingBounded
<1>1. IInv => RoundingBounded
  BY DEF IInv, Sound, Rounded, RoundingBounded
<1> QED
  BY <1>1, IInvHolds, PTL

\* A market at its threshold does not trade on, paused and resumed or not.
THEOREM ThresholdHolds == Spec => []ThresholdCloses
<1>1. IInv => ThresholdCloses
  BY DEF IInv, Sound, Closed, ThresholdCloses
<1> QED
  BY <1>1, IInvHolds, PTL

\* Sold back in one sale or two, what is in circulation is paid from the reserve:
\* ReserveUnderflow is never returned (desk.rs 49-52).
THEOREM SalesCovered == Spec => []EverySaleCovered
<1>1. IInv => EverySaleCovered
  <2> SUFFICES ASSUME IInv, NEW n \in 1 .. market.supply
               PROVE  Refund(market, n) + ReserveAt(market.curve, market.supply - n)
                        <= market.reserve
    BY DEF EverySaleCovered
  <2>1. market.supply \in Nat
    BY FieldTypes DEF IInv, Sound
  <2>2. n \in Nat /\ n <= market.supply
    BY <2>1
  <2> QED
    BY <2>2, SaleCovered DEF IInv
<1> QED
  BY <1>1, IInvHolds, PTL

\* At every supply that trading reaches, a round trip gains nothing and loses a
\* sat at most, and a purchase split in two costs no less.
THEOREM RoundTripsLose == Spec => []RoundTripLoses
<1>1. IInv => RoundTripLoses
  <2> SUFFICES ASSUME IInv, NEW n \in 1 .. market.curve.cap - market.supply
               PROVE  /\ RefundToSell(market.curve, market.supply + n, n)
                            \in {Cost(market, n) - 1, Cost(market, n)}
                      /\ \A i \in 1 .. n :
                           Cost(market, n)
                             <= Cost(market, i) + CostToBuy(market.curve, market.supply + i, n - i)
    BY DEF RoundTripLoses
  <2>1. market.curve \in ValidCurves /\ market.supply \in Nat
    BY FieldTypes DEF IInv, Sound
  <2>2. n \in Nat /\ 1 .. n \subseteq 0 .. n
    BY <2>1, CurveTypes
  <2> QED
    BY <2>1, <2>2, RoundTrip, PartsCostMore DEF Cost
<1> QED
  BY <1>1, IInvHolds, PTL

\* The price quoted for n tokens, brought back as a budget, leaves the curve what
\* the tokens cost or a sat less: it has the fee taken out twice
\* (desk_listener.rs 223-229, 284-289).
THEOREM QuoteWithinASat ==
  ASSUME NEW m \in Markets, NEW n \in Nat
  PROVE  CurveBudget(m, TotalPrice(m, n)) \in {Cost(m, n) - 1, Cost(m, n)}
<1> DEFINE cost == Cost(m, n)
           fee == FeeOn(m, cost)
           bp == m.feeBp
           left == CurveBudget(m, cost + fee)
<1>1. cost \in Nat /\ fee \in Nat
  BY FieldTypes, CostBounds, FeeNat DEF Cost
<1>2. bp \in Nat
  <2>1. bp \in 0 .. 1000
    BY FieldTypes
  <2> QED
    BY <2>1
<1> HIDE DEF cost, bp
<1>3. cost * bp \in Nat /\ (cost + fee) * 10000 \in Nat /\ 10000 + bp \in Nat \ {0}
  BY <1>1, <1>2
<1>4. 10000 * fee <= cost * bp /\ cost * bp < 10000 * fee + 10000
  BY <1>3 DEF FeeOn, bp
<1>5. /\ left \in Nat
      /\ (10000 + bp) * left <= (cost + fee) * 10000
      /\ (cost + fee) * 10000 < (10000 + bp) * left + (10000 + bp)
  BY <1>3, DivBounds DEF CurveBudget, bp
<1> HIDE DEF fee, left
<1>6. (10000 + bp) * cost = 10000 * cost + cost * bp
  BY <1>1, <1>2
<1>7. (10000 + bp) * (cost - 1) = 10000 * cost + cost * bp - (10000 + bp)
  BY <1>1, <1>2
<1>8. (10000 + bp) * left \in Nat
  BY <1>3, <1>5
<1>9. left <= cost
  <2>1. (10000 + bp) * left < (10000 + bp) * cost + (10000 + bp)
    BY <1>1, <1>2, <1>3, <1>4, <1>5, <1>6, <1>8
  <2> QED
    BY <1>1, <1>3, <1>5, <2>1, Multiples
<1>10. cost - 1 <= left
  <2>1. (10000 + bp) * (cost - 1) < (10000 + bp) * left + (10000 + bp)
    BY <1>1, <1>2, <1>3, <1>4, <1>5, <1>7, <1>8
  <2>2. cost - 1 \in Int
    BY <1>1
  <2> QED
    BY <1>1, <1>3, <1>5, <2>1, <2>2, Multiples
<1>11. left = cost \/ left = cost - 1
  BY <1>1, <1>5, <1>9, <1>10
<1> QED
  BY <1>11 DEF TotalPrice, left, fee, cost

\* A purchase is within its budget, fee included; more would take the budget to the
\* last sat, or exceed it; and a quote is bought for its price to a sat, at every
\* supply that trading reaches (curve.rs 223-226, desk.rs 183-190,
\* desk_listener.rs 284-289).
THEOREM BudgetsAreHonoured == Spec => []BudgetsHonoured
<1>1. IInv => BudgetsHonoured
  <2> SUFFICES ASSUME IInv, NEW budget \in Budgets
               PROVE  LET n == TokensFor(market, budget)
                          room == market.curve.cap - market.supply
                          cost == Cost(market, n)
                      IN /\ n \in 0 .. room /\ TotalPrice(market, n) <= budget
                         /\ \A more \in n + 1 .. room :
                              /\ TotalPrice(market, more) >= budget
                              /\ market.feeBp = 0 => TotalPrice(market, more) > budget
                         /\ CurveBudget(market, TotalPrice(market, n)) \in {cost - 1, cost}
    BY DEF BudgetsHonoured, PurchaseLargest, Beyond, QuoteWithinOneSat
  <2> DEFINE n == TokensFor(market, budget)
  <2>1. market \in Markets /\ Capped(market) /\ budget \in Nat
    BY DeskAssumption DEF IInv, Sound
  <2>2. /\ n \in Nat /\ n \in 0 .. market.curve.cap - market.supply
        /\ TotalPrice(market, n) <= budget
        /\ \A more \in n + 1 .. market.curve.cap - market.supply :
             /\ TotalPrice(market, more) >= budget
             /\ market.feeBp = 0 => TotalPrice(market, more) > budget
    BY <2>1, Purchase
  <2> HIDE DEF n
  <2>3. CurveBudget(market, TotalPrice(market, n)) \in {Cost(market, n) - 1, Cost(market, n)}
    BY <2>1, <2>2, QuoteWithinASat
  <2> QED
    BY <2>2, <2>3 DEF n
<1> QED
  BY <1>1, IInvHolds, PTL
=============================================================================
