-------------------------- MODULE UnitSums_proofs --------------------------
(***************************************************************************)
(* Facts about the totals of UnitSums: a total is a natural number, it is  *)
(* additive over disjoint sets, it depends on f inside the set only, and   *)
(* it follows an update of f at one point.                                 *)
(***************************************************************************)
EXTENDS UnitSums, FiniteSetTheorems, TLAPS

\* f is a column of amounts for the keys in S.
Column(f, S) == IsFiniteSet(S) /\ \A s \in S : f[s] \in Nat

\* A key with amount n has n units.
LEMMA UnitsOfOne ==
  ASSUME NEW f, NEW s, f[s] \in Nat
  PROVE  IsFiniteSet(UnitsOf(f, s)) /\ Cardinality(UnitsOf(f, s)) = f[s]
<1>1. IsFiniteSet({s}) /\ Cardinality({s}) = 1
  BY FS_Singleton
<1>2. IsFiniteSet(1 .. f[s]) /\ Cardinality(1 .. f[s]) = f[s]
  BY FS_Interval
<1>3. /\ IsFiniteSet({s} \X (1 .. f[s]))
      /\ Cardinality({s} \X (1 .. f[s])) = 1 * f[s]
  BY <1>1, <1>2, FS_Product
<1> QED
  BY <1>3 DEF UnitsOf

\* A ledger has finitely many units and a natural total.
LEMMA TotalNat ==
  ASSUME NEW f, NEW S, Column(f, S)
  PROVE  IsFiniteSet(Units(f, S)) /\ Total(f, S) \in Nat
<1> DEFINE T == {UnitsOf(f, s) : s \in S}
           g == [s \in S |-> UnitsOf(f, s)]
<1>1. g \in Surjection(S, T)
  BY DEF Surjection
<1>2. IsFiniteSet(T)
  BY <1>1, FS_Surjection DEF Column
<1>3. \A U \in T : IsFiniteSet(U)
  BY UnitsOfOne DEF Column
<1>4. IsFiniteSet(UNION T)
  BY <1>2, <1>3, FS_UNION
<1> QED
  BY <1>4, FS_CardinalityType DEF Units, Total

\* A total over two disjoint sets of keys is the sum of their totals.
LEMMA TotalSplit ==
  ASSUME NEW f, NEW A, NEW B, Column(f, A), Column(f, B), A \cap B = {}
  PROVE  Total(f, A \cup B) = Total(f, A) + Total(f, B)
<1>1. Units(f, A \cup B) = Units(f, A) \cup Units(f, B)
  BY DEF Units
<1>2. Units(f, A) \cap Units(f, B) = {}
  <2>1. \A S, u : u \in Units(f, S) => u[1] \in S
    BY DEF Units, UnitsOf
  <2> QED
    BY <2>1
<1>3. IsFiniteSet(Units(f, A)) /\ IsFiniteSet(Units(f, B))
  BY TotalNat
<1>4. Cardinality(Units(f, A) \cup Units(f, B)) =
        Cardinality(Units(f, A)) + Cardinality(Units(f, B)) - Cardinality({})
  BY <1>2, <1>3, FS_Union
<1>5. Cardinality({}) = 0
  BY FS_EmptySet
<1>6. Total(f, A) \in Nat /\ Total(f, B) \in Nat
  BY TotalNat
<1>7. Total(f, A \cup B) = Total(f, A) + Total(f, B) - 0
  BY <1>1, <1>4, <1>5 DEF Total
<1> QED
  BY <1>6, <1>7

\* No key, no units; one key, its amount.
LEMMA TotalEmpty == \A f : Total(f, {}) = 0
  BY FS_EmptySet DEF Total, Units

LEMMA TotalOne ==
  ASSUME NEW f, NEW s, f[s] \in Nat
  PROVE  Total(f, {s}) = f[s]
<1>1. Units(f, {s}) = UnitsOf(f, s)
  BY DEF Units
<1> QED
  BY <1>1, UnitsOfOne DEF Total

\* A total looks at the amounts of its own keys only.
LEMMA TotalSame ==
  ASSUME NEW f, NEW g, NEW S, \A s \in S : f[s] = g[s]
  PROVE  Total(f, S) = Total(g, S)
<1>1. \A s \in S : UnitsOf(f, s) = UnitsOf(g, s)
  BY DEF UnitsOf
<1>2. Units(f, S) = Units(g, S)
  BY <1>1 DEF Units
<1> QED
  BY <1>2 DEF Total

\* A key that joins the set brings its amount.
LEMMA TotalInsert ==
  ASSUME NEW f, NEW S, NEW x, Column(f, S), f[x] \in Nat, x \notin S
  PROVE  Total(f, S \cup {x}) = Total(f, S) + f[x]
<1>1. Column(f, {x})
  BY FS_Singleton DEF Column
<1>2. Total(f, S \cup {x}) = Total(f, S) + Total(f, {x})
  BY <1>1, TotalSplit
<1> QED
  BY <1>2, TotalOne

\* A key that leaves the set takes its amount with it.
LEMMA TotalRemove ==
  ASSUME NEW f, NEW S, NEW x \in S, Column(f, S)
  PROVE  /\ Column(f, S \ {x})
         /\ Total(f, S \ {x}) = Total(f, S) - f[x]
<1>1. Column(f, S \ {x})
  BY FS_RemoveElement DEF Column
<1>2. S = (S \ {x}) \cup {x}
  OBVIOUS
<1>3. Total(f, S) = Total(f, S \ {x}) + f[x]
  BY <1>1, <1>2, TotalInsert DEF Column
<1>4. Total(f, S \ {x}) \in Nat /\ f[x] \in Nat
  BY <1>1, TotalNat DEF Column
<1> QED
  BY <1>1, <1>3, <1>4

\* Fewer keys, no larger a total.
LEMMA TotalSubset ==
  ASSUME NEW f, NEW S, NEW T \in SUBSET S, Column(f, S)
  PROVE  Column(f, T) /\ Total(f, T) <= Total(f, S)
<1>1. Units(f, T) \in SUBSET Units(f, S)
  BY DEF Units
<1>2. Column(f, T)
  BY FS_Subset DEF Column
<1> QED
  BY <1>1, <1>2, TotalNat, FS_Subset DEF Total

\* Crediting one key credits the total.
LEMMA TotalPlus ==
  ASSUME NEW S, NEW f \in [S -> Nat], IsFiniteSet(S), NEW x \in S, NEW n \in Nat
  PROVE  /\ Plus(f, x, n) \in [S -> Nat]
         /\ Total(Plus(f, x, n), S) = Total(f, S) + n
<1> DEFINE g == Plus(f, x, n)
           R == S \ {x}
<1>1. g \in [S -> Nat] /\ g[x] = f[x] + n /\ \A s \in R : g[s] = f[s]
  BY DEF Plus
<1>2. Column(f, S) /\ Column(g, S)
  BY <1>1 DEF Column
<1>3. Total(g, R) = Total(f, R)
  BY <1>1, TotalSame
<1>4. Total(f, R) = Total(f, S) - f[x]
  BY <1>2, TotalRemove
<1>5. Total(g, R) = Total(g, S) - g[x]
  BY <1>2, TotalRemove
<1>6. Total(f, S) \in Nat /\ Total(g, S) \in Nat /\ f[x] \in Nat
  BY <1>2, TotalNat
<1> HIDE DEF g, R
<1>7. Total(g, S) = Total(f, S) + n
  BY <1>1, <1>3, <1>4, <1>5, <1>6
<1> QED
  BY <1>1, <1>7 DEF g

\* Debiting one key that has the amount debits the total.
LEMMA TotalMinus ==
  ASSUME NEW S, NEW f \in [S -> Nat], IsFiniteSet(S), NEW x \in S, NEW n \in Nat,
         f[x] >= n
  PROVE  /\ Minus(f, x, n) \in [S -> Nat]
         /\ Total(Minus(f, x, n), S) = Total(f, S) - n
<1> DEFINE g == Minus(f, x, n)
<1>1. g \in [S -> Nat] /\ g[x] = f[x] - n /\ \A s \in S \ {x} : g[s] = f[s]
  BY DEF Minus
<1> HIDE DEF g
<1>2. Plus(g, x, n) = f
  BY <1>1 DEF Plus
<1>3. Total(Plus(g, x, n), S) = Total(g, S) + n
  BY <1>1, TotalPlus
<1>4. Total(g, S) \in Nat
  BY <1>1, TotalNat DEF Column
<1>5. Total(g, S) = Total(f, S) - n
  BY <1>2, <1>3, <1>4
<1> QED
  BY <1>1, <1>5 DEF g
=============================================================================
