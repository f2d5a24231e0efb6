------------------------------ MODULE UnitSums ------------------------------
(***************************************************************************)
(* Totals of a ledger column.  SQLite computes them with SUM(amount); here *)
(* an amount n held by s is the set of units {<<s, 1>>, ..., <<s, n>>} and *)
(* a total is the number of units.  Adding and removing units is then      *)
(* adding and removing elements of a finite set, so the facts about totals *)
(* that the proofs need follow from those about Cardinality.               *)
(***************************************************************************)
EXTENDS Integers, FiniteSets

\* The units of s alone, and those of every member of S.
UnitsOf(f, s) == {s} \X (1 .. f[s])
Units(f, S) == UNION {UnitsOf(f, s) : s \in S}

\* The sum of f[s] over the members s of S.
Total(f, S) == Cardinality(Units(f, S))

\* f with n more, or n fewer, at x.
Plus(f, x, n) == [f EXCEPT ![x] = @ + n]
Minus(f, x, n) == [f EXCEPT ![x] = @ - n]
=============================================================================
