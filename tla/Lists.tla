-------------------------------- MODULE Lists --------------------------------
(***************************************************************************)
(* Orders, subsequences and sums, defined without recursion: an element's  *)
(* place is the number of elements before it, and a sum counts its units.  *)
(* The provers can expand these, unlike SortSeq, SelectSeq and the folds.  *)
(***************************************************************************)
EXTENDS Naturals, FiniteSets

\* The elements of S in the strict order R, a set of pairs.
InOrder(S, R) ==
  [n \in 1 .. Cardinality(S) |->
     CHOOSE x \in S : Cardinality({y \in S : <<y, x>> \in R}) = n - 1]

Ascending(I) == InOrder(I, {p \in I \X I : p[1] < p[2]})

\* The elements of sequence s at the places in I, in their order.
Pick(s, I) == LET at == Ascending(I) IN [n \in DOMAIN at |-> s[at[n]]]

\* The sum of the naturals f[x], for x in the finite set S.
SumOver(f, S) == Cardinality(UNION {{x} \X (1 .. f[x]) : x \in S})
=============================================================================
