----------------------------- MODULE ListsProofs -----------------------------
(***************************************************************************)
(* What the definitions of Lists promise.                                  *)
(***************************************************************************)
EXTENDS Lists, Integers, Sequences, FiniteSetsExt, FiniteSetTheorems, FunctionTheorems, SequenceTheorems,
        WellFoundedInduction, TLAPS

\* A set of naturals that is not empty has a least element.
LEMMA LeastNatural ==
  ASSUME NEW T \in SUBSET Nat, T # {}
  PROVE  \E n \in T : \A m \in T : n <= m
<1> DEFINE R == {ss \in Nat \X Nat : ss[1] < ss[2]}
<1>1. IsWellFoundedOn(R, Nat)
  BY NatLessThanWellFounded DEF OpToRel
<1>2. \E n \in T : \A m \in T : ~ (<<m, n>> \in R)
  BY <1>1, WFMin
<1>3. \A m, n \in T : <<m, n>> \in R <=> m < n
  OBVIOUS
<1> HIDE DEF R
<1>4. PICK n \in T : \A m \in T : ~ (m < n)
  BY <1>2, <1>3
<1> QED BY <1>4

\* R orders S strictly and totally.
Orders(R, S) ==
  /\ \A x, y \in S : x # y => <<x, y>> \in R \/ <<y, x>> \in R
  /\ \A x, y \in S : <<x, y>> \in R => <<y, x>> \notin R
  /\ \A x, y, z \in S : <<x, y>> \in R /\ <<y, z>> \in R => <<x, z>> \in R

\* How many elements of S are before x.
Preceding(S, R, x) == Cardinality({y \in S : <<y, x>> \in R})

\* What Max and Min choose.
LEMMA Largest ==
  ASSUME NEW N \in Nat, NEW S \in SUBSET (0 .. N), S # {}
  PROVE  Max(S) \in S /\ \A k \in S : k <= Max(S)
<1> DEFINE D == {N - n : n \in S}
<1>1. D \in SUBSET Nat /\ D # {}
  <2>1. \A n \in S : n \in 0 .. N
    OBVIOUS
  <2>2. \A n \in S : N - n \in Nat
    BY <2>1
  <2> QED BY <2>2
<1>2. PICK d \in D : \A k \in D : d <= k
  BY <1>1, LeastNatural
<1>3. PICK n \in S : d = N - n
  BY <1>2
<1>4. \A k \in S : k <= n
  <2> SUFFICES ASSUME NEW k \in S PROVE k <= n
    OBVIOUS
  <2>1. N - k \in D /\ k \in 0 .. N /\ n \in 0 .. N
    OBVIOUS
  <2>2. d <= N - k
    BY <1>2, <2>1
  <2> QED BY <1>3, <2>1, <2>2
<1> QED BY <1>3, <1>4 DEF Max

LEMMA Smallest ==
  ASSUME NEW S \in SUBSET Nat, S # {}
  PROVE  Min(S) \in S /\ \A k \in S : Min(S) <= k
<1>1. PICK n \in S : \A k \in S : n <= k
  BY LeastNatural
<1> QED BY <1>1 DEF Min

\* f starts at a, and G gives each value from the one before it.
Iteration(f, N, T, a, G) ==
  f \in [0 .. N -> T] /\ f[0] = a /\ \A n \in 1 .. N : f[n] = G[<<n, f[n - 1]>>]

\* A recursion over 1 .. N has a solution.
LEMMA Iterates ==
  ASSUME NEW N \in Nat, NEW T, NEW a \in T, NEW G \in [(1 .. N) \X T -> T]
  PROVE  \E f : Iteration(f, N, T, a, G)
<1> DEFINE Solved(m) == \E f \in [0 .. m -> T] : f[0] = a /\ \A n \in 1 .. m : f[n] = G[<<n, f[n - 1]>>]
           Open == {m \in 0 .. N : ~Solved(m)}
<1>1. SUFFICES ASSUME Open # {} PROVE FALSE
  <2>1. N \in 0 .. N
    OBVIOUS
  <2>2. Solved(N) => \E f : Iteration(f, N, T, a, G)
    BY DEF Iteration
  <2> HIDE DEF Solved
  <2> QED BY <2>1, <2>2
<1>2. Open \in SUBSET Nat
  OBVIOUS
<1> HIDE DEF Open
<1>3. PICK m \in Open : \A k \in Open : m <= k
  BY <1>1, <1>2, LeastNatural
<1>4. m \in 0 .. N /\ ~Solved(m) /\ m \in Nat
  BY <1>2, <1>3 DEF Open
<1>5. CASE m = 0
  <2> DEFINE f == [n \in 0 .. 0 |-> a]
  <2>1. f \in [0 .. 0 -> T] /\ f[0] = a /\ \A n \in 1 .. 0 : f[n] = G[<<n, f[n - 1]>>]
    OBVIOUS
  <2>2. Solved(0)
    BY <2>1
  <2> HIDE DEF Solved
  <2> QED BY <1>4, <1>5, <2>2
<1>6. CASE m # 0
  <2>1. m - 1 \in 0 .. N /\ m - 1 \notin Open
    BY <1>2, <1>3, <1>4, <1>6
  <2>2. Solved(m - 1)
    BY <2>1 DEF Open
  <2>3. PICK g \in [0 .. m - 1 -> T] : g[0] = a /\ \A n \in 1 .. m - 1 : g[n] = G[<<n, g[n - 1]>>]
    BY <2>2
  <2>4. m - 1 \in 0 .. m - 1 /\ g[m - 1] \in T /\ m \in 1 .. N
    BY <1>4, <1>6, <2>3
  <2>5. G[<<m, g[m - 1]>>] \in T
    BY <2>4
  <2> DEFINE f == [n \in 0 .. m |-> IF n = m THEN G[<<m, g[m - 1]>>] ELSE g[n]]
  <2>6. \A n \in 0 .. m : n = m \/ n \in 0 .. m - 1
    BY <1>4
  <2>7. f \in [0 .. m -> T] /\ f[0] = a
    BY <1>4, <1>6, <2>3, <2>5, <2>6
  <2>8. ASSUME NEW n \in 1 .. m PROVE f[n] = G[<<n, f[n - 1]>>]
    <3>1. n \in 0 .. m /\ n - 1 \in 0 .. m /\ n - 1 # m
      BY <1>4
    <3>2. CASE n = m
      BY <3>1, <3>2
    <3>3. CASE n # m
      <4>1. n \in 1 .. m - 1
        BY <1>4, <3>3
      <4> QED BY <2>3, <3>1, <3>3, <4>1
    <3> QED BY <3>2, <3>3
  <2> HIDE DEF f
  <2>9. Solved(m)
    BY <2>7, <2>8
  <2> HIDE DEF Solved
  <2> QED BY <1>4, <2>9
<1> QED BY <1>5, <1>6

\* The place of an element says how it compares.
LEMMA PrecedingCompares ==
  ASSUME NEW S, IsFiniteSet(S), NEW R, Orders(R, S), NEW x \in S
  PROVE  /\ Preceding(S, R, x) \in 0 .. Cardinality(S) - 1
         /\ \A y \in S : <<x, y>> \in R <=> Preceding(S, R, x) < Preceding(S, R, y)
<1> DEFINE Less(z) == {y \in S : <<y, z>> \in R}
<1>1. \A z \in S : /\ IsFiniteSet(Less(z)) /\ Cardinality(Less(z)) \in Nat
                   /\ Cardinality(Less(z)) < Cardinality(S)
  <2> SUFFICES ASSUME NEW z \in S
               PROVE  /\ IsFiniteSet(Less(z)) /\ Cardinality(Less(z)) \in Nat
                      /\ Cardinality(Less(z)) < Cardinality(S)
    OBVIOUS
  <2>1. Less(z) \in SUBSET S /\ z \notin Less(z) /\ Less(z) # S
    BY DEF Orders
  <2>2. IsFiniteSet(Less(z)) /\ Cardinality(Less(z)) <= Cardinality(S)
        /\ Cardinality(S) # Cardinality(Less(z))
    BY <2>1, FS_Subset
  <2> QED BY <2>2, FS_CardinalityType
<1>2. \A y, z \in S : <<y, z>> \in R => Cardinality(Less(y)) < Cardinality(Less(z))
  <2> SUFFICES ASSUME NEW y \in S, NEW z \in S, <<y, z>> \in R
               PROVE  Cardinality(Less(y)) < Cardinality(Less(z))
    OBVIOUS
  <2>1. Less(y) \in SUBSET Less(z) /\ y \in Less(z) /\ y \notin Less(y)
    BY DEF Orders
  <2>2. Cardinality(Less(y)) <= Cardinality(Less(z)) /\ Cardinality(Less(y)) # Cardinality(Less(z))
    BY <1>1, <2>1, FS_Subset
  <2> QED BY <1>1, <2>2
<1>3. Cardinality(S) \in Nat
  BY FS_CardinalityType
<1>4. ASSUME NEW y \in S, Cardinality(Less(x)) < Cardinality(Less(y)) PROVE <<x, y>> \in R
  <2>1. CASE x = y
    BY <1>1, <1>4, <2>1
  <2>2. CASE <<y, x>> \in R
    <3>1. Cardinality(Less(y)) < Cardinality(Less(x))
      BY <1>2, <2>2
    <3> QED BY <1>1, <1>4, <3>1, SMTT(30)
  <2> QED BY <2>1, <2>2 DEF Orders
<1>5. Preceding(S, R, x) = Cardinality(Less(x)) /\ \A y \in S : Preceding(S, R, y) = Cardinality(Less(y))
  BY DEF Preceding
<1> HIDE DEF Less
<1>6. Cardinality(Less(x)) \in 0 .. Cardinality(S) - 1
  BY <1>1, <1>3
<1> QED BY <1>2, <1>4, <1>5, <1>6

\* InOrder lists every element once, in the order R.
LEMMA InOrderSorts ==
  ASSUME NEW S, IsFiniteSet(S), NEW R, Orders(R, S)
  PROVE  LET s == InOrder(S, R) IN
         /\ s \in [1 .. Cardinality(S) -> S]
         /\ \A x \in S : /\ Preceding(S, R, x) + 1 \in 1 .. Cardinality(S)
                         /\ s[Preceding(S, R, x) + 1] = x
         /\ \A n \in 1 .. Cardinality(S) : Preceding(S, R, s[n]) = n - 1
         /\ \A i, j \in 1 .. Cardinality(S) : i < j <=> <<s[i], s[j]>> \in R
<1> DEFINE N == Cardinality(S)
           s == InOrder(S, R)
           f == [x \in S |-> Preceding(S, R, x)]
<1>1. N \in Nat
  BY FS_CardinalityType
<1>2. \A x \in S : Preceding(S, R, x) \in 0 .. N - 1
  BY PrecedingCompares
<1>3. \A x, y \in S : Preceding(S, R, x) = Preceding(S, R, y) => x = y
  <2> SUFFICES ASSUME NEW x \in S, NEW y \in S, Preceding(S, R, x) = Preceding(S, R, y), x # y
               PROVE  FALSE
    OBVIOUS
  <2>1. <<x, y>> \in R \/ <<y, x>> \in R
    BY DEF Orders
  <2>2. Preceding(S, R, x) < Preceding(S, R, y) \/ Preceding(S, R, y) < Preceding(S, R, x)
    BY <2>1, PrecedingCompares
  <2> QED BY <1>2, <2>2
<1>4. f \in Injection(S, 0 .. N - 1)
  BY <1>2, <1>3, Fun_IsInj DEF Injection, IsInjective
<1>5. IsFiniteSet(0 .. N - 1) /\ Cardinality(0 .. N - 1) = N
  BY <1>1, FS_Interval
<1>6. f \in Surjection(S, 0 .. N - 1)
  BY <1>4, <1>5, FS_Injection
<1>7. \A n \in 1 .. N : \E x \in S : Preceding(S, R, x) = n - 1
  <2> SUFFICES ASSUME NEW n \in 1 .. N PROVE \E x \in S : f[x] = n - 1
    OBVIOUS
  <2>1. n - 1 \in 0 .. N - 1
    BY <1>1
  <2> QED BY <1>6, <2>1 DEF Surjection
<1>8. \A n \in 1 .. N : s[n] \in S /\ Preceding(S, R, s[n]) = n - 1
  <2> SUFFICES ASSUME NEW n \in 1 .. N PROVE s[n] \in S /\ Preceding(S, R, s[n]) = n - 1
    OBVIOUS
  <2>1. s[n] = CHOOSE x \in S : Preceding(S, R, x) = n - 1
    BY DEF InOrder, Preceding
  <2> QED BY <1>7, <2>1
<1>9. s \in [1 .. N -> S]
  <2>1. s = [n \in 1 .. N |-> CHOOSE x \in S : Preceding(S, R, x) = n - 1]
    BY DEF InOrder, Preceding
  <2> QED BY <1>8, <2>1
<1>10. \A x \in S : Preceding(S, R, x) + 1 \in 1 .. N /\ s[Preceding(S, R, x) + 1] = x
  <2> SUFFICES ASSUME NEW x \in S
               PROVE Preceding(S, R, x) + 1 \in 1 .. N /\ s[Preceding(S, R, x) + 1] = x
    OBVIOUS
  <2>1. Preceding(S, R, x) + 1 \in 1 .. N
    BY <1>1, <1>2
  <2>2. s[Preceding(S, R, x) + 1] \in S /\ Preceding(S, R, s[Preceding(S, R, x) + 1]) = Preceding(S, R, x)
    BY <1>2, <1>8, <2>1
  <2> QED BY <1>3, <2>1, <2>2
<1>11. \A i, j \in 1 .. N : i < j <=> <<s[i], s[j]>> \in R
  <2> SUFFICES ASSUME NEW i \in 1 .. N, NEW j \in 1 .. N PROVE i < j <=> <<s[i], s[j]>> \in R
    OBVIOUS
  <2>1. <<s[i], s[j]>> \in R <=> Preceding(S, R, s[i]) < Preceding(S, R, s[j])
    BY <1>8, PrecedingCompares
  <2> QED BY <1>8, <2>1
<1> HIDE DEF s, N
<1> QED BY <1>8, <1>9, <1>10, <1>11 DEF s, N

-----------------------------------------------------------------------------
\* A finite set of numbers in ascending order.
LEMMA AscendingSorts ==
  ASSUME NEW I \in SUBSET Nat, IsFiniteSet(I)
  PROVE  /\ Cardinality(I) \in Nat
         /\ Ascending(I) \in [1 .. Cardinality(I) -> I]
         /\ \A x \in I : \E n \in 1 .. Cardinality(I) : Ascending(I)[n] = x
         /\ \A i, j \in 1 .. Cardinality(I) : i < j <=> Ascending(I)[i] < Ascending(I)[j]
<1> DEFINE R == {p \in I \X I : p[1] < p[2]}
<1>1. \A x, y \in I : <<x, y>> \in R <=> x < y
  OBVIOUS
<1> HIDE DEF R
<1>2. Orders(R, I)
  BY <1>1 DEF Orders
<1>3. Ascending(I) = InOrder(I, R)
  BY DEF Ascending, R
<1>4. Cardinality(I) \in Nat
  BY FS_CardinalityType
<1>5. /\ Ascending(I) \in [1 .. Cardinality(I) -> I]
      /\ \A x \in I : \E n \in 1 .. Cardinality(I) : Ascending(I)[n] = x
      /\ \A i, j \in 1 .. Cardinality(I) : i < j <=> <<Ascending(I)[i], Ascending(I)[j]>> \in R
  BY <1>2, <1>3, InOrderSorts
<1> QED BY <1>1, <1>4, <1>5

\* What Pick takes from a sequence: every place in I once, in ascending order.
LEMMA PickElements ==
  ASSUME NEW T, NEW s \in Seq(T), NEW I \in SUBSET DOMAIN s
  PROVE  /\ IsFiniteSet(I) /\ Cardinality(I) \in 0 .. Len(s)
         /\ Pick(s, I) \in Seq(T)
         /\ Len(Pick(s, I)) = Cardinality(I)
         /\ \E at \in [1 .. Cardinality(I) -> I] :
              /\ at = Ascending(I)
              /\ \A x \in I : \E n \in 1 .. Cardinality(I) : at[n] = x
              /\ \A i, j \in 1 .. Cardinality(I) : i < j <=> at[i] < at[j]
              /\ \A n \in 1 .. Cardinality(I) : Pick(s, I)[n] = s[at[n]]
<1> DEFINE at == Ascending(I)
           N == Cardinality(I)
<1>1. /\ IsFiniteSet(DOMAIN s) /\ Cardinality(DOMAIN s) = Len(s) /\ I \in SUBSET Nat
      /\ Len(s) \in Nat /\ DOMAIN s = 1 .. Len(s)
  <2>1. Len(s) \in Nat /\ DOMAIN s = 1 .. Len(s)
    BY LenProperties
  <2> QED BY <2>1, FS_Interval
<1>2. IsFiniteSet(I) /\ N \in 0 .. Len(s)
  BY <1>1, FS_Subset, FS_CardinalityType
<1>3. /\ at \in [1 .. N -> I]
      /\ \A x \in I : \E n \in 1 .. N : at[n] = x
      /\ \A i, j \in 1 .. N : i < j <=> at[i] < at[j]
  BY <1>1, <1>2, AscendingSorts
<1>4. DOMAIN at = 1 .. N
  BY <1>3
<1>5. Pick(s, I) = [n \in 1 .. N |-> s[at[n]]]
  BY <1>4 DEF Pick
<1> HIDE DEF at, N
<1>6. \A n \in 1 .. N : s[at[n]] \in T
  BY <1>1, <1>3, ElementOfSeq
<1>7. Pick(s, I) \in Seq(T)
  BY <1>2, <1>5, <1>6, IsASeq
<1>8. Len(Pick(s, I)) = N
  BY <1>2, <1>5, <1>7, LenProperties
<1> QED BY <1>2, <1>3, <1>5, <1>7, <1>8 DEF at, N

-----------------------------------------------------------------------------
Units(f, S) == UNION {{x} \X (1 .. f[x]) : x \in S}

LEMMA UnitsFinite ==
  ASSUME NEW S, IsFiniteSet(S), NEW f, \A x \in S : f[x] \in Nat
  PROVE  /\ IsFiniteSet(Units(f, S)) /\ SumOver(f, S) = Cardinality(Units(f, S))
         /\ SumOver(f, S) \in Nat
<1> DEFINE g == [x \in S |-> {x} \X (1 .. f[x])]
           G == {{x} \X (1 .. f[x]) : x \in S}
<1>1. g \in Surjection(S, G)
  BY Fun_IsSurj DEF Surjection
<1>2. IsFiniteSet(G)
  BY <1>1, FS_Surjection
<1>3. \A T \in G : IsFiniteSet(T)
  <2> SUFFICES ASSUME NEW x \in S PROVE IsFiniteSet({x} \X (1 .. f[x]))
    OBVIOUS
  <2>1. IsFiniteSet({x})
    BY FS_Singleton
  <2>2. f[x] \in Int /\ 1 \in Int
    OBVIOUS
  <2>3. IsFiniteSet(1 .. f[x])
    BY <2>2, FS_Interval
  <2> QED BY <2>1, <2>3, FS_Product
<1>4. IsFiniteSet(UNION G)
  BY <1>2, <1>3, FS_UNION
<1> QED BY <1>4, FS_CardinalityType DEF Units, SumOver

\* A sum over nothing, over one element more, over fewer elements.
LEMMA SumEmpty ==
  ASSUME NEW f
  PROVE  SumOver(f, {}) = 0
<1>1. Units(f, {}) = {}
  BY DEF Units
<1> QED BY <1>1, FS_EmptySet DEF SumOver, Units

LEMMA SumAdd ==
  ASSUME NEW S, IsFiniteSet(S), NEW f, \A x \in S : f[x] \in Nat, NEW y, y \notin S, f[y] \in Nat
  PROVE  SumOver(f, S \union {y}) = SumOver(f, S) + f[y]
<1> DEFINE Y == {y} \X (1 .. f[y])
<1>1. Units(f, S \union {y}) = Units(f, S) \union Y /\ Units(f, S) \cap Y = {}
  BY DEF Units
<1>2. IsFiniteSet({y}) /\ Cardinality({y}) = 1
  BY FS_Singleton
<1>3. IsFiniteSet(Y) /\ Cardinality(Y) = f[y]
  <2>1. f[y] \in Int /\ 1 \in Int
    OBVIOUS
  <2>2. IsFiniteSet(1 .. f[y]) /\ Cardinality(1 .. f[y]) = IF 1 > f[y] THEN 0 ELSE f[y] - 1 + 1
    BY <2>1, FS_Interval
  <2>3. Cardinality(1 .. f[y]) = f[y]
    BY <2>2
  <2>4. IsFiniteSet(Y) /\ Cardinality(Y) = Cardinality({y}) * Cardinality(1 .. f[y])
    BY <1>2, <2>2, FS_Product
  <2> QED BY <1>2, <2>3, <2>4
<1>4. IsFiniteSet(Units(f, S)) /\ SumOver(f, S) = Cardinality(Units(f, S)) /\ SumOver(f, S) \in Nat
  BY UnitsFinite
<1>5. IsFiniteSet(S \union {y}) /\ \A x \in S \union {y} : f[x] \in Nat
  BY FS_AddElement
<1>6. SumOver(f, S \union {y}) = Cardinality(Units(f, S \union {y}))
  BY <1>5, UnitsFinite
<1> HIDE DEF Y
<1>7. Cardinality(Units(f, S) \union Y) = Cardinality(Units(f, S)) + Cardinality(Y) - Cardinality({})
  BY <1>1, <1>3, <1>4, FS_Union
<1>8. Cardinality({}) = 0
  BY FS_EmptySet
<1>9. SumOver(f, S \union {y}) = Cardinality(Units(f, S) \union Y)
  BY ONLY <1>1, <1>6, Zenon
<1> QED BY <1>3, <1>4, <1>7, <1>8, <1>9

LEMMA SumSubset ==
  ASSUME NEW S, IsFiniteSet(S), NEW f, \A x \in S : f[x] \in Nat, NEW T \in SUBSET S
  PROVE  SumOver(f, T) <= SumOver(f, S) /\ IsFiniteSet(T) /\ SumOver(f, T) \in Nat
<1>1. IsFiniteSet(T)
  BY FS_Subset
<1>2. Units(f, T) \in SUBSET Units(f, S)
  BY DEF Units
<1>3. IsFiniteSet(Units(f, S)) /\ SumOver(f, S) = Cardinality(Units(f, S))
  BY UnitsFinite
<1>4. SumOver(f, T) = Cardinality(Units(f, T)) /\ SumOver(f, T) \in Nat
  BY <1>1, UnitsFinite
<1> QED BY <1>1, <1>2, <1>3, <1>4, FS_Subset

\* The same summands under other names give the same sum.
LEMMA SumRenamed ==
  ASSUME NEW S, IsFiniteSet(S), NEW f, \A x \in S : f[x] \in Nat,
         NEW T, NEW g, NEW h \in Bijection(S, T), \A x \in S : g[h[x]] = f[x]
  PROVE  SumOver(g, T) = SumOver(f, S)
<1> DEFINE u == [p \in Units(f, S) |-> <<h[p[1]], p[2]>>]
<1>1. h \in [S -> T] /\ (\A x, y \in S : h[x] = h[y] => x = y) /\ \A z \in T : \E x \in S : h[x] = z
  BY DEF Bijection, Injection, Surjection, IsInjective
<1>2. \A x, n : <<x, n>> \in Units(f, S) <=> x \in S /\ n \in 1 .. f[x]
  BY DEF Units
<1>3. \A x, n : <<x, n>> \in Units(g, T) <=> x \in T /\ n \in 1 .. g[x]
  BY DEF Units
<1>4. \A p \in Units(f, S) : p = <<p[1], p[2]>>
  BY DEF Units
<1>5. \A p \in Units(g, T) : p = <<p[1], p[2]>>
  BY DEF Units
<1>6. u \in [Units(f, S) -> Units(g, T)]
  <2> SUFFICES ASSUME NEW p \in Units(f, S) PROVE <<h[p[1]], p[2]>> \in Units(g, T)
    OBVIOUS
  <2>1. p[1] \in S /\ p[2] \in 1 .. f[p[1]]
    BY <1>2, <1>4
  <2> QED BY <1>1, <1>3, <2>1
<1>7. \A p, q \in Units(f, S) : u[p] = u[q] => p = q
  <2> SUFFICES ASSUME NEW p \in Units(f, S), NEW q \in Units(f, S), u[p] = u[q]
               PROVE  p = q
    OBVIOUS
  <2>1. p[1] \in S /\ q[1] \in S /\ h[p[1]] = h[q[1]] /\ p[2] = q[2]
    BY <1>2, <1>4
  <2> QED BY <1>1, <1>4, <2>1
<1>8. \A q \in Units(g, T) : \E p \in Units(f, S) : u[p] = q
  <2> SUFFICES ASSUME NEW q \in Units(g, T) PROVE \E p \in Units(f, S) : u[p] = q
    OBVIOUS
  <2>1. q[1] \in T /\ q[2] \in 1 .. g[q[1]]
    BY <1>3, <1>5
  <2>2. PICK x \in S : h[x] = q[1]
    BY <1>1, <2>1
  <2>3. <<x, q[2]>> \in Units(f, S)
    BY <1>2, <2>1, <2>2
  <2>4. u[<<x, q[2]>>] = q
    BY <1>5, <2>2, <2>3
  <2> QED BY <2>3, <2>4
<1>9. u \in Bijection(Units(f, S), Units(g, T))
  BY <1>6, <1>7, <1>8, Fun_IsBij
<1>10. IsFiniteSet(Units(f, S)) /\ SumOver(f, S) = Cardinality(Units(f, S))
  BY UnitsFinite
<1>11. Cardinality(Units(g, T)) = Cardinality(Units(f, S))
  BY <1>9, <1>10, FS_Bijection DEF ExistsBijection
<1> QED BY <1>10, <1>11 DEF SumOver, Units
=============================================================================
