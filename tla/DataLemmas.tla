---------------------------- MODULE DataLemmas ----------------------------
(***************************************************************************)
(* Lemmas about numbers, finite sets, sums and sequences that the proofs   *)
(* of the components need. Each is first-order: an induction is over a     *)
(* set, that of the numbers or subsets of which the claim holds.           *)
(***************************************************************************)
EXTENDS Lists, SequencesExt, FiniteSetsExt, FiniteSetTheorems, SequenceTheorems, TLAPS

\* Induction over the natural numbers.
LEMMA NatInduct ==
  ASSUME NEW C, 0 \in C, \A n \in Nat : n \in C => n + 1 \in C
  PROVE  Nat \subseteq C
<1>. DEFINE R == OpToRel(<, Nat)
            T == Nat \ C
<1>1. R = {p \in Nat \X Nat : p[1] < p[2]}
  BY DEF OpToRel
<1>2. IsWellFoundedOn(R, Nat)
  BY NatLessThanWellFounded
<1>3. SUFFICES ASSUME T # {} PROVE FALSE
  OBVIOUS
<1>4. PICK x \in T : \A y \in T : ~ (<<y, x>> \in R)
  <2>. HIDE DEF R
  <2>. QED
    BY <1>2, <1>3, WFMin
<1>5. PICK y \in Nat : x = y + 1
  <2>1. x \in Nat /\ x # 0
    OBVIOUS
  <2>2. x - 1 \in Nat /\ x = (x - 1) + 1
    BY <2>1
  <2>. QED
    BY <2>2
<1>6. y \in T
  <2>1. x \notin C
    OBVIOUS
  <2>2. y \in C => y + 1 \in C
    OBVIOUS
  <2>3. y \notin C
    BY <1>5, <2>1, <2>2
  <2>. QED
    BY <2>3
<1>7. <<y, x>> \in R
  <2>1. x \in Nat /\ y < x
    BY <1>5
  <2>2. <<y, x>> \in {p \in Nat \X Nat : p[1] < p[2]}
    BY <2>1
  <2>. QED
    BY <1>1, <2>2
<1>. QED
  BY <1>4, <1>6, <1>7

\* Induction over the subsets of a finite set, one element less at a time.
LEMMA ShrinkInduct ==
  ASSUME NEW D, IsFiniteSet(D), NEW C, {} \in C,
         \A S \in SUBSET D : S # {} /\ (\A x \in S : S \ {x} \in C) => S \in C
  PROVE  SUBSET D \subseteq C
<1>. DEFINE N == {n \in Nat : \A S \in SUBSET D : Cardinality(S) = n => S \in C}
<1>1. \A S \in SUBSET D : IsFiniteSet(S) /\ Cardinality(S) \in Nat
  BY FS_Subset, FS_CardinalityType
<1>2. 0 \in N
  BY <1>1, FS_EmptySet
<1>3. ASSUME NEW n \in Nat, n \in N PROVE n + 1 \in N
  <2>. SUFFICES ASSUME NEW S \in SUBSET D, Cardinality(S) = n + 1 PROVE S \in C
    OBVIOUS
  <2>1. S # {}
    <3>1. n + 1 # 0
      OBVIOUS
    <3>. QED
      BY <3>1, FS_EmptySet
  <2>2. ASSUME NEW x \in S PROVE S \ {x} \in C
    <3>1. Cardinality(S \ {x}) = Cardinality(S) - 1
      BY <1>1, FS_RemoveElement
    <3>2. Cardinality(S \ {x}) = n
      BY <3>1
    <3>. QED
      BY <1>3, <3>2
  <2>. QED
    BY <2>1, <2>2
<1>4. Nat \subseteq N
  <2>. HIDE DEF N
  <2>. QED
    BY <1>2, <1>3, NatInduct
<1>. QED
  BY <1>1, <1>4

\* The same, upwards.
LEMMA SubsetInduct ==
  ASSUME NEW D, IsFiniteSet(D), NEW C, {} \in C,
         \A S \in SUBSET D, x \in D : S \in C /\ x \notin S => S \cup {x} \in C
  PROVE  SUBSET D \subseteq C
<1>1. ASSUME NEW S \in SUBSET D, S # {}, \A x \in S : S \ {x} \in C PROVE S \in C
  <2>1. PICK x \in S : S \ {x} \in C
    BY <1>1
  <2>2. (S \ {x}) \cup {x} = S
    BY <2>1
  <2>. QED
    BY <2>1, <2>2
<1>. QED
  BY <1>1, ShrinkInduct

\* A function that is defined by recursion over 0..n exists.
IsRecursion(f, n, e, step) ==
  f = [k \in 0..n |-> IF k = 0 THEN e ELSE step[<<k, f[k - 1]>>]]

\* Every such recursion has a function, when its step stays in D.
LEMMA RecursionExists ==
  ASSUME NEW n \in Nat, NEW D, NEW e \in D, NEW step \in [(1..n) \X D -> D]
  PROVE  \E f \in [0..n -> D] : IsRecursion(f, n, e, step)
<1>. DEFINE Upto(f, m) == /\ f \in [0..m -> D]
                          /\ f[0] = e
                          /\ \A k \in 1..m : f[k] = step[<<k, f[k - 1]>>]
            N == {m \in Nat : m <= n => \E f : Upto(f, m)}
<1>1. 0 \in N
  <2>1. Upto([k \in 0..0 |-> e], 0)
    OBVIOUS
  <2>. HIDE DEF Upto
  <2>. QED
    BY <2>1
<1>2. ASSUME NEW m \in Nat, m \in N PROVE m + 1 \in N
  <2>. SUFFICES ASSUME m + 1 <= n PROVE \E f : Upto(f, m + 1)
    OBVIOUS
  <2>1. PICK f : Upto(f, m)
    BY <1>2
  <2>. DEFINE v == step[<<m + 1, f[m]>>]
              g == [k \in 0..(m + 1) |-> IF k = m + 1 THEN v ELSE f[k]]
  <2>2. f[m] \in D /\ m + 1 \in 1..n
    BY <2>1
  <2>3. v \in D
    BY <2>2
  <2>. HIDE DEF v
  <2>4. g \in [0..(m + 1) -> D]
    BY <2>1, <2>3
  <2>5. g[0] = e /\ \A k \in 0..m : g[k] = f[k]
    BY <2>1
  <2>6. g[m + 1] = v
    OBVIOUS
  <2>7. ASSUME NEW k \in 1..(m + 1) PROVE g[k] = step[<<k, g[k - 1]>>]
    <3>. HIDE DEF g
    <3>1. CASE k = m + 1
      <4>1. k - 1 = m /\ m \in 0..m
        BY <3>1
      <4>2. g[k - 1] = f[m]
        BY <2>5, <4>1
      <4>. QED
        BY <2>6, <3>1, <4>2 DEF v
    <3>2. CASE k # m + 1
      <4>1. k \in 1..m /\ k \in 0..m /\ k - 1 \in 0..m
        BY <3>2
      <4>2. g[k] = f[k] /\ g[k - 1] = f[k - 1]
        BY <2>5, <4>1
      <4>. QED
        BY <2>1, <4>1, <4>2
    <3>. QED
      BY <3>1, <3>2
  <2>. HIDE DEF g
  <2>8. Upto(g, m + 1)
    BY <2>4, <2>5, <2>7
  <2>. HIDE DEF Upto
  <2>. QED
    BY <2>8
<1>3. Nat \subseteq N
  <2>. HIDE DEF N
  <2>. QED
    BY <1>1, <1>2, NatInduct
<1>4. PICK f : Upto(f, n)
  BY <1>3
<1>5. IsRecursion(f, n, e, step)
  <2>1. \A k \in 0..n : k # 0 => k \in 1..n
    OBVIOUS
  <2>. QED
    BY <1>4, <2>1 DEF IsRecursion
<1>. QED
  BY <1>4, <1>5

\* A claim that holds of the first of the numbers 0..n and passes from each to
\* the next holds of all.
LEMMA UptoInduct ==
  ASSUME NEW n \in Nat, NEW C, 0 \in C, \A k \in 1..n : k - 1 \in C => k \in C
  PROVE  0..n \subseteq C
<1>. DEFINE B == {k \in Nat : k <= n => k \in C}
<1>1. 0 \in B
  OBVIOUS
<1>2. ASSUME NEW k \in Nat, k \in B PROVE k + 1 \in B
  <2>1. k + 1 <= n => (k + 1 \in 1..n /\ (k + 1) - 1 = k /\ k \in C)
    BY <1>2
  <2>. QED
    BY <2>1
<1>3. Nat \subseteq B
  <2>. HIDE DEF B
  <2>. QED
    BY <1>1, <1>2, NatInduct
<1>. QED
  BY <1>3

\* Max and Min of a finite set of numbers.
LEMMA MaxIs ==
  ASSUME NEW S \in SUBSET Int, IsFiniteSet(S), S # {}
  PROVE  Max(S) \in S /\ \A y \in S : y <= Max(S)
<1>. DEFINE C == {T \in SUBSET S : T # {} => \E x \in T : \A y \in T : x >= y}
<1>1. {} \in C
  OBVIOUS
<1>2. ASSUME NEW T \in SUBSET S, NEW z \in S, T \in C, z \notin T PROVE T \cup {z} \in C
  <2>1. CASE T = {}
    <3>1. z >= z
      OBVIOUS
    <3>2. T \cup {z} = {z}
      BY <2>1
    <3>. QED
      BY <3>1, <3>2
  <2>2. CASE T # {}
    <3>1. PICK x \in T : \A y \in T : x >= y
      BY <1>2, <2>2
    <3>2. \A y \in T \cup {z} : y \in Int
      OBVIOUS
    <3>3. CASE x >= z
      BY <3>1, <3>3
    <3>4. CASE ~(x >= z)
      <4>1. \A y \in T \cup {z} : z >= y
        BY <3>1, <3>2, <3>4
      <4>. QED
        BY <4>1
    <3>. QED
      BY <3>3, <3>4
  <2>. QED
    BY <2>1, <2>2
<1>3. S \in C
  <2>. HIDE DEF C
  <2>. QED
    BY <1>1, <1>2, SubsetInduct
<1>4. \E x \in S : \A y \in S : x >= y
  BY <1>3
<1>5. Max(S) \in S /\ \A y \in S : Max(S) >= y
  BY <1>4 DEF Max
<1>. QED
  BY <1>5

\* The least of a finite set of numbers.
LEMMA MinIs ==
  ASSUME NEW S \in SUBSET Int, IsFiniteSet(S), S # {}
  PROVE  Min(S) \in S /\ \A y \in S : Min(S) <= y
<1>. DEFINE C == {T \in SUBSET S : T # {} => \E x \in T : \A y \in T : x <= y}
<1>1. {} \in C
  OBVIOUS
<1>2. ASSUME NEW T \in SUBSET S, NEW z \in S, T \in C, z \notin T PROVE T \cup {z} \in C
  <2>1. CASE T = {}
    <3>1. z <= z
      OBVIOUS
    <3>2. T \cup {z} = {z}
      BY <2>1
    <3>. QED
      BY <3>1, <3>2
  <2>2. CASE T # {}
    <3>1. PICK x \in T : \A y \in T : x <= y
      BY <1>2, <2>2
    <3>2. \A y \in T \cup {z} : y \in Int
      OBVIOUS
    <3>3. CASE x <= z
      BY <3>1, <3>3
    <3>4. CASE ~(x <= z)
      <4>1. \A y \in T \cup {z} : z <= y
        BY <3>1, <3>2, <3>4
      <4>. QED
        BY <4>1
    <3>. QED
      BY <3>3, <3>4
  <2>. QED
    BY <2>1, <2>2
<1>3. S \in C
  <2>. HIDE DEF C
  <2>. QED
    BY <1>1, <1>2, SubsetInduct
<1>4. \E x \in S : \A y \in S : x <= y
  BY <1>3
<1>. QED
  BY <1>4 DEF Min

\* The values of a function at the elements of a finite set.
LEMMA ImageFinite ==
  ASSUME NEW S, IsFiniteSet(S), NEW f
  PROVE  IsFiniteSet({f[x] : x \in S})
<1>. DEFINE T == {f[x] : x \in S}
            g == [x \in S |-> f[x]]
<1>1. g \in [S -> T] /\ \A t \in T : \E x \in S : g[x] = t
  OBVIOUS
<1>2. g \in Surjection(S, T)
  <2>. HIDE DEF g, T
  <2>. QED
    BY <1>1 DEF Surjection
<1>3. IsFiniteSet(T)
  <2>. HIDE DEF g, T
  <2>. QED
    BY <1>2, FS_Surjection
<1>. QED
  BY <1>3

-----------------------------------------------------------------------------
(***************************************************************************)
(* Sums over a finite set.  MapThenSumSet is a fold, a function on the     *)
(* subsets of the set that is defined by recursion.                        *)
(***************************************************************************)

\* The sum of the values of a function at the elements of a set.
Total(f, S) == MapThenSumSet(LAMBDA x : f[x], S)

First(s) == CHOOSE x \in s : TRUE

IsFold(g, f, S) ==
  g = [s \in SUBSET S |-> IF s = {} THEN 0 ELSE f[First(s)] + g[s \ {First(s)}]]

\* The element chosen first is one of the set.
LEMMA FirstIn == ASSUME NEW s, s # {} PROVE First(s) \in s
BY DEF First

\* A fold over a set, by its first element.
LEMMA FoldStep ==
  ASSUME NEW S, NEW f, NEW g, IsFold(g, f, S)
  PROVE  /\ g[{}] = 0
         /\ \A T \in SUBSET S : T # {} => g[T] = f[First(T)] + g[T \ {First(T)}]
<1>. DEFINE h == [s \in SUBSET S |-> IF s = {} THEN 0 ELSE f[First(s)] + g[s \ {First(s)}]]
<1>1. g = h
  BY DEF IsFold
<1>2. {} \in SUBSET S
  OBVIOUS
<1>3. h[{}] = 0
  BY <1>2
<1>4. ASSUME NEW T \in SUBSET S, T # {} PROVE h[T] = f[First(T)] + g[T \ {First(T)}]
  BY <1>4
<1>. HIDE DEF h
<1>. QED
  BY <1>1, <1>3, <1>4

\* There is such a function: it is built up by the size of the subsets.
LEMMA FoldExists ==
  ASSUME NEW S, IsFiniteSet(S), NEW f
  PROVE  \E g : IsFold(g, f, S)
<1>. DEFINE D(n) == {s \in SUBSET S : Cardinality(s) <= n}
            Upto(g, n) == g = [s \in D(n) |->
                                 IF s = {} THEN 0 ELSE f[First(s)] + g[s \ {First(s)}]]
            N == {n \in Nat : \E g : Upto(g, n)}
<1>1. \A s \in SUBSET S : IsFiniteSet(s) /\ Cardinality(s) \in Nat
  BY FS_Subset, FS_CardinalityType
<1>2. \A s \in SUBSET S : s # {} =>
        /\ First(s) \in s
        /\ Cardinality(s \ {First(s)}) = Cardinality(s) - 1
  BY <1>1, FirstIn, FS_RemoveElement
<1>3. 0 \in N
  <2>. DEFINE g == [s \in D(0) |-> 0]
  <2>1. \A s \in D(0) : s = {}
    BY <1>1, FS_EmptySet
  <2>2. Upto(g, 0)
    BY <2>1
  <2>. QED
    BY <2>2
<1>4. ASSUME NEW n \in Nat, n \in N PROVE n + 1 \in N
  <2>1. PICK g : Upto(g, n)
    BY <1>4
  <2>. DEFINE h == [s \in D(n + 1) |->
                      IF s = {} THEN 0 ELSE f[First(s)] + g[s \ {First(s)}]]
  <2>2. ASSUME NEW s \in D(n) PROVE s \in D(n + 1) /\ h[s] = g[s]
    <3>1. s \in D(n + 1)
      BY <1>1
    <3>. QED
      BY <2>1, <3>1
  <2>3. ASSUME NEW s \in D(n + 1), s # {} PROVE s \ {First(s)} \in D(n)
    BY <1>1, <1>2, <2>3
  <2>4. \A s \in D(n + 1) : s # {} => g[s \ {First(s)}] = h[s \ {First(s)}]
    <3>. HIDE DEF D, h
    <3>. QED
      BY <2>2, <2>3
  <2>5. Upto(h, n + 1)
    <3>. HIDE DEF D
    <3>. QED
      BY <2>4
  <2>. HIDE DEF Upto, h
  <2>. QED
    BY <2>5
<1>5. Nat \subseteq N
  <2>. HIDE DEF N
  <2>. QED
    BY <1>3, <1>4, NatInduct
<1>6. PICK g : Upto(g, Cardinality(S))
  BY <1>1, <1>5
<1>7. D(Cardinality(S)) = SUBSET S
  BY FS_Subset
<1>. QED
  BY <1>6, <1>7 DEF IsFold

\* Two of them agree wherever their functions do.
LEMMA FoldsAgree ==
  ASSUME NEW S, IsFiniteSet(S), NEW f, NEW g, IsFold(g, f, S),
         NEW T \in SUBSET S, NEW e, NEW h, IsFold(h, e, T),
         \A x \in T : f[x] = e[x]
  PROVE  \A U \in SUBSET T : g[U] = h[U]
<1>. DEFINE C == {U \in SUBSET T : g[U] = h[U]}
<1>h. /\ h[{}] = 0
      /\ \A V \in SUBSET T : V # {} => h[V] = e[First(V)] + h[V \ {First(V)}]
  <2>1. IsFold(h, e, T)
    OBVIOUS
  <2>. QED
    BY ONLY <2>1, FoldStep
<1>1. IsFiniteSet(T)
  BY FS_Subset
<1>2. {} \in C
  BY <1>h, FoldStep
<1>3. ASSUME NEW U \in SUBSET T, U # {}, \A x \in U : U \ {x} \in C PROVE U \in C
  <2>1. First(U) \in U
    BY <1>3, FirstIn
  <2>2. g[U] = f[First(U)] + g[U \ {First(U)}]
    <3>1. U \in SUBSET S
      OBVIOUS
    <3>. QED
      BY <1>3, <3>1, FoldStep
  <2>3. h[U] = e[First(U)] + h[U \ {First(U)}]
    <3>. QED
      BY <1>h, <1>3
  <2>4. g[U \ {First(U)}] = h[U \ {First(U)}]
    BY <1>3, <2>1
  <2>. QED
    BY <2>1, <2>2, <2>3, <2>4
<1>4. SUBSET T \subseteq C
  <2>. HIDE DEF C
  <2>. QED
    BY <1>1, <1>2, <1>3, ShrinkInduct
<1>. QED
  BY <1>4

\* A fold of integers is an integer.
LEMMA FoldType ==
  ASSUME NEW S, IsFiniteSet(S), NEW f, NEW g, IsFold(g, f, S),
         \A x \in S : f[x] \in Int
  PROVE  \A U \in SUBSET S : g[U] \in Int
<1>. DEFINE C == {U \in SUBSET S : g[U] \in Int}
<1>1. {} \in C
  BY FoldStep
<1>2. ASSUME NEW U \in SUBSET S, U # {}, \A x \in U : U \ {x} \in C PROVE U \in C
  <2>1. First(U) \in U
    BY <1>2, FirstIn
  <2>2. g[U] = f[First(U)] + g[U \ {First(U)}]
    BY <1>2, FoldStep
  <2>3. f[First(U)] \in Int /\ g[U \ {First(U)}] \in Int
    BY <1>2, <2>1
  <2>. QED
    BY <2>2, <2>3
<1>3. SUBSET S \subseteq C
  <2>. HIDE DEF C
  <2>. QED
    BY <1>1, <1>2, ShrinkInduct
<1>. QED
  BY <1>3

\* Any element may be taken first.
LEMMA FoldSplit ==
  ASSUME NEW S, IsFiniteSet(S), NEW f, NEW g, IsFold(g, f, S),
         \A x \in S : f[x] \in Int
  PROVE  \A U \in SUBSET S : \A x \in U : g[U] = f[x] + g[U \ {x}]
<1>. DEFINE C == {U \in SUBSET S : \A x \in U : g[U] = f[x] + g[U \ {x}]}
<1>1. {} \in C
  OBVIOUS
<1>2. ASSUME NEW U \in SUBSET S, U # {}, \A x \in U : U \ {x} \in C PROVE U \in C
  <2>. SUFFICES ASSUME NEW x \in U PROVE g[U] = f[x] + g[U \ {x}]
    OBVIOUS
  <2>. DEFINE c == First(U)
              V == (U \ {c}) \ {x}
  <2>1. c \in U /\ g[U] = f[c] + g[U \ {c}]
    BY <1>2, FirstIn, FoldStep
  <2>. HIDE DEF c
  <2>2. CASE x = c
    BY <2>1, <2>2
  <2>3. CASE x # c
    <3>1. g[U \ {c}] = f[x] + g[V]
      BY <1>2, <2>1, <2>3
    <3>2. g[U \ {x}] = f[c] + g[V]
      <4>1. (U \ {x}) \ {c} = V /\ c \in U \ {x}
        BY <2>1, <2>3
      <4>. QED
        BY <1>2, <4>1
    <3>3. f[x] \in Int /\ f[c] \in Int /\ g[V] \in Int
      <4>1. V \in SUBSET S
        OBVIOUS
      <4>. HIDE DEF V
      <4>. QED
        BY <2>1, <4>1, FoldType
    <3>. HIDE DEF V
    <3>. QED
      BY <2>1, <3>1, <3>2, <3>3
  <2>. QED
    BY <2>2, <2>3
<1>3. SUBSET S \subseteq C
  <2>. HIDE DEF C
  <2>. QED
    BY <1>1, <1>2, ShrinkInduct
<1>. QED
  BY <1>3

\* Total is the fold that its equation describes.
LEMMA TotalIs ==
  ASSUME NEW S, IsFiniteSet(S), NEW f, NEW g, IsFold(g, f, S)
  PROVE  Total(f, S) = g[S]
<1>. DEFINE h == CHOOSE k : k = [s \in SUBSET S |->
                     IF s = {} THEN 0
                     ELSE f[CHOOSE x \in s : TRUE] + k[s \ {CHOOSE x \in s : TRUE}]]
<1>1. Total(f, S) = h[S]
  BY DEF Total, MapThenSumSet, MapThenFoldSet
<1>2. IsFold(h, f, S)
  <2>1. \E k : k = [s \in SUBSET S |->
                     IF s = {} THEN 0
                     ELSE f[CHOOSE x \in s : TRUE] + k[s \ {CHOOSE x \in s : TRUE}]]
    BY DEF IsFold, First
  <2>2. h = [s \in SUBSET S |->
                     IF s = {} THEN 0
                     ELSE f[CHOOSE x \in s : TRUE] + h[s \ {CHOOSE x \in s : TRUE}]]
    BY <2>1, Zenon
  <2>. HIDE DEF h
  <2>. QED
    BY <2>2 DEF IsFold, First
<1>. HIDE DEF h
<1>. QED
  BY <1>1, <1>2, FoldsAgree

\* Equal summands make equal totals.
LEMMA TotalAlike ==
  ASSUME NEW S, IsFiniteSet(S), NEW f, NEW e, \A x \in S : f[x] = e[x]
  PROVE  Total(f, S) = Total(e, S)
<1>1. PICK g : IsFold(g, f, S)
  BY FoldExists
<1>2. PICK h : IsFold(h, e, S)
  BY FoldExists
<1>3. g[S] = h[S]
  BY <1>1, <1>2, FoldsAgree
<1>. QED
  BY <1>1, <1>2, <1>3, TotalIs

\* A sum over a field of records.
LEMMA AmountsTotal ==
  ASSUME NEW S, IsFiniteSet(S), NEW f, NEW e, \A x \in S : e[x] = f[x].amount
  PROVE  MapThenSumSet(LAMBDA x : f[x].amount, S) = Total(e, S)
<1>. DEFINE h == CHOOSE k : k = [s \in SUBSET S |->
                     IF s = {} THEN 0
                     ELSE f[CHOOSE x \in s : TRUE].amount + k[s \ {CHOOSE x \in s : TRUE}]]
<1>1. MapThenSumSet(LAMBDA x : f[x].amount, S) = h[S]
  BY DEF MapThenSumSet, MapThenFoldSet
<1>2. PICK g : IsFold(g, e, S)
  BY FoldExists
<1>3. \A s \in SUBSET S : s # {} => e[First(s)] = f[First(s)].amount
  BY FirstIn
<1>4. \A k : IsFold(k, e, S) <=>
               k = [s \in SUBSET S |->
                     IF s = {} THEN 0 ELSE f[First(s)].amount + k[s \ {First(s)}]]
  BY <1>3 DEF IsFold
<1>5. h = [s \in SUBSET S |->
            IF s = {} THEN 0
            ELSE f[CHOOSE x \in s : TRUE].amount + h[s \ {CHOOSE x \in s : TRUE}]]
  <2>1. g = [s \in SUBSET S |->
              IF s = {} THEN 0
              ELSE f[CHOOSE x \in s : TRUE].amount + g[s \ {CHOOSE x \in s : TRUE}]]
    BY <1>2, <1>4 DEF First
  <2>. QED
    BY <2>1, Zenon
<1>. HIDE DEF h
<1>6. IsFold(h, e, S)
  BY <1>4, <1>5 DEF First
<1>. QED
  BY <1>1, <1>6, TotalIs

\* A total of integers is an integer.
LEMMA TotalType ==
  ASSUME NEW S, IsFiniteSet(S), NEW f, \A x \in S : f[x] \in Int
  PROVE  Total(f, S) \in Int
<1>1. PICK g : IsFold(g, f, S)
  BY FoldExists
<1>. QED
  BY <1>1, FoldType, TotalIs

\* The total of nothing.
LEMMA TotalEmpty == ASSUME NEW f PROVE Total(f, {}) = 0
<1>1. IsFiniteSet({})
  BY FS_EmptySet
<1>2. PICK g : IsFold(g, f, {})
  BY <1>1, FoldExists
<1>. QED
  BY <1>1, <1>2, FoldStep, TotalIs

\* The total with one summand more.
LEMMA TotalAdd ==
  ASSUME NEW S, IsFiniteSet(S), NEW f, NEW x, x \notin S,
         \A y \in S \cup {x} : f[y] \in Int
  PROVE  Total(f, S \cup {x}) = f[x] + Total(f, S)
<1>. DEFINE U == S \cup {x}
<1>1. IsFiniteSet(U) /\ S \in SUBSET U /\ U \in SUBSET U /\ x \in U /\ U \ {x} = S
  BY FS_AddElement
<1>2. PICK g : IsFold(g, f, U)
  BY <1>1, FoldExists
<1>3. PICK h : IsFold(h, f, S)
  BY FoldExists
<1>. HIDE DEF U
<1>4. \A y \in U : f[y] \in Int
  BY DEF U
<1>5. g[U] = f[x] + g[S]
  BY <1>1, <1>2, <1>4, FoldSplit
<1>6. g[S] = h[S]
  BY <1>1, <1>2, <1>3, FoldsAgree
<1>7. Total(f, U) = g[U] /\ Total(f, S) = h[S]
  BY <1>1, <1>2, <1>3, TotalIs
<1>. QED
  BY <1>5, <1>6, <1>7 DEF U

\* The total of sums is the sum of totals.
LEMMA TotalPlus ==
  ASSUME NEW S, IsFiniteSet(S), NEW f, NEW e, NEW d,
         \A x \in S : f[x] \in Int /\ e[x] \in Int /\ d[x] = f[x] + e[x]
  PROVE  Total(d, S) = Total(f, S) + Total(e, S)
<1>. DEFINE C == {U \in SUBSET S : Total(d, U) = Total(f, U) + Total(e, U)}
<1>1. {} \in C
  BY TotalEmpty
<1>2. ASSUME NEW U \in SUBSET S, NEW x \in S, U \in C, x \notin U PROVE U \cup {x} \in C
  <2>1. IsFiniteSet(U)
    BY FS_Subset
  <2>2. \A y \in U \cup {x} : f[y] \in Int /\ e[y] \in Int /\ d[y] \in Int
    OBVIOUS
  <2>3. /\ Total(d, U \cup {x}) = d[x] + Total(d, U)
        /\ Total(f, U \cup {x}) = f[x] + Total(f, U)
        /\ Total(e, U \cup {x}) = e[x] + Total(e, U)
    BY <1>2, <2>1, <2>2, TotalAdd
  <2>4. Total(f, U) \in Int /\ Total(e, U) \in Int
    BY <2>1, <2>2, TotalType
  <2>5. Total(d, U) = Total(f, U) + Total(e, U)
    BY <1>2
  <2>6. f[x] \in Int /\ e[x] \in Int /\ d[x] = f[x] + e[x]
    OBVIOUS
  <2>7. Total(d, U \cup {x}) = Total(f, U \cup {x}) + Total(e, U \cup {x})
    BY <2>3, <2>4, <2>5, <2>6
  <2>. QED
    BY <2>7
<1>3. SUBSET S \subseteq C
  <2>. HIDE DEF C
  <2>. QED
    BY <1>1, <1>2, SubsetInduct
<1>. QED
  BY <1>3

\* The total of zeros.
LEMMA TotalZero ==
  ASSUME NEW S, IsFiniteSet(S), NEW f, \A x \in S : f[x] = 0
  PROVE  Total(f, S) = 0
<1>. DEFINE C == {U \in SUBSET S : Total(f, U) = 0}
<1>1. {} \in C
  BY TotalEmpty
<1>2. ASSUME NEW U \in SUBSET S, NEW x \in S, U \in C, x \notin U PROVE U \cup {x} \in C
  <2>1. IsFiniteSet(U)
    BY FS_Subset
  <2>2. \A y \in U \cup {x} : f[y] \in Int
    OBVIOUS
  <2>3. Total(f, U \cup {x}) = f[x] + Total(f, U)
    BY <1>2, <2>1, <2>2, TotalAdd
  <2>. QED
    BY <1>2, <2>3
<1>3. SUBSET S \subseteq C
  <2>. HIDE DEF C
  <2>. QED
    BY <1>1, <1>2, SubsetInduct
<1>. QED
  BY <1>3

\* The sum over a part is the sum of what is left of the function there.
LEMMA TotalWhere ==
  ASSUME NEW S, IsFiniteSet(S), NEW T \in SUBSET S, NEW f, NEW e,
         \A x \in S : f[x] \in Int /\ e[x] = IF x \in T THEN f[x] ELSE 0
  PROVE  Total(e, S) = Total(f, T)
<1>. DEFINE C == {U \in SUBSET S : Total(e, U) = Total(f, U \cap T)}
<1>1. {} \in C
  <2>1. {} \cap T = {}
    OBVIOUS
  <2>. QED
    BY <2>1, TotalEmpty
<1>2. ASSUME NEW U \in SUBSET S, NEW x \in S, U \in C, x \notin U PROVE U \cup {x} \in C
  <2>1. IsFiniteSet(U) /\ IsFiniteSet(U \cap T)
    <3>1. U \cap T \in SUBSET S
      OBVIOUS
    <3>. QED
      BY <3>1, FS_Subset
  <2>2. \A y \in U \cup {x} : f[y] \in Int /\ e[y] \in Int
    OBVIOUS
  <2>3. Total(e, U \cup {x}) = e[x] + Total(e, U)
    BY <1>2, <2>1, <2>2, TotalAdd
  <2>4. Total(e, U) = Total(f, U \cap T) /\ Total(e, U) \in Int
    BY <1>2, <2>1, <2>2, TotalType
  <2>5. Total(e, U \cup {x}) = Total(f, (U \cup {x}) \cap T)
    <3>1. CASE x \in T
      <4>1. (U \cup {x}) \cap T = (U \cap T) \cup {x} /\ x \notin U \cap T
        BY <1>2, <3>1
      <4>2. Total(f, (U \cap T) \cup {x}) = f[x] + Total(f, U \cap T)
        BY <2>1, <2>2, <4>1, TotalAdd
      <4>. QED
        BY <2>3, <2>4, <3>1, <4>1, <4>2
    <3>2. CASE x \notin T
      <4>1. (U \cup {x}) \cap T = U \cap T
        BY <3>2
      <4>2. e[x] = 0 /\ e[x] + Total(e, U) = Total(e, U)
        BY <2>4, <3>2
      <4>. QED
        BY <2>3, <2>4, <4>1, <4>2
    <3>. QED
      BY <3>1, <3>2
  <2>. QED
    BY <2>5
<1>3. SUBSET S \subseteq C
  <2>. HIDE DEF C
  <2>. QED
    BY <1>1, <1>2, SubsetInduct
<1>4. S \cap T = T /\ S \in SUBSET S
  OBVIOUS
<1>. QED
  BY <1>3, <1>4

\* Counting is summing ones; where some of them are missing, there are fewer.
LEMMA TotalOnes ==
  ASSUME NEW S, IsFiniteSet(S), NEW f, \A x \in S : f[x] \in {0, 1}
  PROVE  /\ Total(f, S) = Cardinality({x \in S : f[x] = 1})
         /\ Total(f, S) = Cardinality(S) <=> \A x \in S : f[x] = 1
<1>. DEFINE One(U) == {x \in U : f[x] = 1}
            C == {U \in SUBSET S : Total(f, U) = Cardinality(One(U))}
<1>1. {} \in C
  <2>1. One({}) = {}
    OBVIOUS
  <2>. QED
    BY <2>1, TotalEmpty, FS_EmptySet
<1>2. ASSUME NEW U \in SUBSET S, NEW x \in S, U \in C, x \notin U PROVE U \cup {x} \in C
  <2>1. IsFiniteSet(U) /\ IsFiniteSet(One(U))
    <3>1. One(U) \in SUBSET S
      OBVIOUS
    <3>. QED
      BY <3>1, FS_Subset
  <2>2. \A y \in U \cup {x} : f[y] \in Int
    OBVIOUS
  <2>3. Total(f, U \cup {x}) = f[x] + Total(f, U)
    BY <1>2, <2>1, <2>2, TotalAdd
  <2>4. Cardinality(One(U)) \in Nat /\ Total(f, U) = Cardinality(One(U))
    BY <1>2, <2>1, FS_CardinalityType
  <2>5. Total(f, U \cup {x}) = Cardinality(One(U \cup {x}))
    <3>1. CASE f[x] = 1
      <4>1. One(U \cup {x}) = One(U) \cup {x} /\ x \notin One(U)
        BY <1>2, <3>1
      <4>. HIDE DEF One
      <4>2. Cardinality(One(U) \cup {x}) = Cardinality(One(U)) + 1
        BY <2>1, <4>1, FS_AddElement
      <4>3. f[x] + Total(f, U) = Cardinality(One(U)) + 1
        BY <2>4, <3>1
      <4>. QED
        BY <2>3, <4>1, <4>2, <4>3
    <3>2. CASE f[x] # 1
      <4>1. One(U \cup {x}) = One(U) /\ f[x] = 0
        BY <3>2
      <4>. HIDE DEF One
      <4>. QED
        BY <2>3, <2>4, <4>1
    <3>. QED
      BY <3>1, <3>2
  <2>. QED
    BY <2>5
<1>3. SUBSET S \subseteq C
  <2>. HIDE DEF C
  <2>. QED
    BY <1>1, <1>2, SubsetInduct
<1>4. Total(f, S) = Cardinality(One(S))
  BY <1>3
<1>5. Cardinality(One(S)) = Cardinality(S) <=> One(S) = S
  <2>1. One(S) \in SUBSET S
    OBVIOUS
  <2>. HIDE DEF One
  <2>. QED
    BY <2>1, FS_Subset
<1>. QED
  BY <1>4, <1>5

\* A sum does not depend on what its terms are called.
LEMMA TotalMoved ==
  ASSUME NEW S, IsFiniteSet(S), NEW b, \A x, y \in S : b[x] = b[y] => x = y,
         NEW f, NEW e, \A x \in S : f[x] \in Int /\ e[b[x]] = f[x]
  PROVE  Total(f, S) = Total(e, {b[x] : x \in S})
<1>. DEFINE to(U) == {b[x] : x \in U}
            C == {U \in SUBSET S : Total(f, U) = Total(e, to(U))}
<1>1. {} \in C
  <2>1. to({}) = {}
    OBVIOUS
  <2>. HIDE DEF to
  <2>. QED
    BY <2>1, TotalEmpty
<1>2. ASSUME NEW U \in SUBSET S, NEW x \in S, U \in C, x \notin U PROVE U \cup {x} \in C
  <2>1. IsFiniteSet(U)
    BY FS_Subset
  <2>2. to(U \cup {x}) = to(U) \cup {b[x]} /\ b[x] \notin to(U)
    BY <1>2
  <2>3. IsFiniteSet(to(U))
    BY <2>1, ImageFinite
  <2>4. \A y \in to(U) \cup {b[x]} : e[y] \in Int
    OBVIOUS
  <2>. HIDE DEF to
  <2>5. Total(f, U \cup {x}) = f[x] + Total(f, U)
    BY <1>2, <2>1, TotalAdd
  <2>6. Total(e, to(U) \cup {b[x]}) = e[b[x]] + Total(e, to(U))
    BY <2>2, <2>3, <2>4, TotalAdd
  <2>. QED
    BY <1>2, <2>2, <2>5, <2>6
<1>3. SUBSET S \subseteq C
  <2>. HIDE DEF C
  <2>. QED
    BY <1>1, <1>2, SubsetInduct
<1>. QED
  BY <1>3

\* A set with two elements has more than one.
LEMMA MoreThanOne ==
  ASSUME NEW S, IsFiniteSet(S)
  PROVE  Cardinality(S) > 1 <=> \E x, y \in S : x # y
<1>1. Cardinality(S) \in Nat
  BY FS_CardinalityType
<1>2. Cardinality(S) = 0 <=> S = {}
  BY FS_EmptySet
<1>3. Cardinality(S) = 1 <=> \E x : S = {x}
  BY FS_Singleton
<1>4. (\E x, y \in S : x # y) <=> ~(S = {} \/ \E x : S = {x})
  <2>1. S # {} => \E x : x \in S
    OBVIOUS
  <2>2. ASSUME NEW x \in S, \A y \in S : x = y PROVE S = {x}
    BY <2>2
  <2>. QED
    BY <2>1, <2>2
<1>. QED
  BY <1>1, <1>2, <1>3, <1>4

-----------------------------------------------------------------------------
(* Sequences                                                               *)

\* A function on 1..n is a sequence of that length.
LEMMA FunctionIsSeq ==
  ASSUME NEW n \in Nat, NEW S, NEW f \in [1..n -> S]
  PROVE  f \in Seq(S) /\ Len(f) = n
<1>1. f \in Seq(S)
  BY SeqDef
<1>2. Len(f) \in Nat /\ DOMAIN f = 1..Len(f)
  BY <1>1, LenProperties
<1>3. 1..Len(f) = 1..n
  BY <1>2
<1>4. Len(f) = n
  BY <1>2, <1>3
<1>. QED
  BY <1>1, <1>4

\* As many different values as a finite set has are all of them.
LEMMA Onto ==
  ASSUME NEW S, IsFiniteSet(S), NEW n \in Nat, Cardinality(S) = n, NEW f \in [1..n -> S],
         \A i, j \in 1..n : f[i] = f[j] => i = j
  PROVE  \A x \in S : \E k \in 1..n : f[k] = x
<1>1. IsFiniteSet(1..n) /\ Cardinality(1..n) = n
  BY FS_Interval
<1>2. f \in Injection(1..n, S)
  BY DEF Injection, IsInjective
<1>3. Cardinality(1..n) = Cardinality(S)
  BY <1>1
<1>4. f \in Surjection(1..n, S)
  BY <1>1, <1>2, <1>3, FS_Injection
<1>. QED
  BY <1>4 DEF Surjection

\* SetToSeq lists every element once.
LEMMA SetToSeqIs ==
  ASSUME NEW S, IsFiniteSet(S), NEW q, q = SetToSeq(S)
  PROVE  /\ q \in Seq(S) /\ Len(q) = Cardinality(S)
         /\ \A i, j \in DOMAIN q : q[i] = q[j] => i = j
         /\ \A x \in S : \E k \in DOMAIN q : q[k] = x
<1>. DEFINE n == Cardinality(S)
<1>1. n \in Nat /\ ExistsBijection(1..n, S)
  BY FS_CardinalityType
<1>3. PICK f \in [1..n -> S] : IsInjective(f)
  BY <1>1 DEF ExistsBijection, Bijection, Injection
<1>4. q \in [1..n -> S] /\ IsInjective(q)
  <2>1. q = CHOOSE g \in [1..n -> S] : IsInjective(g)
    BY DEF SetToSeq
  <2>. QED
    BY <1>3, <2>1, Zenon
<1>5. Cardinality(S) = n
  OBVIOUS
<1>7. q \in Seq(S) /\ Len(q) = n
  BY <1>1, <1>4, FunctionIsSeq
<1>. HIDE DEF n
<1>8. \A i, j \in DOMAIN q : q[i] = q[j] => i = j
  BY <1>4 DEF IsInjective
<1>9. \A x \in S : \E k \in DOMAIN q : q[k] = x
  BY <1>1, <1>4, <1>5, Onto DEF IsInjective
<1>. QED
  BY <1>7, <1>8, <1>9 DEF n

\* What Filtered keeps of the first k entries.
Sifted(out, seq, S, k) ==
  /\ \A a \in DOMAIN out : out[a] \in S /\ \E i \in 1..k : out[a] = seq[i]
  /\ \A a, b \in DOMAIN out : a < b => \E i, j \in 1..k : i < j /\ out[a] = seq[i] /\ out[b] = seq[j]
  /\ \A i \in 1..k : seq[i] \in S => \E a \in DOMAIN out : out[a] = seq[i]

\* One element more, kept or not.
LEMMA SiftedStep ==
  ASSUME NEW D, NEW S, NEW seq \in Seq(D), NEW k \in 1..Len(seq), NEW out \in Seq(D),
         Sifted(out, seq, S, k - 1)
  PROVE  IF seq[k] \notin S THEN Sifted(out, seq, S, k)
         ELSE Append(out, seq[k]) \in Seq(D) /\ Sifted(Append(out, seq[k]), seq, S, k)
<1>1. k \in Nat /\ \A i \in 1..k : i \in 1..(k - 1) \/ i = k
  OBVIOUS
<1>2. \A i \in 1..(k - 1) : i \in 1..k /\ i < k
  OBVIOUS
<1>3. CASE seq[k] \notin S
  <2>1. \A i \in 1..k : seq[i] \in S => i \in 1..(k - 1)
    BY <1>1, <1>3
  <2>. QED
    BY <1>2, <1>3, <2>1 DEF Sifted
<1>4. CASE seq[k] \in S
  <2>. DEFINE new == Append(out, seq[k])
              n == Len(out)
  <2>1. seq[k] \in D
    BY ElementOfSeq
  <2>2. /\ n \in Nat /\ DOMAIN out = 1..n
        /\ new \in Seq(D) /\ DOMAIN new = 1..(n + 1)
        /\ new[n + 1] = seq[k]
        /\ \A a \in 1..n : new[a] = out[a]
    BY <2>1, AppendProperties, LenProperties
  <2>. HIDE DEF new, n
  <2>3. \A a \in 1..(n + 1) : a \in 1..n \/ a = n + 1
    BY <2>2
  <2>4. k \in 1..k
    BY <1>1
  <2>5. ASSUME NEW a \in DOMAIN new PROVE new[a] \in S /\ \E i \in 1..k : new[a] = seq[i]
    <3>1. CASE a \in 1..n
      <4>1. new[a] = out[a] /\ out[a] \in S /\ \E i \in 1..(k - 1) : out[a] = seq[i]
        BY <2>2, <3>1 DEF Sifted
      <4>. QED
        BY <1>2, <4>1
    <3>2. CASE a = n + 1
      BY <1>4, <2>2, <2>4, <3>2
    <3>. QED
      BY <2>2, <2>3, <3>1, <3>2
  <2>6. ASSUME NEW a \in DOMAIN new, NEW b \in DOMAIN new, a < b
        PROVE  \E i, j \in 1..k : i < j /\ new[a] = seq[i] /\ new[b] = seq[j]
    <3>1. a \in 1..n
      BY <2>2, <2>6
    <3>2. CASE b \in 1..n
      BY <1>2, <2>2, <2>6, <3>1, <3>2 DEF Sifted
    <3>3. CASE b = n + 1
      <4>1. PICK i \in 1..(k - 1) : out[a] = seq[i]
        BY <2>2, <3>1 DEF Sifted
      <4>2. i < k /\ i \in 1..k /\ new[a] = seq[i] /\ new[b] = seq[k]
        BY <1>2, <2>2, <3>1, <3>3, <4>1
      <4>. QED
        BY <2>4, <4>2
    <3>. QED
      BY <2>2, <2>3, <3>2, <3>3
  <2>7. ASSUME NEW i \in 1..k, seq[i] \in S PROVE \E a \in DOMAIN new : new[a] = seq[i]
    <3>1. CASE i \in 1..(k - 1)
      <4>1. PICK a \in 1..n : out[a] = seq[i]
        BY <2>2, <2>7, <3>1 DEF Sifted
      <4>2. a \in 1..(n + 1)
        BY <2>2
      <4>. QED
        BY <2>2, <4>1, <4>2
    <3>2. CASE i = k
      <4>1. n + 1 \in 1..(n + 1)
        BY <2>2
      <4>. QED
        BY <2>2, <3>2, <4>1
    <3>. QED
      BY <1>1, <3>1, <3>2
  <2>8. Sifted(new, seq, S, k)
    BY <2>5, <2>6, <2>7 DEF Sifted
  <2>. QED
    BY <1>4, <2>2, <2>8 DEF new
<1>. QED
  BY <1>3, <1>4

\* Filtered keeps the elements of S, in their order.
LEMMA FilteredIs ==
  ASSUME NEW D, NEW S, NEW seq \in Seq(D)
  PROVE  Filtered(seq, S) \in Seq(D) /\ Sifted(Filtered(seq, S), seq, S, Len(seq))
<1>. DEFINE n == Len(seq)
            Q == Seq(D)
            Next1(k, s) == IF seq[k] \in S THEN Append(s, seq[k]) ELSE s
            step == [q \in (1..n) \X Q |-> Next1(q[1], q[2])]
<1>1. n \in Nat
  BY LenProperties
<1>2. <<>> \in Q
  BY EmptySeq
<1>3. \A k \in 1..n : \A s \in Q : Next1(k, s) \in Q
  BY ElementOfSeq, AppendProperties
<1>4. step \in [(1..n) \X Q -> Q]
  <2>. HIDE DEF Next1, Q, n
  <2>. QED
    BY <1>3
<1>5. PICK g \in [0..n -> Q] : IsRecursion(g, n, <<>>, step)
  <2>. HIDE DEF step, Q, n
  <2>. QED
    BY <1>1, <1>2, <1>4, RecursionExists
<1>6. ASSUME NEW k \in 0..n, k # 0 PROVE step[<<k, g[k - 1]>>] = Next1(k, g[k - 1])
  <2>. HIDE DEF Q, Next1, n
  <2>1. k \in 1..n /\ k - 1 \in 0..n
    BY <1>1, <1>6
  <2>2. g[k - 1] \in Q
    BY <2>1
  <2>3. <<k, g[k - 1]>> \in (1..n) \X Q
    BY <2>1, <2>2
  <2>. QED
    BY <2>3
<1>7. g = [k \in 0..n |-> IF k = 0 THEN <<>> ELSE Next1(k, g[k - 1])]
  <2>. HIDE DEF step, Q, Next1, n
  <2>. QED
    BY <1>5, <1>6 DEF IsRecursion
<1>. DEFINE h == CHOOSE f : f = [k \in 0..n |-> IF k = 0 THEN <<>>
                                       ELSE IF seq[k] \in S THEN Append(f[k - 1], seq[k])
                                       ELSE f[k - 1]]
<1>8. Filtered(seq, S) = h[n]
  BY DEF Filtered
<1>9. h = [k \in 0..n |-> IF k = 0 THEN <<>> ELSE Next1(k, h[k - 1])]
  <2>. HIDE DEF n
  <2>. QED
    BY <1>7, Zenon
<1>. HIDE DEF h
<1>. DEFINE C == {k \in 0..n : h[k] \in Q /\ Sifted(h[k], seq, S, k)}
<1>10. 0 \in C
  <2>1. h[0] = <<>> /\ 0 \in 0..n
    BY <1>1, <1>9
  <2>2. DOMAIN <<>> = {}
    OBVIOUS
  <2>3. 1..0 = {}
    OBVIOUS
  <2>. HIDE DEF n, Q
  <2>. QED
    BY <1>2, <2>1, <2>2, <2>3 DEF Sifted
<1>11. ASSUME NEW k \in 1..n, k - 1 \in C PROVE k \in C
  <2>. HIDE DEF Next1
  <2>1. h[k] = Next1(k, h[k - 1])
    BY <1>1, <1>9
  <2>2. h[k - 1] \in Seq(D) /\ Sifted(h[k - 1], seq, S, k - 1)
    BY <1>11
  <2>3. Next1(k, h[k - 1]) \in Seq(D) /\ Sifted(Next1(k, h[k - 1]), seq, S, k)
    BY <2>2, SiftedStep DEF Next1
  <2>. QED
    BY <1>1, <2>1, <2>3
<1>12. 0..n \subseteq C
  <2>. HIDE DEF C, n
  <2>. QED
    BY <1>1, <1>10, <1>11, UptoInduct
<1>13. n \in C
  BY <1>1, <1>12
<1>. QED
  BY <1>8, <1>13

\* What is filtered from a list without repetitions has none, and is what both have.
LEMMA FilteredOnce ==
  ASSUME NEW D, NEW S, NEW seq \in Seq(D), \A i, j \in DOMAIN seq : seq[i] = seq[j] => i = j,
         NEW out, out = Filtered(seq, S)
  PROVE  /\ out \in Seq(D)
         /\ \A a, b \in DOMAIN out : out[a] = out[b] => a = b
         /\ \A x : x \in Range(out) <=> x \in Range(seq) /\ x \in S
<1>. DEFINE n == Len(seq)
<1>1. out \in Seq(D) /\ Sifted(out, seq, S, n)
  BY FilteredIs
<1>2. DOMAIN seq = 1..n /\ n \in Nat /\ DOMAIN out = 1..Len(out) /\ Len(out) \in Nat
  BY <1>1, LenProperties
<1>. HIDE DEF n
<1>3. ASSUME NEW a \in DOMAIN out, NEW b \in DOMAIN out, a < b PROVE out[a] # out[b]
  <2>1. PICK i \in 1..n, j \in 1..n : i < j /\ out[a] = seq[i] /\ out[b] = seq[j]
    BY <1>1, <1>3 DEF Sifted
  <2>. QED
    BY <1>2, <2>1
<1>4. ASSUME NEW a \in DOMAIN out, NEW b \in DOMAIN out, out[a] = out[b] PROVE a = b
  <2>1. ~ (a < b) /\ ~ (b < a)
    BY <1>3, <1>4
  <2>. QED
    BY <1>2, <2>1
<1>5. ASSUME NEW x PROVE x \in Range(out) <=> x \in Range(seq) /\ x \in S
  <2>1. x \in Range(out) <=> \E a \in DOMAIN out : out[a] = x
    BY DEF Range
  <2>2. x \in Range(seq) <=> \E i \in 1..n : seq[i] = x
    BY <1>2 DEF Range
  <2>3. (\E a \in DOMAIN out : out[a] = x) <=> (\E i \in 1..n : seq[i] = x) /\ x \in S
    BY <1>1 DEF Sifted
  <2>. QED
    BY <2>1, <2>2, <2>3
<1>. QED
  BY <1>1, <1>4, <1>5

\* A list put after another, neither repeating itself nor the other.
LEMMA JoinedOnce ==
  ASSUME NEW D, NEW p \in Seq(D), NEW q \in Seq(D),
         \A i, j \in DOMAIN p : p[i] = p[j] => i = j,
         \A i, j \in DOMAIN q : q[i] = q[j] => i = j,
         \A i \in DOMAIN p, j \in DOMAIN q : p[i] # q[j]
  PROVE  /\ p \o q \in Seq(D)
         /\ \A i, j \in DOMAIN (p \o q) : (p \o q)[i] = (p \o q)[j] => i = j
         /\ Range(p \o q) = Range(p) \cup Range(q)
<1>. DEFINE n == Len(p)
            m == Len(q)
            r == p \o q
<1>1. /\ n \in Nat /\ DOMAIN p = 1..n /\ m \in Nat /\ DOMAIN q = 1..m
      /\ r \in Seq(D) /\ Len(r) = n + m
      /\ \A i \in 1..(n + m) : r[i] = IF i <= n THEN p[i] ELSE q[i - n]
  BY LenProperties, ConcatProperties
<1>2. DOMAIN r = 1..(n + m)
  BY <1>1, LenProperties
<1>. HIDE DEF n, m, r
<1>3. \A i \in 1..(n + m) : \/ i \in 1..n /\ r[i] = p[i]
                            \/ \E k \in 1..m : i = n + k /\ r[i] = q[k]
  <2>. SUFFICES ASSUME NEW i \in 1..(n + m), i \notin 1..n
                PROVE  \E k \in 1..m : i = n + k /\ r[i] = q[k]
    BY <1>1
  <2>1. i - n \in 1..m /\ i = n + (i - n) /\ ~ (i <= n)
    BY <1>1
  <2>. QED
    BY <1>1, <2>1
<1>4. \A i \in 1..n : i \in 1..(n + m) /\ r[i] = p[i]
  BY <1>1
<1>5. ASSUME NEW k \in 1..m PROVE n + k \in 1..(n + m) /\ r[n + k] = q[k]
  <2>1. n + k \in 1..(n + m) /\ ~ (n + k <= n) /\ (n + k) - n = k
    BY <1>1
  <2>. QED
    BY <1>1, <2>1
<1>6. ASSUME NEW i \in 1..(n + m), NEW j \in 1..(n + m), r[i] = r[j] PROVE i = j
  <2>0. /\ \A x, y \in 1..n : p[x] = p[y] => x = y
        /\ \A x, y \in 1..m : q[x] = q[y] => x = y
        /\ \A x \in 1..n, y \in 1..m : p[x] # q[y]
    BY <1>1
  <2>1. CASE i \in 1..n /\ r[i] = p[i]
    BY <1>3, <1>6, <2>0, <2>1
  <2>2. ASSUME NEW k \in 1..m, i = n + k, r[i] = q[k] PROVE i = j
    BY <1>3, <1>6, <2>0, <2>2
  <2>. QED
    BY <1>3, <2>1, <2>2
<1>7. Range(r) = Range(p) \cup Range(q)
  <2>1. \A x : x \in Range(r) <=> \E i \in 1..(n + m) : r[i] = x
    BY <1>2 DEF Range
  <2>2. \A x : x \in Range(p) \cup Range(q) <=> (\E i \in 1..n : p[i] = x) \/ \E k \in 1..m : q[k] = x
    BY <1>1 DEF Range
  <2>3. \A x : (\E i \in 1..(n + m) : r[i] = x) <=> (\E i \in 1..n : p[i] = x) \/ \E k \in 1..m : q[k] = x
    BY <1>3, <1>4, <1>5
  <2>. QED
    BY <2>1, <2>2, <2>3
<1>. QED
  BY <1>1, <1>2, <1>6, <1>7 DEF r

\* FlattenSeq keeps what is in the sequences it joins.
LEMMA FlattenSeqIs ==
  ASSUME NEW D, NEW seqs \in Seq(Seq(D)), NEW flat, flat = FlattenSeq(seqs)
  PROVE  /\ flat \in Seq(D)
         /\ \A k \in DOMAIN seqs : \A i \in DOMAIN seqs[k] :
              \E j \in DOMAIN flat : flat[j] = seqs[k][i]
<1>. DEFINE n == Len(seqs)
            Q == Seq(D)
            step == [q \in (1..n) \X Q |-> q[2] \o seqs[q[1]]]
            f == CHOOSE h : h = [i \in 1..n |-> IF i = 1 THEN seqs[i] ELSE h[i - 1] \o seqs[i]]
<1>0. n \in Nat /\ DOMAIN seqs = 1..n /\ \A k \in 1..n : seqs[k] \in Q
  OBVIOUS
<1>1. CASE n = 0
  <2>1. flat = seqs /\ seqs = <<>>
    BY <1>1 DEF FlattenSeq
  <2>. QED
    BY <1>0, <1>1, <2>1
<1>2. CASE n # 0
  <2>0. flat = f[n]
    BY <1>2 DEF FlattenSeq
  <2>. HIDE DEF n
  <2>1. step \in [(1..n) \X Q -> Q] /\ <<>> \in Q
    <3>1. ASSUME NEW k \in 1..n, NEW s \in Q PROVE s \o seqs[k] \in Q
      BY <1>0, ConcatProperties
    <3>2. <<>> \in Q
      OBVIOUS
    <3>. HIDE DEF Q
    <3>. QED
      BY <3>1, <3>2
  <2>. HIDE DEF Q
  <2>2. PICK g \in [0..n -> Q] : IsRecursion(g, n, <<>>, step)
    <3>. HIDE DEF step
    <3>. QED
      BY <1>0, <2>1, RecursionExists
  <2>3. g[0] = <<>> /\ \A k \in 1..n : g[k] = g[k - 1] \o seqs[k]
    <3>1. ASSUME NEW k \in 1..n PROVE g[k] = g[k - 1] \o seqs[k]
      <4>1. k \in 0..n /\ k # 0 /\ k - 1 \in 0..n
        BY <1>0
      <4>2. <<k, g[k - 1]>> \in (1..n) \X Q
        BY <4>1
      <4>3. g[k] = step[<<k, g[k - 1]>>]
        <5>. HIDE DEF step
        <5>. QED
          BY <2>2, <4>1 DEF IsRecursion
      <4>. QED
        BY <4>2, <4>3
    <3>2. 0 \in 0..n
      BY <1>0
    <3>. HIDE DEF step
    <3>. QED
      BY <2>2, <3>1, <3>2 DEF IsRecursion
  <2>. DEFINE e == [i \in 1..n |-> g[i]]
  <2>4. ASSUME NEW k \in 1..n PROVE e[k] = IF k = 1 THEN seqs[k] ELSE e[k - 1] \o seqs[k]
    <3>1. CASE k = 1
      <4>0. k - 1 = 0 /\ k \in 1..n
        BY <3>1
      <4>1. e[k] = <<>> \o seqs[k]
        <5>1. e[k] = g[k]
          BY <4>0
        <5>2. g[k] = g[k - 1] \o seqs[k]
          BY <2>3, <4>0
        <5>. QED
          BY ONLY <2>3, <4>0, <5>1, <5>2
      <4>2. <<>> \o seqs[k] = seqs[k]
        BY <1>0, ConcatEmptySeq DEF Q
      <4>. QED
        BY <3>1, <4>1, <4>2
    <3>2. CASE k # 1
      <4>1. k - 1 \in 1..n
        BY <1>0, <3>2
      <4>. QED
        BY <2>3, <3>2, <4>1
    <3>. QED
      BY <3>1, <3>2
  <2>5. e = [i \in 1..n |-> IF i = 1 THEN seqs[i] ELSE e[i - 1] \o seqs[i]]
    <3>1. e = [i \in 1..n |-> e[i]]
      OBVIOUS
    <3>. HIDE DEF e
    <3>. QED
      BY <2>4, <3>1
  <2>. HIDE DEF e
  <2>6. f = [i \in 1..n |-> IF i = 1 THEN seqs[i] ELSE f[i - 1] \o seqs[i]]
    BY <2>5, Zenon
  <2>. HIDE DEF f
  <2>. DEFINE Has(m) == \A k \in 1..m : \A i \in DOMAIN seqs[k] :
                          \E j \in DOMAIN f[m] : f[m][j] = seqs[k][i]
              C == {m \in 0..n : m = 0 \/ (f[m] \in Q /\ Has(m))}
  <2>7. 0 \in C
    BY <1>0
  <2>8. ASSUME NEW m \in 1..n, m - 1 \in C PROVE m \in C
    <3>0. m \in 0..n /\ m # 0
      BY <1>0
    <3>1. CASE m = 1
      <4>1. f[m] = seqs[m]
        BY <2>6, <3>1
      <4>2. \A k \in 1..m : k = m
        BY <3>1
      <4>. QED
        BY <1>0, <3>0, <4>1, <4>2
    <3>2. CASE m # 1
      <4>1. m - 1 \in 1..n /\ m - 1 # 0
        BY <1>0, <3>2
      <4>. DEFINE s == f[m - 1]
                  t == seqs[m]
      <4>2. f[m] = s \o t
        BY <2>6, <3>2
      <4>3. s \in Q /\ Has(m - 1) /\ t \in Q
        BY <1>0, <2>8, <4>1
      <4>. HIDE DEF s, t, Has
      <4>4. /\ s \o t \in Q /\ DOMAIN s = 1..Len(s) /\ DOMAIN t = 1..Len(t)
            /\ Len(s) \in Nat /\ Len(t) \in Nat
            /\ DOMAIN (s \o t) = 1..(Len(s) + Len(t))
            /\ \A i \in 1..(Len(s) + Len(t)) :
                 (s \o t)[i] = IF i <= Len(s) THEN s[i] ELSE t[i - Len(s)]
        <5>1. \A u, v \in Seq(D) :
                /\ u \o v \in Seq(D) /\ Len(u \o v) = Len(u) + Len(v)
                /\ \A i \in 1..(Len(u) + Len(v)) :
                     (u \o v)[i] = IF i <= Len(u) THEN u[i] ELSE v[i - Len(u)]
          BY ConcatProperties
        <5>2. \A u \in Seq(D) : DOMAIN u = 1..Len(u) /\ Len(u) \in Nat
          OBVIOUS
        <5>. QED
          BY ONLY <4>3, <5>1, <5>2 DEF Q
      <4>5. ASSUME NEW k \in 1..m, NEW i \in DOMAIN seqs[k]
            PROVE  \E j \in DOMAIN (s \o t) : (s \o t)[j] = seqs[k][i]
        <5>1. CASE k = m
          <6>1. i \in 1..Len(t)
            BY <4>4, <4>5, <5>1 DEF t
          <6>2. Len(s) + i \in 1..(Len(s) + Len(t)) /\ ~(Len(s) + i <= Len(s)) /\ (Len(s) + i) - Len(s) = i
            BY <4>4, <6>1
          <6>3. (s \o t)[Len(s) + i] = t[i]
            BY <4>4, <6>2
          <6>. QED
            BY <4>4, <5>1, <6>2, <6>3 DEF t
        <5>2. CASE k # m
          <6>1. k \in 1..(m - 1)
            BY <1>0, <5>2
          <6>2. PICK j \in DOMAIN s : s[j] = seqs[k][i]
            BY <4>3, <6>1 DEF Has, s
          <6>3. j \in 1..(Len(s) + Len(t)) /\ j <= Len(s)
            BY <4>4
          <6>4. (s \o t)[j] = s[j]
            BY <4>4, <6>3
          <6>. QED
            BY <4>4, <6>2, <6>3, <6>4
        <5>. QED
          BY <5>1, <5>2
      <4>6. Has(m)
        BY <4>2, <4>5 DEF Has
      <4>. QED
        BY <3>0, <4>2, <4>4, <4>6
    <3>. QED
      BY <3>1, <3>2
  <2>9. 0..n \subseteq C
    <3>. HIDE DEF C
    <3>. QED
      BY <1>0, <2>7, <2>8, UptoInduct
  <2>10. f[n] \in Q /\ Has(n)
    <3>1. n \in C
      BY <1>0, <2>9
    <3>. HIDE DEF Has
    <3>. QED
      BY <1>2, <3>1
  <2>. QED
    BY <1>0, <2>0, <2>10 DEF Q
<1>. QED
  BY <1>1, <1>2

\* A list that grows by one element at a time, each from those before it.
IsGrowth(f, n, body) ==
  f = [k \in 0..n |-> IF k = 0 THEN <<>> ELSE Append(f[k - 1], body[<<k, f[k - 1]>>])]
IsGrown(f, n, v) == f = [k \in 0..n |-> IF k = 0 THEN <<>> ELSE Append(f[k - 1], v[k])]
GrowsIn(f, n, v, D) == \A k \in 1..n : f[k - 1] \in Seq(D) /\ Len(f[k - 1]) = k - 1 => v[k] \in D
Consists(f, n, v, D) ==
  /\ f[n] \in Seq(D) /\ Len(f[n]) = n
  /\ \A k \in 1..n :
       /\ v[k] \in D /\ f[n][k] = v[k]
       /\ f[k - 1] \in Seq(D) /\ Len(f[k - 1]) = k - 1
       /\ \A j \in 1..(k - 1) : f[k - 1][j] = f[n][j]

\* Such a list exists, when each element it is to be given is in D.
LEMMA GrownExists ==
  ASSUME NEW n \in Nat, NEW D, NEW body,
         \A k \in 1..n : \A s \in Seq(D) : Len(s) = k - 1 => body[<<k, s>>] \in D
  PROVE  \E f \in [0..n -> Seq(D)] : IsGrowth(f, n, body)
<1>. DEFINE Q == Seq(D)
            Next1(k, s) == IF Len(s) = k - 1 THEN Append(s, body[<<k, s>>]) ELSE s
            step == [q \in (1..n) \X Q |-> Next1(q[1], q[2])]
<1>1. <<>> \in Q
  BY EmptySeq
<1>2. \A k \in 1..n : \A s \in Q : Next1(k, s) \in Q
  BY AppendProperties
<1>3. step \in [(1..n) \X Q -> Q]
  <2>. HIDE DEF Next1, Q
  <2>. QED
    BY <1>2
<1>4. PICK g \in [0..n -> Q] : IsRecursion(g, n, <<>>, step)
  <2>. HIDE DEF step, Q
  <2>. QED
    BY <1>1, <1>3, RecursionExists
<1>5. ASSUME NEW k \in 1..n PROVE g[k - 1] \in Q /\ g[k] = Next1(k, g[k - 1])
  <2>. HIDE DEF Q, Next1
  <2>1. k \in 0..n /\ k # 0 /\ k - 1 \in 0..n
    BY <1>5
  <2>2. g[k - 1] \in Q
    BY <2>1
  <2>3. <<k, g[k - 1]>> \in (1..n) \X Q
    BY <2>1, <2>2
  <2>4. g[k] = step[<<k, g[k - 1]>>]
    <3>. HIDE DEF step
    <3>. QED
      BY <1>4, <2>1 DEF IsRecursion
  <2>. QED
    BY <2>2, <2>3, <2>4
<1>6. g[0] = <<>>
  <2>. HIDE DEF step
  <2>1. 0 \in 0..n
    OBVIOUS
  <2>. QED
    BY <1>4, <2>1 DEF IsRecursion
<1>. DEFINE C == {k \in 0..n : Len(g[k]) = k}
<1>7. 0..n \subseteq C
  <2>1. 0 \in C
    BY <1>6
  <2>2. ASSUME NEW k \in 1..n, k - 1 \in C PROVE k \in C
    <3>1. g[k - 1] \in Q /\ Len(g[k - 1]) = k - 1 /\ g[k] = Append(g[k - 1], body[<<k, g[k - 1]>>])
      BY <1>5, <2>2
    <3>2. Len(g[k]) = (k - 1) + 1
      BY <3>1, <2>2, AppendProperties
    <3>. QED
      BY <3>2
  <2>. HIDE DEF C
  <2>. QED
    BY <2>1, <2>2, UptoInduct
<1>8. ASSUME NEW k \in 0..n
      PROVE  g[k] = IF k = 0 THEN <<>> ELSE Append(g[k - 1], body[<<k, g[k - 1]>>])
  <2>1. CASE k = 0
    BY <1>6, <2>1
  <2>2. CASE k # 0
    <3>1. k \in 1..n /\ k - 1 \in 0..n
      BY <2>2
    <3>2. Len(g[k - 1]) = k - 1
      BY <1>7, <3>1
    <3>. QED
      BY <1>5, <2>2, <3>1, <3>2
  <2>. QED
    BY <2>1, <2>2
<1>9. IsGrowth(g, n, body)
  BY <1>8 DEF IsGrowth
<1>. QED
  BY <1>9

\* Its elements, and those that an element was made of.
LEMMA GrownIs ==
  ASSUME NEW n \in Nat, NEW D, NEW f, NEW v, IsGrown(f, n, v), GrowsIn(f, n, v, D)
  PROVE  Consists(f, n, v, D)
<1>. DEFINE Is(k) == /\ f[k] \in Seq(D) /\ Len(f[k]) = k
                     /\ \A j \in 1..k : v[j] \in D /\ f[k][j] = v[j]
            C == {k \in 0..n : Is(k)}
<1>1. 0 \in C
  <2>1. 0 \in 0..n /\ f[0] = <<>>
    BY DEF IsGrown
  <2>2. <<>> \in Seq(D) /\ Len(<<>>) = 0
    BY EmptySeq
  <2>3. 1..0 = {}
    OBVIOUS
  <2>4. Is(0)
    BY ONLY <2>1, <2>2, <2>3
  <2>. HIDE DEF Is
  <2>. QED
    BY <2>1, <2>4
<1>2. ASSUME NEW k \in 1..n, k - 1 \in C PROVE k \in C
  <2>1. k \in 0..n /\ k # 0 /\ k \in Nat /\ (k - 1) + 1 = k
    OBVIOUS
  <2>2. f[k] = Append(f[k - 1], v[k])
    BY <2>1 DEF IsGrown
  <2>3. Is(k - 1)
    BY <1>2
  <2>. DEFINE s == f[k - 1]
              e == v[k]
              m == k - 1
  <2>4. s \in Seq(D) /\ Len(s) = m
    BY <2>3
  <2>5. e \in D
    BY <2>4 DEF GrowsIn
  <2>. HIDE DEF s, e
  <2>6. /\ Append(s, e) \in Seq(D) /\ Len(Append(s, e)) = m + 1
        /\ \A j \in 1..m : Append(s, e)[j] = s[j]
        /\ Append(s, e)[m + 1] = e
    <3>. HIDE DEF m
    <3>. QED
      BY ONLY <2>4, <2>5, AppendProperties
  <2>7. ASSUME NEW j \in 1..k PROVE v[j] \in D /\ f[k][j] = v[j]
    <3>1. CASE j = k
      BY <2>1, <2>2, <2>5, <2>6, <3>1 DEF s, e
    <3>2. CASE j # k
      <4>1. j \in 1..(k - 1)
        BY <3>2
      <4>2. f[k][j] = f[k - 1][j]
        BY <2>2, <2>6, <4>1 DEF s, e
      <4>. QED
        BY <2>3, <4>1, <4>2
    <3>. QED
      BY <3>1, <3>2
  <2>8. f[k] \in Seq(D) /\ Len(f[k]) = k
    BY <2>1, <2>2, <2>6 DEF s, e
  <2>. QED
    BY <2>1, <2>7, <2>8
<1>3. 0..n \subseteq C
  <2>. HIDE DEF C
  <2>. QED
    BY <1>1, <1>2, UptoInduct
<1>4. ASSUME NEW k \in 1..n PROVE Is(k - 1)
  <2>1. k - 1 \in 0..n
    OBVIOUS
  <2>. QED
    BY <1>3, <2>1
<1>5. Is(n)
  <2>1. n \in 0..n
    OBVIOUS
  <2>. QED
    BY <1>3, <2>1
<1>6. ASSUME NEW k \in 1..n, NEW j \in 1..(k - 1) PROVE f[k - 1][j] = f[n][j]
  <2>1. j \in 1..n
    OBVIOUS
  <2>. QED
    BY <1>4, <1>5, <2>1
<1>. QED
  BY <1>4, <1>5, <1>6 DEF Consists
===============================================================================
