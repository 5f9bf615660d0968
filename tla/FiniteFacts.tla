----------------------------- MODULE FiniteFacts -----------------------------
(***************************************************************************)
(* What the models' sums and maxima over finite sets and their selections  *)
(* from sequences come to.  A property is given to an induction as the set *)
(* of those that have it, and the induction is by the least that has it    *)
(* not (WFMin).                                                            *)
(***************************************************************************)
EXTENDS Integers, SequencesExt, Selections, FiniteSetTheorems,
        WellFoundedInduction, TLAPS

\* Induction over the subsets of a finite set, for a property given as the set of
\* those that have it.
LEMMA SubsetInduction ==
    ASSUME NEW S, IsFiniteSet(S), NEW Good,
           \A T \in SUBSET S : (\A U \in SUBSET T : U # T => U \in Good) => T \in Good
    PROVE  S \in Good
<1> DEFINE R == StrictSubsetOrdering(S)
           Bad == {T \in SUBSET S : T \notin Good}
<1>1. IsWellFoundedOn(R, SUBSET S)
    BY FS_StrictSubsetOrderingWellFounded, FS_FiniteSubsetsOfFinite
<1>2. SUFFICES ASSUME Bad # {} PROVE FALSE
    OBVIOUS
<1>3. \A U, T \in SUBSET S : U \subseteq T /\ U # T => <<U, T>> \in R
    BY DEF StrictSubsetOrdering
<1> HIDE DEF R
<1>4. PICK T \in Bad : \A U \in Bad : ~(<<U, T>> \in R)
  <2>1. Bad \subseteq SUBSET S
      OBVIOUS
  <2> HIDE DEF Bad
  <2> QED BY <1>1, <1>2, <2>1, WFMin
<1>5. ASSUME NEW U \in SUBSET T, U # T PROVE U \in Good
  <2>1. U \in SUBSET S /\ T \in SUBSET S /\ U \subseteq T
      OBVIOUS
  <2>2. <<U, T>> \in R
      BY <1>3, <1>5, <2>1
  <2>3. U \notin Bad
      BY <1>4, <2>2
  <2> QED BY <2>1, <2>3
<1> QED BY <1>4, <1>5

\* Induction over the numbers.
LEMMA NatSetInduction ==
    ASSUME NEW Good, 0 \in Good, \A n \in Nat : n \in Good => n + 1 \in Good
    PROVE  \A n \in Nat : n \in Good
<1> DEFINE R == OpToRel(<, Nat)
           Bad == {n \in Nat : n \notin Good}
<1>1. IsWellFoundedOn(R, Nat)
    BY NatLessThanWellFounded
<1>2. SUFFICES ASSUME Bad # {} PROVE FALSE
    OBVIOUS
<1>3. \A m, n \in Nat : m < n => <<m, n>> \in R
    BY DEF OpToRel
<1> HIDE DEF R
<1>4. PICK n \in Bad : \A m \in Bad : ~(<<m, n>> \in R)
  <2>1. Bad \subseteq Nat
      OBVIOUS
  <2> HIDE DEF Bad
  <2> QED BY <1>1, <1>2, <2>1, WFMin
<1>5. n # 0 /\ n - 1 \in Nat /\ n - 1 < n
    OBVIOUS
<1>6. n - 1 \in Good
    BY <1>3, <1>4, <1>5
<1> QED BY <1>4, <1>5, <1>6

\* The place of the least member, for an argument by the least counterexample.
LEMMA Least ==
    ASSUME NEW T \in SUBSET Nat, T # {}
    PROVE  \E n \in T : \A m \in T : n <= m
<1> DEFINE R == OpToRel(<, Nat)
<1>1. IsWellFoundedOn(R, Nat)
    BY NatLessThanWellFounded
<1> HIDE DEF R
<1>2. PICK n \in T : \A m \in T : ~(<<m, n>> \in R)
    BY <1>1, WFMin
<1>3. \A m \in T : m < n => <<m, n>> \in R
    BY DEF R, OpToRel
<1>4. n \in Nat /\ \A m \in T : m \in Nat /\ ~(m < n)
    BY <1>2, <1>3
<1> QED BY <1>4

LEMMA Greatest ==
    ASSUME NEW N \in Nat, NEW T \in SUBSET (0 .. N), T # {}
    PROVE  \E n \in T : \A m \in T : m <= n
<1> DEFINE U == {N - m : m \in T}
<1>1. U \in SUBSET Nat /\ U # {}
  <2>1. \A m \in T : m \in 0 .. N /\ N - m \in Nat
      OBVIOUS
  <2>2. PICK m \in T : TRUE
      OBVIOUS
  <2>3. N - m \in U
      OBVIOUS
  <2> QED BY <2>1, <2>3
<1>2. PICK u \in U : \A w \in U : u <= w
    BY <1>1, Least
<1>3. PICK n \in T : u = N - n
    OBVIOUS
<1>4. ASSUME NEW m \in T PROVE m <= n
  <2>1. N - m \in U /\ m \in Nat /\ n \in Nat
      OBVIOUS
  <2> QED BY <1>2, <1>3, <2>1
<1> QED BY <1>4

-----------------------------------------------------------------------------
\* The member a fold takes first.
Chosen(T) == CHOOSE x \in T : TRUE

\* A sum unfolds at the element that is chosen.
Adds(g, f, D) ==
    /\ DOMAIN g = D
    /\ \A T \in D : g[T] = IF T = {} THEN 0 ELSE f[Chosen(T)] + g[T \ {Chosen(T)}]

\* The function by which a sum is defined exists: it does for the subsets of any size.
LEMMA SumIs ==
    ASSUME NEW S, IsFiniteSet(S), NEW f
    PROVE  \E g : Adds(g, f, SUBSET S) /\ SumFunctionOnSet(f, S) = g[S]
<1> DEFINE Body(g) == [T \in SUBSET S |-> IF T = {} THEN 0 ELSE f[Chosen(T)] + g[T \ {Chosen(T)}]]
<1>1. SumFunctionOnSet(f, S) = (CHOOSE g : g = Body(g))[S]
    BY DEF SumFunctionOnSet, FoldFunctionOnSet, MapThenFoldSet, Chosen
<1>2. \A g : g = Body(g) <=> g = [T \in SUBSET S |-> g[T]] /\ Adds(g, f, SUBSET S)
    BY DEF Adds
<1>3. \E g : g = Body(g)
  <2> DEFINE D(n) == {T \in SUBSET S : Cardinality(T) <= n}
             Good == {n \in Nat : \E g : g = [T \in D(n) |-> g[T]] /\ Adds(g, f, D(n))}
  <2>1. 0 \in Good
    <3>1. D(0) = {{}}
        BY FS_EmptySet, FS_Subset, FS_CardinalityType
    <3> DEFINE z == [T \in D(0) |-> 0]
    <3>2. z = [T \in D(0) |-> z[T]] /\ Adds(z, f, D(0))
        BY <3>1 DEF Adds
    <3> HIDE DEF z
    <3> QED BY <3>2
  <2>2. ASSUME NEW n \in Nat, n \in Good PROVE n + 1 \in Good
    <3>1. PICK g : Adds(g, f, D(n))
        BY <2>2
    <3> DEFINE z == [T \in D(n + 1) |-> IF T = {} THEN 0 ELSE f[Chosen(T)] + g[T \ {Chosen(T)}]]
    <3>2. ASSUME NEW T \in D(n + 1), T # {} PROVE T \ {Chosen(T)} \in D(n)
      <4>1. T \in SUBSET S /\ IsFiniteSet(T) /\ Cardinality(T) \in Nat /\ Cardinality(T) <= n + 1
          BY FS_Subset, FS_CardinalityType
      <4>2. Chosen(T) \in T
          BY <3>2 DEF Chosen
      <4>3. Cardinality(T \ {Chosen(T)}) = Cardinality(T) - 1
          BY <4>1, <4>2, FS_RemoveElement
      <4> QED BY <4>1, <4>3
    <3>3. ASSUME NEW T \in D(n) PROVE T \in D(n + 1) /\ z[T] = g[T]
      <4>1. T \in SUBSET S /\ IsFiniteSet(T) /\ Cardinality(T) \in Nat /\ Cardinality(T) <= n
          BY FS_Subset, FS_CardinalityType
      <4>2. T \in D(n + 1)
          BY <4>1
      <4>3. g[T] = IF T = {} THEN 0 ELSE f[Chosen(T)] + g[T \ {Chosen(T)}]
          BY <3>1 DEF Adds
      <4> QED BY <4>2, <4>3
    <3>4. ASSUME NEW T \in D(n + 1)
          PROVE z[T] = IF T = {} THEN 0 ELSE f[Chosen(T)] + z[T \ {Chosen(T)}]
      <4>1. z[T] = IF T = {} THEN 0 ELSE f[Chosen(T)] + g[T \ {Chosen(T)}]
          OBVIOUS
      <4> HIDE DEF z, D
      <4> QED BY <3>2, <3>3, <4>1
    <3>5. z = [T \in D(n + 1) |-> z[T]] /\ DOMAIN z = D(n + 1)
        OBVIOUS
    <3> HIDE DEF z, D
    <3>6. Adds(z, f, D(n + 1))
        BY <3>4, <3>5 DEF Adds
    <3> QED BY <2>2, <3>5, <3>6
  <2>3. \A n \in Nat : n \in Good
    <3> HIDE DEF Good
    <3> QED BY <2>1, <2>2, NatSetInduction
  <2>4. Cardinality(S) \in Nat /\ D(Cardinality(S)) = SUBSET S
      BY FS_CardinalityType, FS_Subset
  <2>5. PICK g : g = [T \in D(Cardinality(S)) |-> g[T]] /\ Adds(g, f, D(Cardinality(S)))
      BY <2>3, <2>4
  <2> HIDE DEF Body
  <2> QED BY <1>2, <2>4, <2>5
<1> DEFINE it == CHOOSE g : g = Body(g)
<1>4. it = Body(it)
  <2> HIDE DEF Body
  <2> QED BY <1>3
<1> HIDE DEF it, Body
<1> QED BY <1>1, <1>2, <1>4 DEF it

\* Sums of the parts agree with the whole.
LEMMA SumUnique ==
    ASSUME NEW S, IsFiniteSet(S), NEW f, NEW g, NEW h, NEW T \in SUBSET S,
           Adds(g, f, SUBSET S), Adds(h, f, SUBSET T)
    PROVE  g[T] = h[T]
<1> DEFINE Good == {U \in SUBSET T : g[U] = h[U]}
<1>1. ASSUME NEW U \in SUBSET T, \A V \in SUBSET U : V # U => V \in Good PROVE U \in Good
  <2>1. CASE U = {}
      BY <2>1 DEF Adds
  <2>2. CASE U # {}
    <3> DEFINE V == U \ {Chosen(U)}
    <3>1. V \in SUBSET U /\ V # U
        BY <2>2 DEF Chosen
    <3>2. g[V] = h[V]
        BY <1>1, <3>1
    <3>3. g[U] = f[Chosen(U)] + g[V] /\ h[U] = f[Chosen(U)] + h[V]
        BY <2>2 DEF Adds
    <3> QED BY <3>2, <3>3
  <2> QED BY <2>1, <2>2
<1>2. IsFiniteSet(T)
    BY FS_Subset
<1>3. T \in Good
  <2> HIDE DEF Good
  <2> QED BY <1>1, <1>2, SubsetInduction
<1> QED BY <1>3

\* A sum is what the member taken first adds to the sum of the others.
LEMMA SumUnfolds ==
    ASSUME NEW S, IsFiniteSet(S), NEW f
    PROVE  /\ S = {} => SumFunctionOnSet(f, S) = 0
           /\ S # {} => SumFunctionOnSet(f, S) = f[Chosen(S)] + SumFunctionOnSet(f, S \ {Chosen(S)})
<1>1. PICK g : Adds(g, f, SUBSET S) /\ SumFunctionOnSet(f, S) = g[S]
    BY SumIs
<1> DEFINE T == S \ {Chosen(S)}
<1>2. IsFiniteSet(T) /\ T \in SUBSET S
    BY FS_Subset
<1>3. PICK h : Adds(h, f, SUBSET T) /\ SumFunctionOnSet(f, T) = h[T]
    BY <1>2, SumIs
<1>4. g[T] = h[T]
  <2> HIDE DEF T
  <2> QED BY <1>1, <1>2, <1>3, SumUnique
<1> QED BY <1>1, <1>3, <1>4 DEF Adds

\* Numbers that count disjoint finite parts of a whole add up to the size of their union.
LEMMA SumOfParts ==
    ASSUME NEW S, IsFiniteSet(S), NEW M, IsFiniteSet(M), NEW F, NEW f,
           \A x \in S : F[x] \subseteq M /\ f[x] = Cardinality(F[x]),
           \A x, y \in S : x # y => F[x] \cap F[y] = {}
    PROVE  SumFunctionOnSet(f, S) = Cardinality(UNION {F[x] : x \in S})
<1> DEFINE Whole(T) == UNION {F[x] : x \in T}
           Good == {T \in SUBSET S : SumFunctionOnSet(f, T) = Cardinality(Whole(T))}
<1>1. ASSUME NEW T \in SUBSET S, \A U \in SUBSET T : U # T => U \in Good PROVE T \in Good
  <2>0. IsFiniteSet(T)
      BY FS_Subset
  <2>1. CASE T = {}
      BY <2>0, <2>1, SumUnfolds, FS_EmptySet
  <2>2. CASE T # {}
    <3> DEFINE x == Chosen(T)
               U == T \ {x}
    <3>1. x \in T /\ x \in S /\ U \in SUBSET T /\ U # T /\ U \in SUBSET S
        BY <2>2 DEF Chosen
    <3>2. SumFunctionOnSet(f, T) = f[x] + SumFunctionOnSet(f, U)
        BY <2>0, <2>2, SumUnfolds
    <3>3. SumFunctionOnSet(f, U) = Cardinality(Whole(U))
        BY <1>1, <3>1
    <3> HIDE DEF x
    <3>4. Whole(T) = F[x] \cup Whole(U)
        BY <3>1
    <3>5. F[x] \cap Whole(U) = {}
        BY <3>1
    <3>6. F[x] \subseteq M /\ Whole(U) \subseteq M
        BY <3>1
    <3> HIDE DEF Whole, U
    <3>7. IsFiniteSet(F[x]) /\ IsFiniteSet(Whole(U))
        BY <3>6, FS_Subset
    <3>8. Cardinality(Whole(T)) = Cardinality(F[x]) + Cardinality(Whole(U))
      <4>1. Cardinality(F[x] \cup Whole(U))
            = Cardinality(F[x]) + Cardinality(Whole(U)) - Cardinality(F[x] \cap Whole(U))
          BY <3>7, FS_Union
      <4>2. Cardinality(F[x]) \in Nat /\ Cardinality(Whole(U)) \in Nat
          BY <3>7, FS_CardinalityType
      <4>3. Cardinality(F[x] \cap Whole(U)) = 0
          BY <3>5, FS_EmptySet
      <4>4. Cardinality(Whole(T)) = Cardinality(F[x] \cup Whole(U))
          BY <3>4
      <4> QED BY <4>1, <4>2, <4>3, <4>4
    <3> QED BY <3>1, <3>2, <3>3, <3>8
  <2> QED BY <2>1, <2>2
<1>2. S \in Good
  <2> HIDE DEF Good
  <2> QED BY <1>1, SubsetInduction
<1> QED BY <1>2

\* What is bounded term by term is bounded in sum.
LEMMA SumBound ==
    ASSUME NEW S, IsFiniteSet(S), NEW B \in Nat, NEW f, NEW g,
           \A x \in S : f[x] \in Nat /\ g[x] \in Nat /\ f[x] <= B * g[x]
    PROVE  /\ SumFunctionOnSet(f, S) \in Nat /\ SumFunctionOnSet(g, S) \in Nat
           /\ SumFunctionOnSet(f, S) <= B * SumFunctionOnSet(g, S)
<1> DEFINE Bounded(T) == /\ SumFunctionOnSet(f, T) \in Nat /\ SumFunctionOnSet(g, T) \in Nat
                         /\ SumFunctionOnSet(f, T) <= B * SumFunctionOnSet(g, T)
           Good == {T \in SUBSET S : Bounded(T)}
<1>1. ASSUME NEW T \in SUBSET S, \A U \in SUBSET T : U # T => U \in Good PROVE T \in Good
  <2>0. IsFiniteSet(T)
      BY FS_Subset
  <2>1. CASE T = {}
    <3>1. SumFunctionOnSet(f, T) = 0 /\ SumFunctionOnSet(g, T) = 0
        BY <2>0, <2>1, SumUnfolds
    <3>2. B * 0 = 0
        OBVIOUS
    <3> QED BY <2>1, <3>1, <3>2
  <2>2. CASE T # {}
    <3> DEFINE x == Chosen(T)
               U == T \ {x}
    <3>1. x \in T /\ x \in S /\ U \in SUBSET T /\ U # T
        BY <2>2 DEF Chosen
    <3>2. /\ SumFunctionOnSet(f, T) = f[x] + SumFunctionOnSet(f, U)
          /\ SumFunctionOnSet(g, T) = g[x] + SumFunctionOnSet(g, U)
        BY <2>0, <2>2, SumUnfolds
    <3>3. Bounded(U)
        BY <1>1, <3>1
    <3>4. ASSUME NEW a \in Nat, NEW b \in Nat PROVE B * (a + b) = B * a + B * b
        OBVIOUS
    <3>5. f[x] \in Nat /\ g[x] \in Nat /\ f[x] <= B * g[x] /\ B * g[x] \in Nat
        BY <3>1
    <3> HIDE DEF x, U
    <3>6. B * SumFunctionOnSet(g, U) \in Nat
        BY <3>3
    <3>7. B * SumFunctionOnSet(g, T) = B * g[x] + B * SumFunctionOnSet(g, U)
        BY <3>2, <3>3, <3>4, <3>5
    <3> QED BY <3>2, <3>3, <3>5, <3>6, <3>7
  <2> QED BY <2>1, <2>2
<1>2. S \in Good
  <2> HIDE DEF Good
  <2> QED BY <1>1, SubsetInduction
<1> QED BY <1>2
\* The values of a function on a finite set.
LEMMA FiniteImage ==
    ASSUME NEW S, IsFiniteSet(S), NEW f
    PROVE  IsFiniteSet({f[x] : x \in S})
<1> DEFINE g == [x \in S |-> f[x]]
           T == {f[x] : x \in S}
<1>1. g \in Surjection(S, T)
    BY DEF Surjection
<1> HIDE DEF g, T
<1>2. IsFiniteSet(T)
    BY <1>1, FS_Surjection
<1> QED BY <1>2 DEF T

\* A finite set of numbers has a greatest one.
LEMMA MaxIs ==
    ASSUME NEW S \in SUBSET Int, IsFiniteSet(S), S # {}
    PROVE  Max(S) \in S /\ \A x \in S : x <= Max(S)
<1> DEFINE Good == {T \in SUBSET S : T = {} \/ \E m \in T : \A x \in T : x <= m}
<1>1. ASSUME NEW T \in SUBSET S, \A U \in SUBSET T : U # T => U \in Good PROVE T \in Good
  <2>1. CASE T # {}
    <3>1. PICK a \in T : TRUE
        BY <2>1
    <3>2. T \ {a} \in Good
        BY <1>1, <3>1
    <3> DEFINE U == T \ {a}
    <3>3. CASE U = {}
      <4>1. \A x \in T : x <= a
          BY <3>1, <3>3
      <4> QED BY <3>1, <4>1
    <3>4. CASE U # {}
      <4>1. PICK m \in U : \A x \in U : x <= m
          BY <3>2, <3>4
      <4>2. (\A x \in T : x <= a) \/ (\A x \in T : x <= m)
          BY <3>1, <4>1
      <4>3. a \in T /\ m \in T
          BY <3>1, <4>1
      <4> QED BY <4>2, <4>3
    <3> QED BY <3>3, <3>4
  <2> QED BY <2>1
<1>2. S \in Good
  <2> HIDE DEF Good
  <2> QED BY <1>1, SubsetInduction
<1>3. PICK m \in S : \A x \in S : x <= m
    BY <1>2
<1>4. \A x \in S : m >= x
    BY <1>3
<1>5. Max(S) \in S /\ \A y \in S : Max(S) >= y
    BY <1>4 DEF Max
<1> QED BY <1>5
-----------------------------------------------------------------------------
(* Selections from a sequence.                                              *)

\* A listing of a set of numbers in ascending order; there is one.
Lists(q, m, S) ==
    /\ \A k \in 1 .. m : q[k] \in S
    /\ \A i \in S : \E k \in 1 .. m : q[k] = i
    /\ \A k, l \in 1 .. m : k < l => q[k] < q[l]

\* What a place in the ascending order of a finite set counts: the members up to it.
LEMMA AscendingFacts ==
    ASSUME NEW S \in SUBSET Int, IsFiniteSet(S)
    PROVE  Cardinality(S) \in Nat /\ Lists(Ascending(S), Cardinality(S), S)
<1> DEFINE m == Cardinality(S)
           UpTo(i) == {j \in S : j <= i}
           rank == [i \in S |-> Cardinality(UpTo(i))]
<1>0. \A i \in S : i \in Int
    OBVIOUS
<1>1. IsFiniteSet(S) /\ m \in Nat
    BY FS_CardinalityType
<1>2. ASSUME NEW i \in S PROVE rank[i] \in 1 .. m
  <2>1. UpTo(i) \in SUBSET S /\ i \in UpTo(i)
      OBVIOUS
  <2>2. IsFiniteSet(UpTo(i)) /\ Cardinality(UpTo(i)) \in Nat /\ Cardinality(UpTo(i)) <= m
      BY <1>1, <2>1, FS_Subset, FS_CardinalityType
  <2>3. Cardinality(UpTo(i)) # 0
      BY <2>1, <2>2, FS_EmptySet
  <2> QED BY <1>1, <2>2, <2>3
<1>3. ASSUME NEW i \in S, NEW j \in S, i < j PROVE rank[i] < rank[j]
  <2>0. j <= j /\ ~(j <= i) /\ \A x \in S : x <= i => x <= j
      BY <1>0, <1>3
  <2>1. UpTo(i) \in SUBSET UpTo(j) /\ j \in UpTo(j) /\ j \notin UpTo(i) /\ UpTo(j) \in SUBSET S
      BY <2>0
  <2>2. IsFiniteSet(UpTo(j))
      BY <1>1, <2>1, FS_Subset
  <2>3. Cardinality(UpTo(i)) <= Cardinality(UpTo(j))
        /\ (Cardinality(UpTo(j)) = Cardinality(UpTo(i)) => UpTo(j) = UpTo(i))
      BY <2>1, <2>2, FS_Subset
  <2>4. rank[i] \in Nat /\ rank[j] \in Nat
      BY <1>2
  <2> QED BY <2>1, <2>3, <2>4
<1>4. rank \in Surjection(S, 1 .. m)
  <2>1. rank \in Injection(S, 1 .. m)
    <3>1. rank \in [S -> 1 .. m]
        BY <1>2
    <3>2. ASSUME NEW i \in S, NEW j \in S, rank[i] = rank[j] PROVE i = j
      <4>1. i \in Int /\ j \in Int /\ rank[i] \in Nat /\ rank[j] \in Nat
          BY <1>2
      <4>2. ~(i < j) /\ ~(j < i)
          BY <1>3, <3>2, <4>1
      <4> QED BY <4>1, <4>2
    <3> HIDE DEF rank
    <3> QED BY <3>1, <3>2 DEF Injection, IsInjective
  <2>2. IsFiniteSet(1 .. m) /\ Cardinality(1 .. m) = m
      BY <1>1, FS_Interval
  <2> HIDE DEF rank
  <2> QED BY <2>1, <2>2, FS_Injection
<1>5. ASSUME NEW k \in 1 .. m PROVE Ascending(S)[k] \in S /\ rank[Ascending(S)[k]] = k
  <2>1. \E i \in S : Cardinality(UpTo(i)) = k
      BY <1>4, <1>5 DEF Surjection
  <2>2. Ascending(S)[k] = CHOOSE i \in S : Cardinality(UpTo(i)) = k
      BY DEF Ascending
  <2>3. Ascending(S)[k] \in S /\ Cardinality(UpTo(Ascending(S)[k])) = k
      BY <2>1, <2>2
  <2> QED BY <2>3
<1>6. ASSUME NEW i \in S PROVE rank[i] \in 1 .. m /\ Ascending(S)[rank[i]] = i
  <2>1. rank[i] \in 1 .. m
      BY <1>2
  <2>2. Ascending(S)[rank[i]] \in S /\ rank[Ascending(S)[rank[i]]] = rank[i]
      BY <1>5, <2>1
  <2>3. i \in Int /\ Ascending(S)[rank[i]] \in Int
      BY <1>0, <2>2
  <2>4. ~(i < Ascending(S)[rank[i]]) /\ ~(Ascending(S)[rank[i]] < i)
    <3>1. ~(rank[i] < rank[i])
      <4>1. rank[i] \in Int
          BY <1>1, <2>1
      <4> HIDE DEF rank, m
      <4> QED BY <4>1
    <3> HIDE DEF rank, m
    <3> QED BY <1>3, <2>2, <3>1
  <2> HIDE DEF rank, m
  <2> QED BY <2>1, <2>3, <2>4
<1>7. ASSUME NEW k \in 1 .. m, NEW l \in 1 .. m, k < l
      PROVE  Ascending(S)[k] < Ascending(S)[l]
  <2>1. Ascending(S)[k] \in S /\ Ascending(S)[l] \in S
        /\ rank[Ascending(S)[k]] = k /\ rank[Ascending(S)[l]] = l
      BY <1>5
  <2> HIDE DEF rank
  <2>2. Ascending(S)[k] \in Int /\ Ascending(S)[l] \in Int
      BY <1>0, <2>1
  <2> QED BY <1>3, <1>7, <2>1, <2>2
<1> HIDE DEF rank
<1> QED BY <1>1, <1>5, <1>6, <1>7 DEF Lists

LEMMA AscendingIs ==
    ASSUME NEW S \in SUBSET Int, IsFiniteSet(S), NEW m \in Nat, NEW q, Lists(q, m, S)
    PROVE  Cardinality(S) = m /\ \A k \in 1 .. m : Ascending(S)[k] = q[k]
<1> DEFINE UpTo(i) == {j \in S : j <= i}
<1>0. \A i \in S : i \in Int
    OBVIOUS
<1> USE DEF Lists
<1>1. ASSUME NEW k \in 1 .. m, NEW l \in 1 .. m PROVE q[k] <= q[l] <=> k <= l
  <2>1. q[k] \in Int /\ q[l] \in Int
      BY <1>0
  <2> QED BY <2>1
<1>2. ASSUME NEW k \in 0 .. m, NEW T \in SUBSET S, T = {q[l] : l \in 1 .. k}
      PROVE  Cardinality(T) = k
  <2> DEFINE f == [l \in 1 .. k |-> q[l]]
  <2>1. f \in Surjection(1 .. k, T)
      BY <1>2 DEF Surjection
  <2>2. f \in Injection(1 .. k, T)
    <3>1. \A a, b \in 1 .. k : f[a] = f[b] => a = b
        BY <1>1
    <3>2. f \in [1 .. k -> T]
        BY <1>2
    <3> HIDE DEF f
    <3> QED BY <3>1, <3>2 DEF Injection, IsInjective
  <2>3. IsFiniteSet(1 .. k) /\ Cardinality(1 .. k) = k
      BY FS_Interval
  <2> HIDE DEF f
  <2> QED BY <2>1, <2>2, <2>3, FS_Surjection
<1>3. S = {q[l] : l \in 1 .. m}
    OBVIOUS
<1>4. Cardinality(S) = m
    BY <1>2, <1>3
<1>5. ASSUME NEW k \in 1 .. m PROVE Ascending(S)[k] = q[k]
  <2>1. ASSUME NEW l \in 1 .. m PROVE Cardinality(UpTo(q[l])) = l
    <3>1. ASSUME NEW i \in S PROVE i <= q[l] <=> i \in {q[a] : a \in 1 .. l}
      <4>1. PICK a \in 1 .. m : q[a] = i
          OBVIOUS
      <4>2. i <= q[l] <=> a <= l
          BY <1>1, <4>1
      <4>3. ASSUME NEW b \in 1 .. l, q[b] = i PROVE a <= l
          BY <1>1, <4>1, <4>3
      <4> QED BY <4>1, <4>2, <4>3
    <3>2. {q[a] : a \in 1 .. l} \subseteq S
        OBVIOUS
    <3>3. UpTo(q[l]) = {q[a] : a \in 1 .. l}
        BY <3>1, <3>2
    <3> QED BY <1>2, <3>3
  <2>2. Ascending(S)[k] = CHOOSE i \in S : Cardinality(UpTo(i)) = k
      BY <1>4 DEF Ascending
  <2>3. q[k] \in S /\ Cardinality(UpTo(q[k])) = k
      BY <2>1
  <2>4. \A i \in S : Cardinality(UpTo(i)) = k => i = q[k]
      BY <2>1
  <2> HIDE DEF UpTo
  <2> QED BY <2>2, <2>3, <2>4
<1> QED BY <1>4, <1>5

\* The places of a sequence.
LEMMA PlacesAre ==
    ASSUME NEW n \in Nat
    PROVE  IsFiniteSet(1 .. n)
    BY FS_Interval

\* The places in a sequence that a selection takes.
LEMMA PlacesFinite ==
    ASSUME NEW n \in Nat, NEW S \in SUBSET (1 .. n)
    PROVE  S \in SUBSET Int /\ IsFiniteSet(S)
<1>1. IsFiniteSet(1 .. n)
    BY FS_Interval
<1>2. IsFiniteSet(S)
    BY <1>1, FS_Subset
<1> QED BY <1>2

\* A selection holds the members at the selected places, and no other.
LEMMA MembersIs ==
    ASSUME NEW s, NEW S \in SUBSET Int, IsFiniteSet(S)
    PROVE  /\ ToSet(MembersAt(s, S)) = {s[i] : i \in S}
           /\ MembersAt(s, S) = <<>> <=> S = {}
<1> DEFINE m == Cardinality(S)
           t == MembersAt(s, S)
<1>1. m \in Nat /\ Lists(Ascending(S), m, S)
    BY AscendingFacts
<1>2. t = [k \in 1 .. m |-> s[Ascending(S)[k]]]
    BY DEF MembersAt
<1> HIDE DEF m, t
<1>3. ToSet(t) = {t[k] : k \in 1 .. m}
    BY <1>1, <1>2 DEF ToSet
<1>4. ToSet(t) = {s[i] : i \in S}
  <2>1. ASSUME NEW k \in 1 .. m PROVE \E i \in S : t[k] = s[i]
      BY <1>1, <1>2 DEF Lists
  <2>2. ASSUME NEW i \in S PROVE \E k \in 1 .. m : t[k] = s[i]
      BY <1>1, <1>2 DEF Lists
  <2> QED BY <1>3, <2>1, <2>2
<1>5. t = <<>> <=> m = 0
  <2>1. ASSUME m = 0 PROVE t = <<>>
    <3>1. 1 .. m = {}
        BY <2>1
    <3> QED BY <1>2, <3>1
  <2>2. ASSUME t = <<>> PROVE m = 0
    <3>1. DOMAIN t = 1 .. m /\ DOMAIN t = {}
        BY <1>2, <2>2
    <3> QED BY <1>1, <3>1
  <2> QED BY <2>1, <2>2
<1>6. m = 0 <=> S = {}
    BY FS_EmptySet DEF m
<1> QED BY <1>4, <1>5, <1>6 DEF t

LEMMA AscendingInterval ==
    ASSUME NEW n \in Nat
    PROVE  Cardinality(1 .. n) = n /\ \A k \in 1 .. n : Ascending(1 .. n)[k] = k
<1> DEFINE D == 1 .. n
           q == [k \in 1 .. n |-> k]
<1>1. Lists(q, n, D) /\ D \in SUBSET Int /\ IsFiniteSet(D)
    BY FS_Interval DEF Lists
<1> HIDE DEF q, D
<1>2. Cardinality(D) = n /\ \A k \in 1 .. n : Ascending(D)[k] = q[k]
    BY <1>1, AscendingIs
<1> QED BY <1>2 DEF q, D

\* Such a list holds no name twice.
LEMMA OnceDistinct ==
    ASSUME NEW n \in Nat, NEW s, DOMAIN s = 1 .. n,
           \A i, j \in 1 .. n : s[i] = s[j] => i = j
    PROVE  Once(s) = [k \in 1 .. n |-> s[k]]
<1> DEFINE D == {i \in DOMAIN s : \A j \in 1 .. i - 1 : s[j] # s[i]}
<1>1. D = 1 .. n
  <2>1. ASSUME NEW i \in 1 .. n, NEW j \in 1 .. i - 1 PROVE s[j] # s[i]
    <3>1. j \in 1 .. n /\ j # i
        OBVIOUS
    <3> QED BY <3>1
  <2> QED BY <2>1
<1>2. Once(s) = MembersAt(s, 1 .. n)
    BY <1>1 DEF Once
<1> QED BY <1>2, AscendingInterval DEF MembersAt

\* Nothing is lost with the repetitions.
LEMMA OnceOnto ==
    ASSUME NEW n \in Nat, NEW s, DOMAIN s = 1 .. n, NEW i \in 1 .. n
    PROVE  \E k \in DOMAIN Once(s) : Once(s)[k] = s[i]
<1> DEFINE D == {j \in DOMAIN s : \A l \in 1 .. j - 1 : s[l] # s[j]}
           E == {j \in 1 .. n : s[j] = s[i]}
<1>1. PICK j \in E : \A l \in E : j <= l
  <2>1. E \in SUBSET Nat /\ i \in E
      OBVIOUS
  <2> HIDE DEF E
  <2> QED BY <2>1, Least
<1>2. j \in D /\ s[j] = s[i]
  <2>1. ASSUME NEW l \in 1 .. j - 1 PROVE s[l] # s[j]
    <3>1. l \in 1 .. n /\ ~(j <= l)
        OBVIOUS
    <3> QED BY <1>1, <3>1
  <2> QED BY <2>1
<1>3. D \in SUBSET (1 .. n)
    OBVIOUS
<1>4. Once(s) = MembersAt(s, D)
    BY DEF Once
<1> HIDE DEF D
<1>5. D \in SUBSET Int /\ IsFiniteSet(D)
    BY <1>3, PlacesFinite
<1>6. s[i] \in ToSet(MembersAt(s, D))
    BY <1>2, <1>5, MembersIs
<1> QED BY <1>4, <1>6 DEF ToSet

\* A sum of numbers is a number.
LEMMA SumNat ==
    ASSUME NEW f, IsFiniteSet(DOMAIN f), \A x \in DOMAIN f : f[x] \in Nat
    PROVE  SumFunction(f) \in Nat
<1>1. \A x \in DOMAIN f : f[x] <= 1 * f[x]
    OBVIOUS
<1>2. SumFunctionOnSet(f, DOMAIN f) \in Nat
    BY <1>1, SumBound
<1> QED BY <1>2 DEF SumFunction

\* A sum of values up to B is at most B for each of them.
LEMMA SumAtMost ==
    ASSUME NEW f, IsFiniteSet(DOMAIN f), NEW B \in Nat,
           \A x \in DOMAIN f : f[x] \in Nat /\ f[x] <= B
    PROVE  SumFunction(f) \in Nat /\ SumFunction(f) <= B * Cardinality(DOMAIN f)
<1> DEFINE D == DOMAIN f
           one == [x \in D |-> 1]
           part == [x \in D |-> {x}]
<1>1. SumFunctionOnSet(one, D) = Cardinality(D)
  <2>1. \A x \in D : part[x] \subseteq D /\ one[x] = Cardinality(part[x])
      BY FS_Singleton
  <2>2. \A x, y \in D : x # y => part[x] \cap part[y] = {}
      OBVIOUS
  <2>3. UNION {part[x] : x \in D} = D
      OBVIOUS
  <2> HIDE DEF one, part, D
  <2>4. IsFiniteSet(D)
      BY DEF D
  <2> QED BY <2>1, <2>2, <2>3, <2>4, SumOfParts
<1>2. \A x \in D : f[x] \in Nat /\ one[x] \in Nat /\ f[x] <= B * one[x]
    OBVIOUS
<1>3. SumFunctionOnSet(f, D) \in Nat /\ SumFunctionOnSet(f, D) <= B * SumFunctionOnSet(one, D)
  <2> HIDE DEF one
  <2> QED BY <1>2, SumBound
<1> QED BY <1>1, <1>3 DEF SumFunction

\* A quotient by a positive number.
LEMMA QuotientBound ==
    ASSUME NEW a \in Nat, NEW b \in Nat \ {0}, NEW m \in Nat, a <= m * b
    PROVE  a \div b <= m
<1> DEFINE q == a \div b
<1>1. q \in Nat /\ b * q <= a
    OBVIOUS
<1> HIDE DEF q
<1>2. ASSUME q > m PROVE FALSE
  <2>1. q >= m + 1 /\ m + 1 \in Nat
      BY <1>1, <1>2
  <2>2. b * q >= b * (m + 1)
      BY <1>1, <2>1
  <2>3. b * (m + 1) = m * b + b /\ m * b \in Nat
      OBVIOUS
  <2> QED BY <1>1, <2>2, <2>3
<1>3. q <= m
    BY <1>1, <1>2
<1> QED BY <1>3 DEF q

\* What the smaller, and the larger, of two numbers is.
LEMMA PairIs ==
    ASSUME NEW a \in Int, NEW b \in Int
    PROVE  /\ Max({a, b}) = IF a >= b THEN a ELSE b
           /\ Min({a, b}) = IF a <= b THEN a ELSE b
<1>1. a <= b \/ b <= a
    OBVIOUS
<1>2. \E x \in {a, b} : \A y \in {a, b} : x >= y
    BY <1>1
<1>3. \E x \in {a, b} : \A y \in {a, b} : x =< y
    BY <1>1
<1>4. Max({a, b}) \in {a, b} /\ \A y \in {a, b} : Max({a, b}) >= y
    BY <1>2 DEF Max
<1>5. Min({a, b}) \in {a, b} /\ \A y \in {a, b} : Min({a, b}) <= y
    BY <1>3 DEF Min
<1>6. /\ Max({a, b}) = a \/ Max({a, b}) = b
      /\ Max({a, b}) >= a /\ Max({a, b}) >= b
      /\ Min({a, b}) = a \/ Min({a, b}) = b
      /\ Min({a, b}) <= a /\ Min({a, b}) <= b
    BY <1>4, <1>5
<1> QED BY <1>6

\* The least member.
LEMMA MinIs ==
    ASSUME NEW S \in SUBSET Nat, S # {}
    PROVE  Min(S) \in S /\ \A x \in S : Min(S) <= x
<1>1. \E m \in S : \A x \in S : m <= x
    BY Least
<1> QED BY <1>1 DEF Min

\* A larger dividend has no smaller quotient.
LEMMA QuotientMonotone ==
    ASSUME NEW a \in Nat, NEW b \in Nat, a <= b, NEW c \in Nat \ {0}
    PROVE  a \div c \in Nat /\ b \div c \in Nat /\ a \div c <= b \div c
<1> DEFINE p == a \div c
           q == b \div c
<1>1. p \in Nat /\ c * p <= a /\ q \in Nat /\ b < c * q + c
    OBVIOUS
<1> HIDE DEF p, q
<1>2. ASSUME p > q PROVE FALSE
  <2>1. p >= q + 1 /\ q + 1 \in Nat
      BY <1>1, <1>2
  <2>2. c * p >= c * (q + 1)
      BY <1>1, <2>1
  <2>3. c * (q + 1) = c * q + c
      BY <1>1
  <2> QED BY <1>1, <2>2, <2>3
<1>3. p <= q
    BY <1>1, <1>2
<1> QED BY <1>1, <1>3 DEF p, q

\* The numbers from one to another.
LEMMA SpanIs ==
    ASSUME NEW a \in Int, NEW b \in Int, a <= b, NEW S, S = a .. b - 1
    PROVE  IsFiniteSet(S) /\ Cardinality(S) = b - a
<1>1. IsFiniteSet(S) /\ Cardinality(S) = IF a > b - 1 THEN 0 ELSE b - 1 - a + 1
    BY FS_Interval
<1> QED BY <1>1
=============================================================================
