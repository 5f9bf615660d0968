------------------------------ MODULE Folding ------------------------------
(***************************************************************************)
(* A left fold keeps what each of its steps keeps: the loops of the code   *)
(* that carry a graph or a list along.  Step and property are operator     *)
(* constants, given with INSTANCE ... WITH, so that the induction over a   *)
(* list is proved once.  c is what the step reads besides.                 *)
(***************************************************************************)
EXTENDS FiniteFacts
CONSTANTS Op(_, _, _), Good(_, _)

Folded(c, base, s) == FoldLeft(LAMBDA u, x : Op(c, u, x), base, s)

Unfolds(g, c, base, s, D) ==
    /\ DOMAIN g = D
    /\ \A T \in D : g[T] = IF T = {} THEN base ELSE Op(c, g[T \ {Max(T)}], s[Max(T)])

\* The last place of a part of a list.
LEMMA LastOf ==
    ASSUME NEW n \in Nat, NEW T \in SUBSET (1 .. n), T # {}
    PROVE  Max(T) \in T
<1>1. T \in SUBSET (0 .. n)
    OBVIOUS
<1>2. \E m \in T : \A k \in T : m >= k
    BY <1>1, Greatest
<1> QED BY <1>2 DEF Max

Unfolded(c, base, s) ==
    \E g : /\ Unfolds(g, c, base, s, SUBSET (DOMAIN s))
           /\ Folded(c, base, s) = g[DOMAIN s]

\* The recursion that FoldLeft is defined by has a solution, built up by the size of
\* its argument, so its CHOOSE is one.
LEMMA FoldIs ==
    ASSUME NEW c, NEW base, NEW n \in Nat, NEW s, DOMAIN s = 1 .. n
    PROVE  Unfolded(c, base, s)
<1> DEFINE S == 1 .. n
           Body(g) == [T \in SUBSET S |-> IF T = {} THEN base
                                          ELSE Op(c, g[T \ {Max(T)}], s[Max(T)])]
<1>1. Folded(c, base, s) = (CHOOSE g : g = Body(g))[S]
    BY DEF Folded, FoldLeft, MapThenFoldSet
<1>0. IsFiniteSet(S)
    BY FS_Interval
<1>2. \A g : g = Body(g) <=> g = [T \in SUBSET S |-> g[T]] /\ Unfolds(g, c, base, s, SUBSET S)
    BY DEF Unfolds
<1>3. \E g : g = Body(g)
  <2> DEFINE D(k) == {T \in SUBSET S : Cardinality(T) <= k}
             Reached == {k \in Nat : \E g : g = [T \in D(k) |-> g[T]] /\ Unfolds(g, c, base, s, D(k))}
  <2>1. 0 \in Reached
    <3>1. D(0) = {{}}
        BY <1>0, FS_EmptySet, FS_Subset, FS_CardinalityType
    <3> DEFINE z == [T \in D(0) |-> base]
    <3>2. z = [T \in D(0) |-> z[T]] /\ Unfolds(z, c, base, s, D(0))
        BY <3>1 DEF Unfolds
    <3> HIDE DEF z
    <3> QED BY <3>2
  <2>2. ASSUME NEW k \in Nat, k \in Reached PROVE k + 1 \in Reached
    <3>1. PICK g : Unfolds(g, c, base, s, D(k))
        BY <2>2
    <3> DEFINE z == [T \in D(k + 1) |-> IF T = {} THEN base
                                        ELSE Op(c, g[T \ {Max(T)}], s[Max(T)])]
    <3>2. ASSUME NEW T \in D(k + 1), T # {} PROVE T \ {Max(T)} \in D(k)
      <4>1. T \in SUBSET S /\ IsFiniteSet(T) /\ Cardinality(T) \in Nat /\ Cardinality(T) <= k + 1
          BY <1>0, FS_Subset, FS_CardinalityType
      <4>2. Max(T) \in T
          BY <3>2, LastOf
      <4>3. Cardinality(T \ {Max(T)}) = Cardinality(T) - 1
          BY <4>1, <4>2, FS_RemoveElement
      <4>4. T \ {Max(T)} \in SUBSET S /\ Cardinality(T \ {Max(T)}) <= k
        <5> HIDE DEF S, D
        <5> QED BY <4>1, <4>3
      <4> QED BY <4>4
    <3>3. ASSUME NEW T \in D(k) PROVE T \in D(k + 1) /\ z[T] = g[T]
      <4>1. T \in SUBSET S /\ IsFiniteSet(T) /\ Cardinality(T) \in Nat /\ Cardinality(T) <= k
          BY <1>0, FS_Subset, FS_CardinalityType
      <4>2. T \in D(k + 1)
          BY <4>1
      <4>3. g[T] = IF T = {} THEN base ELSE Op(c, g[T \ {Max(T)}], s[Max(T)])
          BY <3>1 DEF Unfolds
      <4> QED BY <4>2, <4>3
    <3>4. ASSUME NEW T \in D(k + 1)
          PROVE z[T] = IF T = {} THEN base ELSE Op(c, z[T \ {Max(T)}], s[Max(T)])
      <4>1. z[T] = IF T = {} THEN base ELSE Op(c, g[T \ {Max(T)}], s[Max(T)])
          OBVIOUS
      <4> HIDE DEF z, D
      <4> QED BY <3>2, <3>3, <4>1
    <3>5. z = [T \in D(k + 1) |-> z[T]] /\ DOMAIN z = D(k + 1)
        OBVIOUS
    <3> HIDE DEF z, D
    <3>6. Unfolds(z, c, base, s, D(k + 1))
        BY <3>4, <3>5 DEF Unfolds
    <3> QED BY <2>2, <3>5, <3>6
  <2>3. \A k \in Nat : k \in Reached
    <3> HIDE DEF Reached
    <3> QED BY <2>1, <2>2, NatSetInduction
  <2>4. Cardinality(S) \in Nat /\ D(Cardinality(S)) = SUBSET S
      BY <1>0, FS_CardinalityType, FS_Subset
  <2>5. PICK g : g = [T \in D(Cardinality(S)) |-> g[T]] /\ Unfolds(g, c, base, s, D(Cardinality(S)))
      BY <2>3, <2>4
  <2> HIDE DEF Body
  <2> QED BY <1>2, <2>4, <2>5
<1> DEFINE it == CHOOSE g : g = Body(g)
<1>4. it = Body(it)
  <2> HIDE DEF Body
  <2> QED BY <1>3
<1> HIDE DEF it, Body
<1> QED BY <1>1, <1>2, <1>4 DEF it, Unfolded

\* The values of the fold after each place of the list.
Runs(r, c, base, n, s) ==
    /\ r[0] = base
    /\ \A k \in 1 .. n : r[k] = Op(c, r[k - 1], s[k])

LEMMA FoldRuns ==
    ASSUME NEW c, NEW base, NEW n \in Nat, NEW s, DOMAIN s = 1 .. n
    PROVE  \E r : Runs(r, c, base, n, s) /\ Folded(c, base, s) = r[n]
<1>1. PICK g : /\ Unfolds(g, c, base, s, SUBSET (1 .. n))
               /\ Folded(c, base, s) = g[1 .. n]
  <2>1. Unfolded(c, base, s)
      BY FoldIs
  <2> QED BY <2>1 DEF Unfolded
<1> DEFINE r == [k \in 0 .. n |-> g[1 .. k]]
<1>2. r[0] = base /\ r[n] = g[1 .. n]
  <2>1. 1 .. 0 = {} /\ {} \in SUBSET (1 .. n) /\ 0 \in 0 .. n /\ n \in 0 .. n
      OBVIOUS
  <2>2. g[{}] = base
      BY <1>1, <2>1 DEF Unfolds
  <2> QED BY <2>1, <2>2
<1>3. ASSUME NEW k \in 1 .. n PROVE r[k] = Op(c, r[k - 1], s[k])
  <2> DEFINE T == 1 .. k
  <2>1. T \in SUBSET (1 .. n) /\ T # {} /\ T \ {k} = 1 .. k - 1
      OBVIOUS
  <2>2. Max(T) = k
    <3>1. T \in SUBSET Int /\ IsFiniteSet(T)
        BY FS_Interval
    <3>2. Max(T) \in T /\ \A x \in T : x <= Max(T)
      <4> HIDE DEF T
      <4> QED BY <2>1, <3>1, MaxIs
    <3>3. k \in T
        OBVIOUS
    <3> QED BY <3>2, <3>3
  <2>3. g[T] = Op(c, g[T \ {Max(T)}], s[Max(T)])
    <3> HIDE DEF T
    <3> QED BY <1>1, <2>1 DEF Unfolds
  <2>4. r[k] = g[T] /\ r[k - 1] = g[1 .. k - 1]
      OBVIOUS
  <2> HIDE DEF T, r
  <2> QED BY <2>1, <2>2, <2>3, <2>4
<1> HIDE DEF r
<1> QED BY <1>1, <1>2, <1>3 DEF Runs

KeptBy(c, s) == \A k \in DOMAIN s : \A u : Good(c, u) => Good(c, Op(c, u, s[k]))

\* What every step keeps holds of the result.
LEMMA FoldKeeps ==
    ASSUME NEW c, NEW base, NEW n \in Nat, NEW s, DOMAIN s = 1 .. n, Good(c, base), KeptBy(c, s)
    PROVE  Good(c, Folded(c, base, s))
<1>1. PICK g : /\ Unfolds(g, c, base, s, SUBSET (1 .. n))
               /\ Folded(c, base, s) = g[1 .. n]
  <2>1. Unfolded(c, base, s)
      BY FoldIs
  <2> QED BY <2>1 DEF Unfolded
<1> DEFINE Fine == {T \in SUBSET (1 .. n) : Good(c, g[T])}
<1>2. ASSUME NEW T \in SUBSET (1 .. n), \A U \in SUBSET T : U # T => U \in Fine PROVE T \in Fine
  <2>1. CASE T = {}
      BY <1>1, <2>1 DEF Unfolds
  <2>2. CASE T # {}
    <3>1. Max(T) \in T
        BY <2>2, LastOf
    <3>2. T \ {Max(T)} \in Fine
        BY <1>2, <3>1
    <3>3. g[T] = Op(c, g[T \ {Max(T)}], s[Max(T)])
        BY <1>1, <2>2 DEF Unfolds
    <3> QED BY <3>1, <3>2, <3>3 DEF KeptBy
  <2> QED BY <2>1, <2>2
<1>3. 1 .. n \in Fine
  <2>1. IsFiniteSet(1 .. n)
      BY FS_Interval
  <2> DEFINE S == 1 .. n
  <2>2. \A T \in SUBSET S : (\A U \in SUBSET T : U # T => U \in Fine) => T \in Fine
      BY <1>2
  <2> HIDE DEF Fine, S
  <2>3. IsFiniteSet(S) => S \in Fine
      BY <2>2, SubsetInduction
  <2> QED BY <2>1, <2>3 DEF S
<1> QED BY <1>1, <1>3
============================================================================
