------------------------- MODULE ArchitectureProofs -------------------------
(***************************************************************************)
(* The architecture view, for any graph that runs and tells its operators  *)
(* apart: Kahn's algorithm lists every operator once, in an order its      *)
(* flow follows, and from that an edge of the view is a path of the graph, *)
(* depth grows along it, and no two operators are drawn at one place.  And *)
(* the drawing of a container that is not run: whatever its layers read,   *)
(* it is drawn with the connections it stores, and where they can be       *)
(* ranked the depths resolve memoises grow along them.                     *)
(***************************************************************************)
EXTENDS Architecture, WeightOnly, SequenceTheorems, FiniteFacts
-----------------------------------------------------------------------------
(* Lists without repetition.                                                *)

Distinct(s, n) ==
    /\ DOMAIN s = 1 .. n
    /\ \A i, j \in 1 .. n : s[i] = s[j] => i = j

\* The chosen members t of s, m of them, in the order of s.
Selected(t, m, s, n, S) ==
    /\ m \in Nat /\ t \in Seq({s[i] : i \in S}) /\ Len(t) = m
    /\ Distinct(t, m) /\ ToSet(t) = {s[i] : i \in S}
    /\ \A k, l \in 1 .. m : \A i, j \in 1 .. n : t[k] = s[i] /\ t[l] = s[j] /\ i < j => k < l

LEMMA SelectedIs ==
    ASSUME NEW n \in Nat, NEW s, Distinct(s, n), NEW S \in SUBSET (1 .. n)
    PROVE  Selected(MembersAt(s, S), Cardinality(S), s, n, S)
<1> DEFINE m == Cardinality(S)
           t == MembersAt(s, S)
           at == Ascending(S)
<1>1. S \in SUBSET Int /\ IsFiniteSet(S)
    BY PlacesFinite
<1>2. m \in Nat /\ Lists(at, m, S) /\ ToSet(t) = {s[i] : i \in S}
    BY <1>1, AscendingFacts, MembersIs
<1>3. t = [k \in 1 .. m |-> s[at[k]]]
    BY DEF MembersAt
<1> HIDE DEF m, t, at
<1>4. \A k \in 1 .. m : at[k] \in S /\ at[k] \in 1 .. n
    BY <1>2 DEF Lists
<1>5. t \in Seq({s[i] : i \in S}) /\ Len(t) = m
    BY <1>2, <1>3, <1>4
<1>6. \A k, l \in 1 .. m : k < l => at[k] < at[l]
    BY <1>2 DEF Lists
<1>7. ASSUME NEW k \in 1 .. m, NEW l \in 1 .. m, NEW i \in 1 .. n, NEW j \in 1 .. n,
             t[k] = s[i], t[l] = s[j], i < j
      PROVE  k < l
  <2>1. at[k] = i /\ at[l] = j
      BY <1>3, <1>4, <1>7 DEF Distinct
  <2>2. k = l \/ l < k \/ k < l
      BY <1>2
  <2> QED BY <1>6, <1>7, <2>1, <2>2
<1>8. ASSUME NEW k \in 1 .. m, NEW l \in 1 .. m, t[k] = t[l] PROVE k = l
  <2>1. at[k] = at[l]
      BY <1>3, <1>4, <1>8 DEF Distinct
  <2>2. k = l \/ l < k \/ k < l
      BY <1>2
  <2>3. at[k] \in Int /\ at[l] \in Int
      BY <1>1, <1>4
  <2> QED BY <1>6, <2>1, <2>2, <2>3
<1>9. Distinct(t, m)
    BY <1>3, <1>8 DEF Distinct
<1>10. Selected(t, m, s, n, S)
    BY <1>2, <1>5, <1>7, <1>9 DEF Selected
<1> QED BY <1>10 DEF t, m

\* A list without repetition has as many members as places.
LEMMA CountIs ==
    ASSUME NEW n \in Nat, NEW s, Distinct(s, n)
    PROVE  IsFiniteSet(ToSet(s)) /\ Cardinality(ToSet(s)) = n
<1> DEFINE S == 1 .. n
           T == ToSet(s)
           f == [i \in S |-> s[i]]
<1>1. T = {s[i] : i \in S}
    BY DEF ToSet, Distinct
<1>2. f \in Bijection(S, T)
  <2>1. f \in [S -> T] /\ \A y \in T : \E i \in S : f[i] = y
      BY <1>1
  <2>2. \A i, j \in S : f[i] = f[j] => i = j
      BY DEF Distinct
  <2> HIDE DEF f, S, T
  <2> QED BY <2>1, <2>2 DEF Bijection, Injection, Surjection, IsInjective
<1>3. IsFiniteSet(S) /\ Cardinality(S) = n
    BY FS_Interval
<1> HIDE DEF S, T, f
<1>4. ExistsBijection(S, T)
    BY <1>2 DEF ExistsBijection
<1>5. IsFiniteSet(T) /\ Cardinality(T) = Cardinality(S)
    BY <1>3, <1>4, FS_Bijection
<1> QED BY <1>3, <1>5 DEF T

LEMMA Listed ==
    ASSUME NEW N, NEW s \in Seq(N)
    PROVE  /\ Len(s) \in Nat /\ DOMAIN s = 1 .. Len(s) /\ ToSet(s) = {s[k] : k \in 1 .. Len(s)}
           /\ \A x : Contains(s, x) <=> x \in ToSet(s)
<1>1. Len(s) \in Nat /\ DOMAIN s = 1 .. Len(s)
    OBVIOUS
<1>2. ToSet(s) = {s[k] : k \in 1 .. Len(s)}
    BY <1>1 DEF ToSet
<1>3. \A x : Contains(s, x) <=> x \in ToSet(s)
    BY <1>2 DEF Contains
<1> QED BY <1>1, <1>2, <1>3

\* Two lists that share nothing, joined.
LEMMA JoinedDistinct ==
    ASSUME NEW N, NEW s \in Seq(N), NEW t \in Seq(N), Distinct(s, Len(s)), Distinct(t, Len(t)),
           ToSet(s) \cap ToSet(t) = {}
    PROVE  /\ s \o t \in Seq(N) /\ Distinct(s \o t, Len(s \o t))
           /\ ToSet(s \o t) = ToSet(s) \cup ToSet(t)
<1> DEFINE u == s \o t
           m == Len(s)
           n == Len(t)
<1>1. /\ u \in Seq(N) /\ Len(u) = m + n /\ m \in Nat /\ n \in Nat
      /\ \A k \in 1 .. m : u[k] = s[k]
      /\ \A k \in 1 .. n : u[m + k] = t[k]
    OBVIOUS
<1>2. ToSet(s) = {s[k] : k \in 1 .. m} /\ ToSet(t) = {t[k] : k \in 1 .. n}
      /\ ToSet(u) = {u[k] : k \in 1 .. Len(u)} /\ DOMAIN u = 1 .. Len(u)
    BY <1>1, Listed
<1> HIDE DEF u, m, n
<1>3. \A k \in 1 .. Len(u) : k \in 1 .. m \/ (k - m \in 1 .. n /\ u[k] = t[k - m])
  <2>1. \A k \in 1 .. Len(u) : k \in 1 .. m \/ (k - m \in 1 .. n /\ m + (k - m) = k)
      BY <1>1
  <2> QED BY <1>1, <2>1
<1>4. ASSUME NEW i \in 1 .. Len(u), NEW j \in 1 .. Len(u), u[i] = u[j] PROVE i = j
  <2>1. CASE i \in 1 .. m /\ j \in 1 .. m
      BY <1>1, <1>4, <2>1 DEF Distinct, m
  <2>2. CASE i \notin 1 .. m /\ j \notin 1 .. m
    <3>1. i - m = j - m
        BY <1>3, <1>4, <2>2 DEF Distinct, n
    <3> QED BY <1>1, <3>1
  <2>3. CASE i \in 1 .. m /\ j \notin 1 .. m
    <3>1. u[i] \in ToSet(s) /\ u[j] \in ToSet(t)
        BY <1>1, <1>2, <1>3, <2>3
    <3> QED BY <1>4, <3>1
  <2>4. CASE i \notin 1 .. m /\ j \in 1 .. m
    <3>1. u[j] \in ToSet(s) /\ u[i] \in ToSet(t)
        BY <1>1, <1>2, <1>3, <2>4
    <3> QED BY <1>4, <3>1
  <2> QED BY <2>1, <2>2, <2>3, <2>4
<1>5. ToSet(u) = ToSet(s) \cup ToSet(t)
  <2>1. \A k \in 1 .. m : k \in 1 .. Len(u)
      BY <1>1
  <2>2. \A k \in 1 .. n : m + k \in 1 .. Len(u)
      BY <1>1
  <2>3. ToSet(s) \subseteq ToSet(u)
      BY <1>1, <1>2, <2>1
  <2>4. ToSet(t) \subseteq ToSet(u)
      BY <1>1, <1>2, <2>2
  <2>5. ToSet(u) \subseteq ToSet(s) \cup ToSet(t)
      BY <1>1, <1>2, <1>3
  <2> QED BY <2>3, <2>4, <2>5
<1>6. Distinct(u, Len(u))
    BY <1>2, <1>4 DEF Distinct
<1> QED BY <1>1, <1>5, <1>6 DEF u

\* What is left when the first goes.
LEMMA TailDistinct ==
    ASSUME NEW N, NEW s \in Seq(N), Distinct(s, Len(s)), s # <<>>
    PROVE  /\ Tail(s) \in Seq(N) /\ Distinct(Tail(s), Len(Tail(s)))
           /\ ToSet(Tail(s)) = ToSet(s) \ {Head(s)} /\ Head(s) \in ToSet(s)
<1> DEFINE u == Tail(s)
           n == Len(s)
<1>1. /\ u \in Seq(N) /\ n \in Nat /\ n > 0 /\ Len(u) = n - 1 /\ Head(s) = s[1]
      /\ \A k \in 1 .. n - 1 : u[k] = s[k + 1]
    OBVIOUS
<1>2. ToSet(s) = {s[k] : k \in 1 .. n} /\ ToSet(u) = {u[k] : k \in 1 .. Len(u)}
      /\ DOMAIN u = 1 .. Len(u)
    BY <1>1, Listed
<1>3. \A i, j \in 1 .. n : s[i] = s[j] => i = j
    BY DEF Distinct
<1> HIDE DEF u, n
<1>4. \A k \in 1 .. n - 1 : k + 1 \in 1 .. n /\ k + 1 # 1
    BY <1>1
<1>5. 1 \in 1 .. n /\ \A k \in 1 .. n : k # 1 => k - 1 \in 1 .. n - 1 /\ (k - 1) + 1 = k
    BY <1>1
<1>6. ASSUME NEW i \in 1 .. n - 1, NEW j \in 1 .. n - 1, u[i] = u[j] PROVE i = j
  <2>1. i + 1 = j + 1
      BY <1>1, <1>3, <1>4, <1>6
  <2> QED BY <2>1
<1>7. Distinct(u, Len(u))
    BY <1>1, <1>2, <1>6 DEF Distinct
<1>8. ToSet(u) \subseteq ToSet(s) \ {s[1]}
    BY <1>1, <1>2, <1>3, <1>4, <1>5
<1>9. ToSet(s) \ {s[1]} \subseteq ToSet(u)
  <2>1. ASSUME NEW k \in 1 .. n, k # 1 PROVE s[k] \in ToSet(u)
    <3>1. k - 1 \in 1 .. n - 1 /\ u[k - 1] = s[k]
        BY <1>1, <1>5, <2>1
    <3> QED BY <1>1, <1>2, <3>1
  <2> QED BY <1>2, <2>1
<1>10. Head(s) \in ToSet(s)
    BY <1>1, <1>2, <1>5
<1> QED BY <1>1, <1>7, <1>8, <1>9, <1>10 DEF u

LEMMA AppendDistinct ==
    ASSUME NEW N, NEW s \in Seq(N), Distinct(s, Len(s)), NEW x \in N, x \notin ToSet(s)
    PROVE  /\ Append(s, x) \in Seq(N) /\ Len(Append(s, x)) = Len(s) + 1
           /\ Distinct(Append(s, x), Len(Append(s, x)))
           /\ ToSet(Append(s, x)) = ToSet(s) \cup {x}
           /\ Append(s, x)[Len(s) + 1] = x /\ \A k \in 1 .. Len(s) : Append(s, x)[k] = s[k]
<1> DEFINE t == <<x>>
<1>1. t \in Seq(N) /\ Len(t) = 1 /\ t[1] = x /\ Append(s, x) = s \o t
    OBVIOUS
<1> HIDE DEF t
<1>2. ToSet(t) = {x} /\ Distinct(t, Len(t))
  <2>1. DOMAIN t = 1 .. 1 /\ ToSet(t) = {t[k] : k \in 1 .. 1}
      BY <1>1, Listed
  <2>2. 1 .. 1 = {1}
      OBVIOUS
  <2> QED BY <1>1, <2>1, <2>2 DEF Distinct
<1>3. /\ s \o t \in Seq(N) /\ Distinct(s \o t, Len(s \o t))
      /\ ToSet(s \o t) = ToSet(s) \cup ToSet(t)
    BY <1>1, <1>2, JoinedDistinct
<1> QED BY <1>1, <1>2, <1>3
-----------------------------------------------------------------------------
(* Kahn's algorithm.                                                        *)

\* Those not listed yet that lead to m.
Pending(adj, m, D) == {x \in DOMAIN adj \ D : Contains(adj[x], m)}

\* A function from names to the names they lead to.
Graphed(adj) ==
    /\ IsFiniteSet(DOMAIN adj)
    /\ \A x \in DOMAIN adj : adj[x] \in Seq(DOMAIN adj) /\ Distinct(adj[x], Len(adj[x]))

\* The degree counts what leads to a name and is not listed; those that nothing of the
\* kind leads to are listed or queued, and who leads to a listed one is listed before.
Counted(adj, u) ==
    LET D == ToSet(u.order)
    IN  \A m \in DOMAIN adj :
            /\ u.degree[m] = Cardinality(Pending(adj, m, D))
            /\ m \in D \cup ToSet(u.queue) <=> Pending(adj, m, D) = {}

InTurn(adj, s) ==
    \A i \in 1 .. Len(s) : \A x \in DOMAIN adj :
        Contains(adj[x], s[i]) => \E j \in 1 .. i - 1 : s[j] = x

KahnInv(adj, u) ==
    /\ u.queue \in Seq(DOMAIN adj) /\ Distinct(u.queue, Len(u.queue))
    /\ u.order \in Seq(DOMAIN adj) /\ Distinct(u.order, Len(u.order))
    /\ ToSet(u.order) \cap ToSet(u.queue) = {}
    /\ Counted(adj, u)
    /\ InTurn(adj, u.order)

LEMMA PopKeeps ==
    ASSUME NEW adj, Graphed(adj), NEW u, KahnInv(adj, u), u.queue # <<>>
    PROVE  /\ KahnInv(adj, Pop(adj, u))
           /\ Len(Pop(adj, u).order) = Len(u.order) + 1
<1> DEFINE N == DOMAIN adj
           n == Head(u.queue)
           next == adj[n]
           D == ToSet(u.order)
           Q == ToSet(u.queue)
           freed == {k \in DOMAIN next : u.degree[next[k]] = 1}
           new == MembersAt(next, freed)
           rest == Tail(u.queue)
           degree == [m \in N |-> IF Contains(next, m) THEN u.degree[m] - 1 ELSE u.degree[m]]
           done == Append(u.order, n)
           v == Pop(adj, u)
<1>1. v = [queue |-> rest \o new, degree |-> degree, order |-> done]
    BY DEF Pop
<1>2. /\ u.queue \in Seq(N) /\ Distinct(u.queue, Len(u.queue))
      /\ u.order \in Seq(N) /\ Distinct(u.order, Len(u.order))
      /\ D \cap Q = {}
    BY DEF KahnInv
<1>3. /\ rest \in Seq(N) /\ Distinct(rest, Len(rest)) /\ ToSet(rest) = Q \ {n} /\ n \in Q
    BY <1>2, TailDistinct
<1>4. n \in N /\ n \notin D
  <2>1. Q \subseteq N
      BY <1>2, Listed
  <2> QED BY <1>2, <1>3, <2>1
<1>5. next \in Seq(N) /\ Distinct(next, Len(next)) /\ IsFiniteSet(N)
    BY <1>4 DEF Graphed
<1>6. /\ done \in Seq(N) /\ Len(done) = Len(u.order) + 1 /\ Distinct(done, Len(done))
      /\ ToSet(done) = D \cup {n}
      /\ done[Len(u.order) + 1] = n /\ \A k \in 1 .. Len(u.order) : done[k] = u.order[k]
    BY <1>2, <1>4, AppendDistinct
<1>7. \A m \in N : /\ u.degree[m] = Cardinality(Pending(adj, m, D))
                   /\ m \in D \cup Q <=> Pending(adj, m, D) = {}
    BY DEF KahnInv, Counted
<1>8. \A m : /\ Pending(adj, m, D \cup {n}) = Pending(adj, m, D) \ {n}
             /\ n \in Pending(adj, m, D) <=> Contains(next, m)
             /\ IsFiniteSet(Pending(adj, m, D))
  <2>1. \A m : Pending(adj, m, D) \subseteq N
      BY DEF Pending
  <2>2. \A m : IsFiniteSet(Pending(adj, m, D))
      BY <1>5, <2>1, FS_Subset
  <2>3. \A m : Pending(adj, m, D \cup {n}) = Pending(adj, m, D) \ {n}
      BY DEF Pending
  <2>4. \A m : n \in Pending(adj, m, D) <=> Contains(next, m)
      BY <1>4 DEF Pending
  <2> QED BY <2>2, <2>3, <2>4
<1>9. /\ new \in Seq(N) /\ Distinct(new, Len(new))
      /\ \A m : m \in ToSet(new) <=> Contains(next, m) /\ u.degree[m] = 1
  <2>1. /\ Len(next) \in Nat /\ DOMAIN next = 1 .. Len(next)
        /\ ToSet(next) = {next[k] : k \in 1 .. Len(next)}
        /\ \A x : Contains(next, x) <=> x \in ToSet(next)
      BY <1>5, Listed
  <2>2. freed \in SUBSET (1 .. Len(next))
      BY <2>1
  <2>3. {next[k] : k \in freed} \subseteq N
      BY <1>5, <2>1
  <2>4. \A m : m \in {next[k] : k \in freed} <=> m \in ToSet(next) /\ u.degree[m] = 1
      BY <2>1
  <2> HIDE DEF next, freed
  <2>5. Selected(new, Cardinality(freed), next, Len(next), freed)
      BY <1>5, <2>1, <2>2, SelectedIs
  <2> HIDE DEF new
  <2>6. /\ new \in Seq({next[k] : k \in freed}) /\ Distinct(new, Len(new))
        /\ ToSet(new) = {next[k] : k \in freed}
      BY <2>5 DEF Selected
  <2>7. new \in Seq(N)
      BY <2>3, <2>6
  <2> QED BY <2>1, <2>4, <2>6, <2>7
<1> HIDE DEF v, rest, new, done, degree, next, D, Q, n
<1>10. ToSet(new) \cap (D \cup Q) = {}
  <2>1. ASSUME NEW m \in ToSet(new) PROVE m \notin D \cup Q
    <3>1. Contains(next, m) /\ n \in Pending(adj, m, D)
        BY <1>8, <1>9
    <3>2. m \in N
        BY <1>9, Listed
    <3> QED BY <1>7, <3>1, <3>2
  <2> QED BY <2>1
<1>11. /\ rest \o new \in Seq(N) /\ Distinct(rest \o new, Len(rest \o new))
       /\ ToSet(rest \o new) = (Q \ {n}) \cup ToSet(new)
  <2>1. ToSet(rest) \cap ToSet(new) = {}
      BY <1>3, <1>10
  <2> QED BY <1>3, <1>9, <2>1, JoinedDistinct
<1>12. /\ v.queue = rest \o new /\ v.degree = degree /\ v.order = done
    BY <1>1
<1>13. ASSUME NEW m \in N
       PROVE  /\ v.degree[m] = Cardinality(Pending(adj, m, D \cup {n}))
              /\ m \in (D \cup {n}) \cup ToSet(v.queue) <=> Pending(adj, m, D \cup {n}) = {}
  <2> DEFINE P == Pending(adj, m, D)
  <2>1. /\ IsFiniteSet(P) /\ Cardinality(P) \in Nat /\ Pending(adj, m, D \cup {n}) = P \ {n}
        /\ n \in P <=> Contains(next, m)
      BY <1>8, FS_CardinalityType
  <2>2. u.degree[m] = Cardinality(P) /\ (m \in D \cup Q <=> P = {})
      BY <1>7
  <2>3. v.degree[m] = IF Contains(next, m) THEN u.degree[m] - 1 ELSE u.degree[m]
      BY <1>12 DEF degree
  <2> HIDE DEF P
  <2>4. CASE Contains(next, m)
    <3>1. Cardinality(P \ {n}) = Cardinality(P) - 1
        BY <2>1, <2>4, FS_RemoveElement
    <3>2. IsFiniteSet(P \ {n})
        BY <2>1, FS_Subset
    <3>3. P \ {n} = {} <=> Cardinality(P) = 1
      <4>1. P \ {n} = {} <=> Cardinality(P \ {n}) = 0
          BY <3>2, FS_EmptySet
      <4> QED BY <2>1, <3>1, <4>1
    <3>4. m \notin D \cup Q
        BY <2>1, <2>2, <2>4
    <3>5. m \in (D \cup {n}) \cup ToSet(v.queue) <=> m \in ToSet(new)
        BY <1>3, <1>11, <1>12, <3>4
    <3>6. m \in ToSet(new) <=> Cardinality(P) = 1
        BY <1>9, <2>2, <2>4
    <3> QED BY <2>1, <2>2, <2>3, <2>4, <3>1, <3>3, <3>5, <3>6
  <2>5. CASE ~Contains(next, m)
    <3>1. P \ {n} = P
        BY <2>1, <2>5
    <3>2. m \notin ToSet(new)
        BY <1>9, <2>5
    <3>3. m \in (D \cup {n}) \cup ToSet(v.queue) <=> m \in D \cup Q
        BY <1>3, <1>11, <1>12, <3>2
    <3> QED BY <2>1, <2>2, <2>3, <2>5, <3>1, <3>3
  <2> QED BY <2>4, <2>5
<1>14. Counted(adj, v)
    BY <1>6, <1>12, <1>13 DEF Counted
<1>15. ToSet(v.order) \cap ToSet(v.queue) = {}
    BY <1>2, <1>3, <1>4, <1>6, <1>10, <1>11, <1>12
<1>16. ASSUME NEW i \in 1 .. Len(done), NEW x \in N, Contains(adj[x], done[i])
       PROVE  \E j \in 1 .. i - 1 : done[j] = x
  <2> DEFINE l == Len(u.order)
  <2>1. l \in Nat /\ D = {u.order[k] : k \in 1 .. l}
      BY <1>2, Listed DEF D
  <2>2. Len(done) = l + 1 /\ done[l + 1] = n /\ \A k \in 1 .. l : done[k] = u.order[k]
      BY <1>6
  <2>3. \A k \in 1 .. l : Contains(adj[x], u.order[k]) => \E j \in 1 .. k - 1 : u.order[j] = x
      BY DEF KahnInv, InTurn
  <2> HIDE DEF l
  <2>4. CASE i \in 1 .. l
    <3>1. PICK j \in 1 .. i - 1 : u.order[j] = x
        BY <1>16, <2>2, <2>3, <2>4
    <3>2. j \in 1 .. l
        BY <2>1, <2>4
    <3> QED BY <2>2, <3>1, <3>2
  <2>5. CASE i = l + 1
    <3>1. Contains(adj[x], n)
        BY <1>16, <2>2, <2>5
    <3>2. Pending(adj, n, D) = {}
        BY <1>3, <1>4, <1>7
    <3>3. x \in D
        BY <3>1, <3>2 DEF Pending
    <3>4. PICK k \in 1 .. l : u.order[k] = x
        BY <2>1, <3>3
    <3>5. k \in 1 .. i - 1 /\ done[k] = x
        BY <2>1, <2>2, <2>5, <3>4
    <3> QED BY <3>5
  <2> QED BY <2>1, <2>2, <2>4, <2>5
<1>17. InTurn(adj, v.order)
    BY <1>12, <1>16 DEF InTurn
<1>18. KahnInv(adj, v)
    BY <1>6, <1>11, <1>12, <1>14, <1>15, <1>17 DEF KahnInv
<1> QED BY <1>6, <1>12, <1>18 DEF v, done
-----------------------------------------------------------------------------
(* The order of a graph's operators.                                        *)

\* A graph that runs, with operators, told apart by their names.
Drawable(g) ==
    /\ WellFormed(g) /\ Runnable(g) /\ g.nodes # <<>>
    /\ \A i, j \in Nodes(g) : OpName(g, i) = OpName(g, j) => i = j

LEMMA NamesAre ==
    ASSUME NEW g, Drawable(g)
    PROVE  /\ Len(g.nodes) \in Nat \ {0} /\ Nodes(g) = 1 .. Len(g.nodes)
           /\ DOMAIN g.nodes = 1 .. Len(g.nodes)
           /\ NameList(g) \in Seq(Names(g)) /\ Len(NameList(g)) = Len(g.nodes)
           /\ Distinct(NameList(g), Len(g.nodes)) /\ ToSet(NameList(g)) = Names(g)
           /\ \A i \in Nodes(g) : NameList(g)[i] = OpName(g, i)
           /\ IsFiniteSet(Names(g)) /\ Cardinality(Names(g)) = Len(g.nodes)
<1> DEFINE n == Len(g.nodes)
           s == NameList(g)
<1>1. n \in Nat \ {0} /\ Nodes(g) = 1 .. n /\ DOMAIN g.nodes = 1 .. n
  <2>1. g.nodes \in Seq(ToSet(g.nodes)) /\ g.nodes # <<>>
      BY DEF Drawable, WellFormed, IsList
  <2> QED BY <2>1 DEF Nodes
<1>2. s = [i \in 1 .. n |-> OpName(g, i)] /\ Names(g) = {OpName(g, i) : i \in 1 .. n}
    BY <1>1 DEF NameList, Names
<1> HIDE DEF n, s
<1>3. \A i \in 1 .. n : OpName(g, i) \in Names(g)
    BY <1>2
<1>4. s \in Seq(Names(g)) /\ Len(s) = n
  <2>1. s \in [1 .. n -> Names(g)]
      BY <1>2, <1>3
  <2> QED BY <1>1, <2>1
<1>5. Distinct(s, n)
    BY <1>1, <1>2 DEF Distinct, Drawable
<1>6. ToSet(s) = Names(g)
    BY <1>2 DEF ToSet
<1>7. IsFiniteSet(ToSet(s)) /\ Cardinality(ToSet(s)) = n
    BY <1>1, <1>5, CountIs
<1>8. \A i \in Nodes(g) : s[i] = OpName(g, i)
    BY <1>1, <1>2
<1> QED BY <1>1, <1>4, <1>5, <1>6, <1>7, <1>8 DEF n, s

\* A node reads what earlier nodes write.
LEMMA ReadsEarlier ==
    ASSUME NEW g, Drawable(g), NEW j \in Nodes(g), NEW k \in DOMAIN g.nodes[j].in,
           NEW i, i = Producer(g, g.nodes[j].in[k]), i > 0
    PROVE  i \in Nodes(g) /\ i < j
<1> DEFINE x == g.nodes[j].in[k]
           n == Len(g.nodes)
           I == {l \in 1 .. n : \E m \in DOMAIN g.nodes[l].out : g.nodes[l].out[m] = x}
           Written(l) == UNION {ToSet(g.nodes[m].out) : m \in 1 .. l - 1}
           given == DOMAIN g.inits \cup g.ins
<1>1. n \in Nat /\ Nodes(g) = 1 .. n
    BY NamesAre
<1>2. i = IF I # {} THEN Max(I) ELSE 0
    BY DEF Producer, SelectLastInSeq
<1>3. i \in I
  <2>1. I \in SUBSET Int /\ IsFiniteSet(I)
    <3>1. I \in SUBSET (1 .. n)
        OBVIOUS
    <3> HIDE DEF I, n
    <3> QED BY <1>1, <3>1, PlacesFinite
  <2>2. I # {}
      BY <1>2
  <2> HIDE DEF I
  <2> QED BY <1>2, <2>1, <2>2, MaxIs
<1>4. i \in 1 .. n /\ x \in ToSet(g.nodes[i].out)
    BY <1>3 DEF ToSet
<1>5. x \in ToSet(g.nodes[j].in)
    BY DEF ToSet
<1>6. /\ ToSet(g.nodes[j].in) \subseteq given \cup Written(j)
      /\ ToSet(g.nodes[i].out) \cap (given \cup Written(i)) = {}
    BY <1>1, <1>4 DEF Drawable, Runnable
<1> HIDE DEF x, n, given
<1>7. PICK l \in 1 .. j - 1 : x \in ToSet(g.nodes[l].out)
    BY <1>4, <1>5, <1>6
<1>8. ~(l \in 1 .. i - 1)
    BY <1>4, <1>6, <1>7
<1> QED BY <1>1, <1>4, <1>7, <1>8

\* What an operator leads to.
Leads(g, i, t) ==
    /\ t \in Seq(Names(g)) /\ Distinct(t, Len(t))
    /\ \A y \in ToSet(t) : \E j \in Nodes(g) : y = OpName(g, j) /\ i < j

LEMMA SuccessorsAre ==
    ASSUME NEW g, Drawable(g), NEW i \in Nodes(g)
    PROVE  Leads(g, i, Successors(g, OpName(g, i)))
<1> DEFINE Reads(j) == \E k \in DOMAIN g.nodes[j].in :
                LET p == Producer(g, g.nodes[j].in[k])
                IN  p > 0 /\ OpName(g, p) = OpName(g, i)
           S == {j \in Nodes(g) : Reads(j)}
           n == Len(g.nodes)
           s == NameList(g)
           t == MembersAt(s, S)
           m == Cardinality(S)
<1>1. Successors(g, OpName(g, i)) = Once(t)
    BY DEF Successors
<1>2. /\ n \in Nat /\ Nodes(g) = 1 .. n /\ Distinct(s, n)
      /\ \A j \in Nodes(g) : s[j] = OpName(g, j)
    BY NamesAre
<1>3. \A j \in S : j \in Nodes(g) /\ i < j
  <2> SUFFICES ASSUME NEW j \in Nodes(g), Reads(j) PROVE i < j
      OBVIOUS
  <2>1. PICK k \in DOMAIN g.nodes[j].in :
            LET p == Producer(g, g.nodes[j].in[k]) IN p > 0 /\ OpName(g, p) = OpName(g, i)
      OBVIOUS
  <2> DEFINE p == Producer(g, g.nodes[j].in[k])
  <2>2. p > 0 /\ OpName(g, p) = OpName(g, i)
      BY <2>1
  <2>3. p \in Nodes(g) /\ p < j
      BY <2>2, ReadsEarlier
  <2>4. p = i
      BY <2>2, <2>3 DEF Drawable
  <2> QED BY <2>3, <2>4
<1> HIDE DEF S, s, n
<1>4. S \in SUBSET (1 .. n)
    BY <1>2, <1>3
<1>5. Selected(t, m, s, n, S)
    BY <1>2, <1>4, SelectedIs
<1> HIDE DEF t, m
<1>6. /\ m \in Nat /\ Len(t) = m /\ Distinct(t, m) /\ t \in Seq({s[j] : j \in S})
      /\ ToSet(t) = {s[j] : j \in S}
    BY <1>5 DEF Selected
<1>7. Once(t) = t
  <2>1. Once(t) = [k \in 1 .. m |-> t[k]]
      BY <1>6, OnceDistinct DEF Distinct
  <2>2. t = [k \in 1 .. m |-> t[k]]
      BY <1>6
  <2> QED BY <2>1, <2>2
<1>8. {s[j] : j \in S} \subseteq Names(g)
    BY <1>2, <1>3 DEF Names
<1>9. t \in Seq(Names(g))
    BY <1>6, <1>8
<1>10. \A y \in ToSet(t) : \E j \in Nodes(g) : y = OpName(g, j) /\ i < j
    BY <1>2, <1>3, <1>6
<1> QED BY <1>1, <1>6, <1>7, <1>9, <1>10 DEF Leads

LEMMA AdjacencyIs ==
    ASSUME NEW g, Drawable(g)
    PROVE  /\ Graphed(Adjacency(g)) /\ DOMAIN Adjacency(g) = Names(g)
           /\ \A x \in Names(g) : Adjacency(g)[x] = Successors(g, x)
<1>1. /\ DOMAIN Adjacency(g) = Names(g)
      /\ \A x \in Names(g) : Adjacency(g)[x] = Successors(g, x)
    BY DEF Adjacency
<1>2. ASSUME NEW x \in Names(g)
      PROVE  Successors(g, x) \in Seq(Names(g)) /\ Distinct(Successors(g, x), Len(Successors(g, x)))
  <2>1. PICK i \in Nodes(g) : x = OpName(g, i)
      BY DEF Names
  <2>2. Leads(g, i, Successors(g, x))
      BY <2>1, SuccessorsAre
  <2> QED BY <2>2 DEF Leads
<1>3. IsFiniteSet(Names(g))
    BY NamesAre
<1> QED BY <1>1, <1>2, <1>3 DEF Graphed

LEMMA UnqueuedIs ==
    ASSUME NEW g, Drawable(g)
    PROVE  KahnInv(Adjacency(g), Unqueued(g)) /\ Len(Unqueued(g).order) = 0
<1> DEFINE adj == Adjacency(g)
           N == Names(g)
           n == Len(g.nodes)
           names == Once(NameList(g))
           degree == [x \in N |-> Cardinality({m \in N : Contains(adj[m], x)})]
           S == {k \in DOMAIN names : degree[names[k]] = 0}
           first == MembersAt(names, S)
           u == Unqueued(g)
<1>1. u = [queue |-> first, degree |-> degree, order |-> <<>>]
    BY DEF Unqueued
<1>2. DOMAIN adj = N /\ IsFiniteSet(N)
    BY AdjacencyIs, NamesAre
<1>3. n \in Nat /\ Distinct(names, n) /\ ToSet(names) = N
  <2> DEFINE s == NameList(g)
  <2>1. n \in Nat /\ Distinct(s, n) /\ ToSet(s) = N /\ s \in Seq(N) /\ Len(s) = n
      BY NamesAre
  <2> HIDE DEF s, n, N
  <2>2. Once(s) = [k \in 1 .. n |-> s[k]]
      BY <2>1, OnceDistinct DEF Distinct
  <2>3. s = [k \in 1 .. n |-> s[k]]
      BY <2>1
  <2> QED BY <2>1, <2>2, <2>3 DEF s
<1>4. DOMAIN names = 1 .. n /\ N = {names[k] : k \in 1 .. n}
    BY <1>3 DEF Distinct, ToSet
<1> HIDE DEF names, adj, n, N
<1>5. /\ first \in Seq(N) /\ Distinct(first, Len(first))
      /\ \A m : m \in ToSet(first) <=> m \in N /\ degree[m] = 0
  <2>1. S \in SUBSET (1 .. n) /\ {names[k] : k \in S} \subseteq N
      BY <1>4
  <2>2. \A m : m \in {names[k] : k \in S} <=> m \in N /\ degree[m] = 0
      BY <1>4
  <2> HIDE DEF S
  <2>3. Selected(first, Cardinality(S), names, n, S)
      BY <1>3, <2>1, SelectedIs
  <2> DEFINE m == Cardinality(S)
             T == {names[k] : k \in S}
  <2> HIDE DEF first, m
  <2>4. /\ first \in Seq(T) /\ Len(first) = m /\ Distinct(first, m) /\ ToSet(first) = T
      BY <2>3 DEF Selected, m
  <2> HIDE DEF T
  <2>5. T \subseteq N
      BY <2>1 DEF T
  <2>6. first \in Seq(N)
      BY <2>4, <2>5, SeqMonotonic
  <2> QED BY <2>2, <2>4, <2>6 DEF T
<1>6. ASSUME NEW m \in N
      PROVE  degree[m] = Cardinality(Pending(adj, m, {})) /\ (degree[m] = 0 <=> Pending(adj, m, {}) = {})
  <2>1. Pending(adj, m, {}) = {x \in N : Contains(adj[x], m)}
      BY <1>2 DEF Pending
  <2>2. IsFiniteSet(Pending(adj, m, {}))
      BY <1>2, <2>1, FS_Subset
  <2> QED BY <2>1, <2>2, FS_EmptySet
<1> HIDE DEF degree, first, u
<1>7. u.queue = first /\ u.degree = degree /\ u.order = <<>>
    BY <1>1
<1>8. /\ <<>> \in Seq(N) /\ Len(<<>>) = 0 /\ ToSet(<<>>) = {} /\ Distinct(<<>>, 0)
    BY DEF ToSet, Distinct
<1>9. Counted(adj, u)
    BY <1>2, <1>5, <1>6, <1>7, <1>8 DEF Counted
<1>10. InTurn(adj, u.order)
    BY <1>7, <1>8 DEF InTurn
<1>11. KahnInv(adj, u)
    BY <1>2, <1>5, <1>7, <1>8, <1>9, <1>10 DEF KahnInv
<1> QED BY <1>7, <1>8, <1>11 DEF adj, u

PopOne(adj, s, n) == Pop(adj, s)

Kahn == INSTANCE Folding WITH Op <- PopOne, Good <- KahnInv

\* A list of the operators, each before those it leads to.
Follows(g, s) ==
    /\ s \in Seq(Names(g)) /\ Len(s) = Len(g.nodes) /\ Distinct(s, Len(g.nodes))
    /\ ToSet(s) = Names(g)
    /\ \A i \in 1 .. Len(g.nodes) : \A y \in ToSet(Successors(g, s[i])) :
           \E j \in 1 .. Len(g.nodes) : i < j /\ s[j] = y

\* With nothing queued, everything is listed: the first operator in file order that were
\* not would be led to by an earlier one.
LEMMA AllListed ==
    ASSUME NEW g, Drawable(g), NEW u, KahnInv(Adjacency(g), u),
           u.queue = <<>> \/ Len(u.order) = Len(g.nodes)
    PROVE  ToSet(u.order) = Names(g) /\ Len(u.order) = Len(g.nodes)
<1> DEFINE adj == Adjacency(g)
           N == Names(g)
           n == Len(g.nodes)
           D == ToSet(u.order)
<1>1. /\ IsFiniteSet(N) /\ Cardinality(N) = n /\ n \in Nat /\ Nodes(g) = 1 .. n
      /\ DOMAIN adj = N /\ \A x \in N : adj[x] = Successors(g, x)
    BY NamesAre, AdjacencyIs
<1>2. u.order \in Seq(N) /\ Distinct(u.order, Len(u.order)) /\ Len(u.order) \in Nat
    BY <1>1 DEF KahnInv
<1>3. D \subseteq N
    BY <1>2, Listed
<1>4. Cardinality(D) = Len(u.order)
    BY <1>2, CountIs
<1>5. CASE Len(u.order) = n
  <2>1. D = N
    <3> HIDE DEF D, N, n
    <3> QED BY <1>1, <1>3, <1>4, <1>5, FS_Subset
  <2> QED BY <1>5, <2>1
<1>6. CASE u.queue = <<>>
  <2> DEFINE Left == {i \in 1 .. n : OpName(g, i) \notin D}
  <2>1. ASSUME Left # {} PROVE FALSE
    <3>1. Left \in SUBSET Nat
        BY <1>1
    <3>2. PICK i \in Left : \A k \in Left : i <= k
      <4> HIDE DEF Left
      <4> QED BY <2>1, <3>1, Least
    <3>3. i \in Nodes(g) /\ OpName(g, i) \in N /\ OpName(g, i) \notin D
        BY <1>1 DEF Names
    <3>4. ToSet(u.queue) = {}
        BY <1>6 DEF ToSet
    <3>5. Pending(adj, OpName(g, i), D) # {}
      <4> HIDE DEF adj, D, N
      <4> QED BY <1>1, <3>3, <3>4 DEF KahnInv, Counted, D, adj
    <3>6. PICK y \in N : y \notin D /\ Contains(adj[y], OpName(g, i))
        BY <1>1, <3>5 DEF Pending
    <3>7. PICK k \in Nodes(g) : y = OpName(g, k)
        BY DEF Names
    <3>8. Leads(g, k, adj[y])
        BY <1>1, <3>7, SuccessorsAre
    <3>9. OpName(g, i) \in ToSet(adj[y])
      <4> DEFINE t == adj[y]
      <4>1. t \in Seq(N)
          BY <3>8 DEF Leads
      <4> HIDE DEF t, N
      <4> QED BY <3>6, <4>1, Listed DEF t
    <3>10. PICK j \in Nodes(g) : OpName(g, i) = OpName(g, j) /\ k < j
        BY <3>8, <3>9 DEF Leads
    <3>11. i = j
        BY <3>3, <3>10 DEF Drawable
    <3>12. k \in Left
        BY <1>1, <3>6, <3>7
    <3> QED BY <1>1, <3>2, <3>3, <3>7, <3>10, <3>11, <3>12
  <2>2. N \subseteq D
      BY <1>1, <2>1 DEF Names
  <2>3. D = N /\ Len(u.order) = n
    <3> HIDE DEF D, N
    <3> QED BY <1>1, <1>3, <1>4, <2>2
  <2> QED BY <2>3
<1> QED BY <1>5, <1>6

LEMMA OrderIs ==
    ASSUME NEW g, Drawable(g)
    PROVE  Follows(g, TopologicalOrder(g))
<1> DEFINE adj == Adjacency(g)
           first == Unqueued(g)
           n == Len(g.nodes)
           N == Names(g)
           Far(u, k) == KahnInv(adj, u) /\ (u.queue = <<>> \/ Len(u.order) = k)
<1>1. TopologicalOrder(g) = Kahn!Folded(adj, first, g.nodes).order
  <2> HIDE DEF adj, first
  <2>1. TopologicalOrder(g) = FoldLeft(LAMBDA s, x : Pop(adj, s), first, g.nodes).order
      BY DEF TopologicalOrder, adj, first
  <2> QED BY <2>1 DEF Kahn!Folded, FoldLeft, MapThenFoldSet, PopOne, Max,
             Kahn!FoldLeft, Kahn!MapThenFoldSet, Kahn!Max
<1>2. n \in Nat /\ DOMAIN g.nodes = 1 .. n
    BY NamesAre
<1>3. Graphed(adj) /\ DOMAIN adj = N /\ \A x \in N : adj[x] = Successors(g, x)
    BY AdjacencyIs
<1>4. Far(first, 0)
    BY UnqueuedIs
<1>5. PICK r : Kahn!Runs(r, adj, first, n, g.nodes) /\ Kahn!Folded(adj, first, g.nodes) = r[n]
  <2> HIDE DEF adj, first, n
  <2> QED BY <1>2, Kahn!FoldRuns
<1>6. r[0] = first /\ \A k \in 1 .. n : r[k] = Pop(adj, r[k - 1])
    BY <1>5 DEF Kahn!Runs, PopOne
<1> HIDE DEF adj, first, n
<1>7. Far(r[n], n)
  <2> DEFINE Reached == {k \in Nat : k <= n => Far(r[k], k)}
  <2>1. 0 \in Reached
      BY <1>4, <1>6
  <2>2. ASSUME NEW k \in Nat, k \in Reached PROVE k + 1 \in Reached
    <3> SUFFICES ASSUME k + 1 <= n PROVE Far(r[k + 1], k + 1)
        OBVIOUS
    <3>1. k + 1 \in 1 .. n /\ (k + 1) - 1 = k /\ k <= n
        BY <1>2
    <3>2. r[k + 1] = Pop(adj, r[k]) /\ Far(r[k], k)
        BY <1>6, <2>2, <3>1
    <3>3. CASE r[k].queue = <<>>
        BY <3>2, <3>3 DEF Pop
    <3>4. CASE r[k].queue # <<>>
      <4>1. KahnInv(adj, r[k]) /\ Len(r[k].order) = k
          BY <3>2, <3>4
      <4> QED BY <1>3, <3>2, <3>4, <4>1, PopKeeps
    <3> QED BY <3>3, <3>4
  <2> HIDE DEF Reached
  <2>3. n \in Reached
      BY <1>2, <2>1, <2>2, NatSetInduction
  <2> QED BY <1>2, <2>3 DEF Reached
<1> DEFINE s == r[n].order
<1>8. TopologicalOrder(g) = s
    BY <1>1, <1>5
<1>9. ToSet(s) = N /\ Len(s) = n
    BY <1>7, AllListed DEF adj, n
<1>10. s \in Seq(N) /\ Distinct(s, n) /\ InTurn(adj, s)
    BY <1>3, <1>7, <1>9 DEF KahnInv
<1> HIDE DEF s
<1>11. ASSUME NEW i \in 1 .. n, NEW y \in ToSet(Successors(g, s[i]))
       PROVE  \E j \in 1 .. n : i < j /\ s[j] = y
  <2> DEFINE t == Successors(g, s[i])
  <2>1. s[i] \in N
      BY <1>9, <1>10
  <2>2. PICK k \in Nodes(g) : s[i] = OpName(g, k)
      BY <2>1 DEF Names
  <2>3. Leads(g, k, t)
      BY <2>2, SuccessorsAre
  <2>4. t \in Seq(N)
      BY <2>3 DEF Leads
  <2>5. adj[s[i]] = t
      BY <1>3, <2>1
  <2> HIDE DEF t, N
  <2>6. Contains(t, y) /\ y \in N
      BY <2>4, Listed DEF t
  <2>7. PICK j \in 1 .. n : s[j] = y
      BY <1>9, <1>10, <2>6 DEF ToSet, Distinct
  <2>8. PICK l \in 1 .. j - 1 : s[l] = s[i]
      BY <1>3, <1>9, <1>10, <2>1, <2>5, <2>6, <2>7 DEF InTurn
  <2>9. l = i
      BY <1>2, <1>10, <2>8 DEF Distinct
  <2> QED BY <1>2, <2>7, <2>8, <2>9
<1>12. Follows(g, s)
    BY <1>9, <1>10, <1>11 DEF Follows, n
<1> QED BY <1>8, <1>12

\* The shown ones keep the order of all.
Keeps(g, s) ==
    /\ s \in Seq(Names(g)) /\ Len(s) \in Nat \ {0} /\ Distinct(s, Len(s))
    /\ \A k, l \in 1 .. Len(s) : \A i, j \in 1 .. Len(g.nodes) :
           /\ s[k] = TopologicalOrder(g)[i]
           /\ s[l] = TopologicalOrder(g)[j]
           /\ i < j
           => k < l

LEMMA KeptIs ==
    ASSUME NEW g, Drawable(g)
    PROVE  Keeps(g, KeptOrder(g))
<1> DEFINE OpOf(m) == g.nodes[SelectLastInSeq(NameList(g), LAMBDA o : o = m)].op
           s == TopologicalOrder(g)
           S == {k \in DOMAIN s : OpOf(s[k]) \in ShownOps}
           n == Len(g.nodes)
           t == MembersAt(s, S)
           m == Cardinality(S)
           N == Names(g)
<1>1. KeptOrder(g) = IF S = {} THEN s ELSE t
    BY DEF KeptOrder
<1>2. /\ s \in Seq(N) /\ Len(s) = n /\ Distinct(s, n)
      /\ n \in Nat \ {0} /\ DOMAIN s = 1 .. n
    BY OrderIs, NamesAre DEF Follows, Distinct
<1>3. S \in SUBSET (1 .. n)
    BY <1>2
<1> HIDE DEF n, N, S, OpOf, s
<1>4. CASE S = {}
  <2>1. \A k, l \in 1 .. n : \A i, j \in 1 .. n : s[k] = s[i] /\ s[l] = s[j] /\ i < j => k < l
      BY <1>2 DEF Distinct
  <2>2. Keeps(g, s)
      BY <1>2, <2>1 DEF Keeps, s, n, N
  <2> QED BY <1>1, <1>4, <2>2
<1>5. CASE S # {}
  <2>1. Selected(t, m, s, n, S)
      BY <1>2, <1>3, SelectedIs
  <2>2. m # 0 /\ {s[i] : i \in S} \subseteq N
    <3>1. IsFiniteSet(S)
        BY <1>2, <1>3, PlacesFinite
    <3>2. m # 0
        BY <1>5, <3>1, FS_EmptySet
    <3> QED BY <1>2, <1>3, <3>2
  <2> HIDE DEF t, m
  <2>3. /\ m \in Nat \ {0} /\ Len(t) = m /\ Distinct(t, m) /\ t \in Seq(N)
        /\ \A k, l \in 1 .. m : \A i, j \in 1 .. n : t[k] = s[i] /\ t[l] = s[j] /\ i < j => k < l
      BY <2>1, <2>2 DEF Selected
  <2>4. Keeps(g, t)
      BY <2>3 DEF Keeps, s, n, N
  <2> QED BY <1>1, <1>5, <2>4
<1> QED BY <1>4, <1>5
-----------------------------------------------------------------------------
(* What lies behind the dropped operators.                                  *)

LEMMA LeastFirst ==
    ASSUME NEW n \in Nat, NEW D \in SUBSET (1 .. n), NEW d \in D, \A i \in D : d <= i
    PROVE  /\ Cardinality(D) = Cardinality(D \ {d}) + 1 /\ Cardinality(D \ {d}) \in Nat
           /\ Ascending(D)[1] = d
           /\ \A k \in 1 .. Cardinality(D \ {d}) : Ascending(D)[k + 1] = Ascending(D \ {d})[k]
<1> DEFINE E == D \ {d}
           m == Cardinality(E)
           at == Ascending(E)
           q == [k \in 1 .. m + 1 |-> IF k = 1 THEN d ELSE at[k - 1]]
<1>1. D \in SUBSET Int /\ IsFiniteSet(D) /\ E \in SUBSET Int /\ IsFiniteSet(E)
  <2>1. E \in SUBSET (1 .. n)
      OBVIOUS
  <2> HIDE DEF E
  <2> QED BY <2>1, PlacesFinite
<1>2. m \in Nat /\ Lists(at, m, E)
    BY <1>1, AscendingFacts
<1>3. \A i \in E : i \in D /\ d < i /\ i # d
    BY <1>1
<1>4. D = E \cup {d}
    OBVIOUS
<1> HIDE DEF E, m, at
<1>5. /\ \A k \in 1 .. m : at[k] \in E
      /\ \A i \in E : \E k \in 1 .. m : at[k] = i
      /\ \A k, l \in 1 .. m : k < l => at[k] < at[l]
    BY <1>2 DEF Lists
<1>6. q[1] = d /\ \A k \in 1 .. m : q[k + 1] = at[k]
    BY <1>2
<1>7. \A k \in 1 .. m + 1 : k = 1 \/ (k - 1 \in 1 .. m /\ (k - 1) + 1 = k)
    BY <1>2
<1>8. \A k \in 1 .. m : k + 1 \in 1 .. m + 1
    BY <1>2
<1> HIDE DEF q
<1>9. \A k \in 1 .. m + 1 : q[k] \in D
    BY <1>3, <1>5, <1>6, <1>7
<1>10. \A i \in D : \E k \in 1 .. m + 1 : q[k] = i
  <2>1. 1 \in 1 .. m + 1
      BY <1>2
  <2> QED BY <1>4, <1>5, <1>6, <1>8, <2>1
<1>11. ASSUME NEW k \in 1 .. m + 1, NEW l \in 1 .. m + 1, k < l PROVE q[k] < q[l]
  <2>1. l - 1 \in 1 .. m /\ q[l] = at[l - 1]
      BY <1>2, <1>6, <1>7, <1>11
  <2>2. CASE k = 1
      BY <1>3, <1>5, <1>6, <2>1, <2>2
  <2>3. CASE k # 1
    <3>1. k - 1 \in 1 .. m /\ q[k] = at[k - 1] /\ k - 1 < l - 1
        BY <1>2, <1>6, <1>7, <1>11, <2>3
    <3> QED BY <1>5, <2>1, <3>1
  <2> QED BY <2>2, <2>3
<1>12. Lists(q, m + 1, D)
    BY <1>9, <1>10, <1>11 DEF Lists
<1>13. Cardinality(D) = m + 1 /\ \A k \in 1 .. m + 1 : Ascending(D)[k] = q[k]
  <2>1. m + 1 \in Nat
      BY <1>2
  <2> QED BY <1>1, <1>12, <2>1, AscendingIs
<1>14. 1 \in 1 .. m + 1
    BY <1>2
<1> QED BY <1>2, <1>6, <1>8, <1>13, <1>14 DEF E, m, at

LEMMA LastAdded ==
    ASSUME NEW N, NEW t \in Seq(N), NEW e \in N
    PROVE  /\ t \o <<e>> \in Seq(N) /\ Len(t \o <<e>>) = Len(t) + 1
           /\ (\A k \in 1 .. Len(t) : (t \o <<e>>)[k] = t[k]) /\ (t \o <<e>>)[Len(t) + 1] = e
OBVIOUS

\* The dropped ones of D, then e.
Onward(g, D, e) == MembersAt(NameList(g), D) \o <<e>>

LEMMA OnwardIs ==
    ASSUME NEW g, Drawable(g), NEW D \in SUBSET Nodes(g), NEW e \in Names(g)
    PROVE  /\ Onward(g, D, e) \in Seq(Names(g)) /\ Len(Onward(g, D, e)) = Cardinality(D) + 1
           /\ Cardinality(D) \in Nat
           /\ \A k \in 1 .. Cardinality(D) : Onward(g, D, e)[k] = NameList(g)[Ascending(D)[k]]
           /\ Onward(g, D, e)[Cardinality(D) + 1] = e
<1> DEFINE n == Len(g.nodes)
           s == NameList(g)
           N == Names(g)
           m == Cardinality(D)
           at == Ascending(D)
           t == MembersAt(s, D)
<1>1. n \in Nat /\ Nodes(g) = 1 .. n /\ s \in Seq(N) /\ Len(s) = n
    BY NamesAre
<1>2. D \in SUBSET Int /\ IsFiniteSet(D)
  <2> HIDE DEF n
  <2> QED BY <1>1, PlacesFinite
<1>3. m \in Nat /\ Lists(at, m, D)
    BY <1>2, AscendingFacts
<1>4. t = [k \in 1 .. m |-> s[at[k]]]
    BY DEF MembersAt
<1> HIDE DEF n, s, at, m, t
<1>5. \A k \in 1 .. m : at[k] \in 1 .. n
    BY <1>1, <1>3 DEF Lists
<1>6. t \in Seq(N) /\ Len(t) = m /\ \A k \in 1 .. m : t[k] = s[at[k]]
    BY <1>1, <1>3, <1>4, <1>5
<1>7. e \in N
    OBVIOUS
<1> HIDE DEF N
<1>8. /\ t \o <<e>> \in Seq(N) /\ Len(t \o <<e>>) = m + 1
      /\ (\A k \in 1 .. m : (t \o <<e>>)[k] = t[k]) /\ (t \o <<e>>)[m + 1] = e
    BY <1>6, <1>7, LastAdded
<1> QED BY <1>3, <1>6, <1>8 DEF Onward, t, s, N, m, at

\* What a shown operator is reached by from a, over dropped ones only.
Reached(g, shown, a, D, e) == Path(g, <<a>> \o MembersAt(NameList(g), D) \o <<e>>)
Reach(g, shown, a) == {e \in shown : \E D \in SUBSET Dropped(g, shown) : Reached(g, shown, a, D, e)}

LEMMA PathFrom ==
    ASSUME NEW g, NEW N, NEW t \in Seq(N), t # <<>>, NEW a \in N
    PROVE  Path(g, <<a>> \o t) <=> Contains(Successors(g, a), t[1]) /\ Path(g, t)
<1> DEFINE u == <<a>> \o t
           n == Len(t)
<1>1. n \in Nat \ {0} /\ Len(u) = n + 1 /\ u[1] = a /\ \A k \in 1 .. n : u[k + 1] = t[k]
    OBVIOUS
<1> HIDE DEF u, n
<1>2. Path(g, u) <=> \A k \in 1 .. n : Contains(Successors(g, u[k]), u[k + 1])
  <2>1. Len(u) - 1 = n
      BY <1>1
  <2> QED BY <2>1 DEF Path
<1>3. Path(g, t) <=> \A k \in 1 .. n - 1 : Contains(Successors(g, t[k]), t[k + 1])
    BY DEF Path, n
<1>4. \A k \in 1 .. n : k = 1 \/ (k - 1 \in 1 .. n - 1 /\ (k - 1) + 1 = k)
    BY <1>1
<1>5. 1 \in 1 .. n /\ \A k \in 1 .. n - 1 : k \in 1 .. n /\ k + 1 \in 1 .. n
    BY <1>1
<1>6. ASSUME Path(g, u) PROVE Contains(Successors(g, a), t[1]) /\ Path(g, t)
  <2>1. Contains(Successors(g, u[1]), u[1 + 1]) /\ u[1 + 1] = t[1]
      BY <1>1, <1>2, <1>5, <1>6
  <2>2. ASSUME NEW k \in 1 .. n - 1 PROVE Contains(Successors(g, t[k]), t[k + 1])
    <3>1. Contains(Successors(g, u[k + 1]), u[(k + 1) + 1])
        BY <1>2, <1>5, <1>6
    <3>2. u[k + 1] = t[k] /\ u[(k + 1) + 1] = t[k + 1]
        BY <1>1, <1>5
    <3> QED BY <3>1, <3>2
  <2> QED BY <1>1, <1>3, <2>1, <2>2
<1>7. ASSUME Contains(Successors(g, a), t[1]), Path(g, t) PROVE Path(g, u)
  <2>1. ASSUME NEW k \in 1 .. n PROVE Contains(Successors(g, u[k]), u[k + 1])
    <3>1. u[k + 1] = t[k]
        BY <1>1
    <3>2. CASE k = 1
        BY <1>1, <1>7, <3>1, <3>2
    <3>3. CASE k # 1
      <4>1. Contains(Successors(g, t[k - 1]), t[k]) /\ u[k] = t[k - 1]
        <5>1. k - 1 \in 1 .. n - 1 /\ k - 1 \in 1 .. n /\ (k - 1) + 1 = k
            BY <1>4, <1>5, <3>3
        <5> QED BY <1>1, <1>3, <1>7, <5>1
      <4> QED BY <3>1, <4>1
    <3> QED BY <3>2, <3>3
  <2> QED BY <1>2, <2>1
<1> QED BY <1>6, <1>7 DEF u

\* A path over the operators of D goes to the first of them, and on from there.
LEMMA ReachedIs ==
    ASSUME NEW g, Drawable(g), NEW shown, NEW a \in Names(g), NEW e \in Names(g),
           NEW D \in SUBSET Nodes(g)
    PROVE  /\ D = {} => (Reached(g, shown, a, D, e) <=> Contains(Successors(g, a), e))
           /\ \A d \in D : (\A i \in D : d <= i) =>
                  (Reached(g, shown, a, D, e) <=>
                      /\ Contains(Successors(g, a), OpName(g, d))
                      /\ Reached(g, shown, OpName(g, d), D \ {d}, e))
<1> DEFINE N == Names(g)
           n == Len(g.nodes)
           s == NameList(g)
           t == Onward(g, D, e)
           m == Cardinality(D)
<1>1. /\ t \in Seq(N) /\ Len(t) = m + 1 /\ m \in Nat
      /\ \A k \in 1 .. m : t[k] = s[Ascending(D)[k]]
      /\ t[m + 1] = e
    BY OnwardIs
<1>2. n \in Nat /\ Nodes(g) = 1 .. n /\ \A i \in Nodes(g) : s[i] = OpName(g, i) /\ OpName(g, i) \in N
    BY NamesAre DEF Names
<1>3. \A x \in N : \A E \in SUBSET Nodes(g) :
          Reached(g, shown, x, E, e) <=> Contains(Successors(g, x), Onward(g, E, e)[1]) /\ Path(g, Onward(g, E, e))
  <2> SUFFICES ASSUME NEW x \in N, NEW E \in SUBSET Nodes(g)
               PROVE  Reached(g, shown, x, E, e) <=>
                          Contains(Successors(g, x), Onward(g, E, e)[1]) /\ Path(g, Onward(g, E, e))
      OBVIOUS
  <2> DEFINE v == Onward(g, E, e)
             w == MembersAt(s, E)
  <2>1. v \in Seq(N) /\ Len(v) = Cardinality(E) + 1 /\ Cardinality(E) \in Nat
      BY OnwardIs
  <2>2. v # <<>>
      BY <2>1
  <2>3. w \in Seq(N)
    <3>1. IsFiniteSet(E) /\ E \in SUBSET Int
      <4> HIDE DEF n
      <4> QED BY <1>2, PlacesFinite
    <3>2. Lists(Ascending(E), Cardinality(E), E)
        BY <3>1, AscendingFacts
    <3>3. w = [k \in 1 .. Cardinality(E) |-> s[Ascending(E)[k]]]
        BY DEF MembersAt
    <3>4. \A k \in 1 .. Cardinality(E) : s[Ascending(E)[k]] \in N
        BY <1>2, <3>2 DEF Lists
    <3> HIDE DEF w, s, N
    <3> QED BY <2>1, <3>3, <3>4
  <2>4. (<<x>> \o w) \o <<e>> = <<x>> \o (w \o <<e>>)
    <3>1. <<x>> \in Seq(N) /\ <<e>> \in Seq(N)
        OBVIOUS
    <3> HIDE DEF w, N
    <3> QED BY <2>3, <3>1, ConcatAssociative
  <2>5. Reached(g, shown, x, E, e) <=> Path(g, <<x>> \o v)
      BY <2>4 DEF Reached, Onward
  <2> HIDE DEF v, w
  <2>6. Path(g, <<x>> \o v) <=> Contains(Successors(g, x), v[1]) /\ Path(g, v)
    <3> HIDE DEF N
    <3> QED BY <2>1, <2>2, PathFrom
  <2> QED BY <2>5, <2>6 DEF v
<1>4. Reached(g, shown, a, D, e) <=> Contains(Successors(g, a), t[1]) /\ Path(g, t)
    BY <1>3
<1>5. ASSUME D = {} PROVE Reached(g, shown, a, D, e) <=> Contains(Successors(g, a), e)
  <2>1. m = 0
      BY <1>5, FS_EmptySet
  <2> HIDE DEF m, t
  <2>2. t[1] = e /\ Len(t) = 1
      BY <1>1, <2>1
  <2>3. Path(g, t)
      BY <2>2 DEF Path
  <2> QED BY <1>4, <2>2, <2>3
<1>6. ASSUME NEW d \in D, \A i \in D : d <= i
      PROVE  Reached(g, shown, a, D, e) <=>
                 /\ Contains(Successors(g, a), OpName(g, d))
                 /\ Reached(g, shown, OpName(g, d), D \ {d}, e)
  <2> DEFINE E == D \ {d}
             v == Onward(g, E, e)
             x == OpName(g, d)
  <2>0. E \in SUBSET Nodes(g)
      OBVIOUS
  <2>1. m = Cardinality(E) + 1 /\ Cardinality(E) \in Nat /\ Ascending(D)[1] = d
        /\ \A k \in 1 .. Cardinality(E) : Ascending(D)[k + 1] = Ascending(E)[k]
    <3>1. D \in SUBSET (1 .. n) /\ n \in Nat
        BY <1>2
    <3> HIDE DEF n
    <3>2. /\ Cardinality(D) = Cardinality(D \ {d}) + 1 /\ Cardinality(D \ {d}) \in Nat
          /\ Ascending(D)[1] = d
          /\ \A k \in 1 .. Cardinality(D \ {d}) : Ascending(D)[k + 1] = Ascending(D \ {d})[k]
        BY <1>6, <3>1, LeastFirst
    <3> QED BY <3>2
  <2>2. /\ v \in Seq(N) /\ Len(v) = Cardinality(E) + 1
        /\ \A k \in 1 .. Cardinality(E) : v[k] = s[Ascending(E)[k]]
        /\ v[Cardinality(E) + 1] = e
    <3> HIDE DEF E
    <3> QED BY <2>0, OnwardIs
  <2>3. x \in N /\ s[d] = x
      BY <1>2
  <2>4. Reached(g, shown, x, E, e) <=> Contains(Successors(g, x), v[1]) /\ Path(g, v)
    <3> HIDE DEF E, x, N
    <3> QED BY <1>3, <2>0, <2>3
  <2> DEFINE l == Cardinality(E)
             w == <<x>> \o v
  <2> HIDE DEF E, v, x, m, t, s, N, l
  <2>5. /\ w \in Seq(N) /\ Len(w) = Len(v) + 1 /\ w[1] = x
        /\ \A k \in 1 .. Len(v) : w[k + 1] = v[k]
    <3> HIDE DEF w
    <3>1. w = <<x>> \o v
        BY DEF w
    <3> QED BY <2>2, <2>3, <3>1
  <2> HIDE DEF w
  <2>6. t = w
    <3>1. Len(t) = Len(w)
        BY <1>1, <2>1, <2>2, <2>5
    <3>2. ASSUME NEW k \in 1 .. Len(t) PROVE t[k] = w[k]
      <4>1. CASE k = 1
        <5>1. 1 \in 1 .. m
            BY <2>1
        <5> QED BY <1>1, <2>1, <2>3, <2>5, <4>1, <5>1
      <4>2. CASE k # 1 /\ k = m + 1
        <5>1. k - 1 = l + 1 /\ k - 1 \in 1 .. Len(v) /\ (k - 1) + 1 = k
            BY <2>1, <2>2, <4>2 DEF l
        <5> QED BY <1>1, <2>2, <2>5, <4>2, <5>1 DEF l
      <4>3. CASE k # 1 /\ k # m + 1
        <5>1. k \in 1 .. m /\ k - 1 \in 1 .. l /\ k - 1 \in 1 .. Len(v) /\ (k - 1) + 1 = k
            BY <1>1, <2>1, <2>2, <4>3 DEF l
        <5>2. Ascending(D)[k] = Ascending(E)[k - 1]
            BY <2>1, <5>1 DEF l
        <5>3. t[k] = s[Ascending(D)[k]] /\ w[k] = v[k - 1] /\ v[k - 1] = s[Ascending(E)[k - 1]]
            BY <1>1, <2>2, <2>5, <5>1 DEF l
        <5> QED BY <5>2, <5>3
      <4> QED BY <4>1, <4>2, <4>3
    <3> QED BY <1>1, <2>5, <3>1, <3>2, SeqEqual
  <2>7. v # <<>>
      BY <2>1, <2>2
  <2>8. Path(g, w) <=> Contains(Successors(g, x), v[1]) /\ Path(g, v)
      BY <2>2, <2>3, <2>7, PathFrom DEF w
  <2>9. t[1] = x
      BY <2>5, <2>6
  <2> QED BY <1>4, <2>4, <2>6, <2>8, <2>9 DEF x, E
<1> QED BY <1>5, <1>6

LEMMA SuccessorIs ==
    ASSUME NEW g, Drawable(g), NEW i \in Nodes(g)
    PROVE  /\ ToSet(Successors(g, OpName(g, i))) \subseteq Names(g)
           /\ \A y : Contains(Successors(g, OpName(g, i)), y) <=> y \in ToSet(Successors(g, OpName(g, i)))
           /\ \A j \in Nodes(g) : Contains(Successors(g, OpName(g, i)), OpName(g, j)) => i < j
<1> DEFINE t == Successors(g, OpName(g, i))
           N == Names(g)
<1>1. Leads(g, i, t)
    BY SuccessorsAre
<1> HIDE DEF t, N
<1>2. t \in Seq(N)
    BY <1>1 DEF Leads, N
<1>3. ToSet(t) \subseteq N /\ \A y : Contains(t, y) <=> y \in ToSet(t)
    BY <1>2, Listed
<1>4. ASSUME NEW j \in Nodes(g), Contains(t, OpName(g, j)) PROVE i < j
  <2>1. PICK k \in Nodes(g) : OpName(g, j) = OpName(g, k) /\ i < k
      BY <1>1, <1>3, <1>4 DEF Leads
  <2> QED BY <2>1 DEF Drawable
<1> QED BY <1>3, <1>4 DEF t, N

\* From a: the shown ones it leads to, and those reached from the dropped ones it leads to.
LEMMA ReachUnfolds ==
    ASSUME NEW g, Drawable(g), NEW shown \in SUBSET Names(g), NEW a \in Names(g)
    PROVE  Reach(g, shown, a) =
               UNION {IF s \in shown THEN {s} ELSE Reach(g, shown, s) : s \in ToSet(Successors(g, a))}
<1> DEFINE T == ToSet(Successors(g, a))
           All == UNION {IF s \in shown THEN {s} ELSE Reach(g, shown, s) : s \in T}
           gone == Dropped(g, shown)
<1>1. gone \subseteq Nodes(g) /\ \A i \in Nodes(g) : i \in gone <=> OpName(g, i) \notin shown
    BY DEF Dropped
<1>2. Nodes(g) \subseteq Nat
    BY NamesAre
<1>3. /\ T \subseteq Names(g)
      /\ \A y : Contains(Successors(g, a), y) <=> y \in T
  <2>1. PICK i \in Nodes(g) : a = OpName(g, i)
      BY DEF Names
  <2> QED BY <2>1, SuccessorIs
<1>4. \A x, e : e \in Reach(g, shown, x) <=> e \in shown /\ \E D \in SUBSET gone : Reached(g, shown, x, D, e)
    BY DEF Reach
<1>5. \A i \in Nodes(g) : OpName(g, i) \in Names(g)
    BY DEF Names
<1> HIDE DEF T, gone
<1>6. ASSUME NEW e \in Reach(g, shown, a) PROVE e \in All
  <2>1. e \in shown /\ e \in Names(g)
      BY <1>4
  <2>2. PICK D \in SUBSET gone : Reached(g, shown, a, D, e)
      BY <1>4
  <2>3. CASE D = {}
    <3>1. e \in T
        BY <1>1, <1>3, <2>1, <2>2, <2>3, ReachedIs
    <3> QED BY <2>1, <3>1
  <2>4. CASE D # {}
    <3>1. PICK d \in D : \A i \in D : d <= i
      <4>1. D \in SUBSET Nat
          BY <1>1, <1>2
      <4> QED BY <2>4, <4>1, Least
    <3> DEFINE x == OpName(g, d)
    <3>2. Contains(Successors(g, a), x) /\ Reached(g, shown, x, D \ {d}, e)
      <4>1. D \in SUBSET Nodes(g)
          BY <1>1
      <4> QED BY <2>1, <2>2, <3>1, <4>1, ReachedIs
    <3>3. x \in T /\ x \notin shown
      <4>1. d \in gone /\ d \in Nodes(g)
          BY <1>1
      <4> QED BY <1>1, <1>3, <3>2, <4>1
    <3>4. e \in Reach(g, shown, x)
      <4>1. D \ {d} \in SUBSET gone
          OBVIOUS
      <4> QED BY <1>4, <2>1, <3>2, <4>1
    <3> HIDE DEF x
    <3> QED BY <3>3, <3>4
  <2> QED BY <2>3, <2>4
<1>7. ASSUME NEW s \in T, NEW e, e \in IF s \in shown THEN {s} ELSE Reach(g, shown, s)
      PROVE  e \in Reach(g, shown, a)
  <2>1. CASE s \in shown
    <3>1. e = s /\ e \in Names(g) /\ Contains(Successors(g, a), e)
        BY <1>3, <1>7, <2>1
    <3>2. {} \in SUBSET gone /\ {} \in SUBSET Nodes(g)
        OBVIOUS
    <3>3. Reached(g, shown, a, {}, e)
        BY <3>1, <3>2, ReachedIs
    <3> QED BY <1>4, <2>1, <3>1, <3>2, <3>3
  <2>2. CASE s \notin shown
    <3>1. e \in Reach(g, shown, s) /\ e \in shown /\ e \in Names(g)
        BY <1>4, <1>7, <2>2
    <3>2. PICK E \in SUBSET gone : Reached(g, shown, s, E, e)
        BY <1>4, <3>1
    <3>3. PICK d \in Nodes(g) : s = OpName(g, d)
        BY <1>3 DEF Names
    <3>4. d \in gone
        BY <1>1, <2>2, <3>3
    <3>5. \A i \in E : d < i
      <4>1. CASE E = {}
          BY <4>1
      <4>2. CASE E # {}
        <5>1. E \in SUBSET Nat /\ E \in SUBSET Nodes(g)
            BY <1>1, <1>2
        <5>2. PICK l \in E : \A i \in E : l <= i
            BY <4>2, <5>1, Least
        <5>3. Contains(Successors(g, s), OpName(g, l))
            BY <1>3, <3>1, <3>2, <5>1, <5>2, ReachedIs
        <5>4. d < l
            BY <3>3, <5>1, <5>3, SuccessorIs
        <5> QED BY <1>2, <5>1, <5>2, <5>4
      <4> QED BY <4>1, <4>2
    <3> DEFINE D == E \cup {d}
    <3>6. D \in SUBSET gone /\ D \in SUBSET Nodes(g) /\ d \in D
        BY <1>1, <3>4
    <3>7. D \ {d} = E /\ \A i \in D : d <= i
      <4>1. d \notin E /\ d \in Nat
          BY <1>2, <3>5
      <4>2. \A i \in E : i \in Nat
          BY <1>1, <1>2
      <4> QED BY <3>5, <4>1, <4>2
    <3> HIDE DEF D
    <3>8. Reached(g, shown, a, D, e)
      <4>1. Contains(Successors(g, a), OpName(g, d))
          BY <1>3, <3>3
      <4>2. Reached(g, shown, OpName(g, d), D \ {d}, e)
          BY <3>2, <3>3, <3>7
      <4> QED BY <3>1, <3>6, <3>7, <4>1, <4>2, ReachedIs
    <3> QED BY <1>4, <3>1, <3>6, <3>8
  <2> QED BY <2>1, <2>2
<1>8. All \subseteq Reach(g, shown, a)
    BY <1>7
<1>9. Reach(g, shown, a) = All
  <2> HIDE DEF All
  <2> QED BY <1>6, <1>8
<1> QED BY <1>9 DEF T

BridgeOne(c, memo, n) == Bridge(c.graph, c.kept, memo, n)
Whatever(c, u) == TRUE

Memos == INSTANCE Folding WITH Op <- BridgeOne, Good <- Whatever

LEMMA MemoFolded ==
    ASSUME NEW g, NEW kept, NEW c, c = [graph |-> g, kept |-> kept]
    PROVE  KeptSuccessors(g, kept) = Memos!Folded(c, [n \in {} |-> {}], Reverse(TopologicalOrder(g)))
<1> DEFINE s == Reverse(TopologicalOrder(g))
           base == [n \in {} |-> {}]
<1>1. KeptSuccessors(g, kept) = FoldLeft(LAMBDA memo, n : Bridge(g, kept, memo, n), base, s)
    BY DEF KeptSuccessors
<1>2. c.graph = g /\ c.kept = kept
    OBVIOUS
<1> HIDE DEF s, base
<1>3. FoldLeft(LAMBDA memo, n : Bridge(c.graph, c.kept, memo, n), base, s) = Memos!Folded(c, base, s)
    BY DEF Memos!Folded, FoldLeft, MapThenFoldSet, BridgeOne, Max,
           Memos!FoldLeft, Memos!MapThenFoldSet, Memos!Max
<1>4. FoldLeft(LAMBDA memo, n : Bridge(g, kept, memo, n), base, s)
        = FoldLeft(LAMBDA memo, n : Bridge(c.graph, c.kept, memo, n), base, s)
    BY <1>2
<1> QED BY <1>1, <1>3, <1>4 DEF s, base

\* What is known once the last k operators of the order are done.
Bridged(g, kept, k, u) ==
    LET s == TopologicalOrder(g)
        n == Len(g.nodes)
    IN  /\ DOMAIN u = {s[j] : j \in n - k + 1 .. n}
        /\ \A j \in n - k + 1 .. n :
               /\ u[s[j]] = Reach(g, kept, s[j])
               /\ \A y \in Reach(g, kept, s[j]) : \E l \in 1 .. n : j < l /\ s[l] = y

LEMMA BridgeStep ==
    ASSUME NEW g, Drawable(g), NEW kept \in SUBSET Names(g), NEW k \in Nat, k < Len(g.nodes),
           NEW u, Bridged(g, kept, k, u)
    PROVE  Bridged(g, kept, k + 1, Bridge(g, kept, u, TopologicalOrder(g)[Len(g.nodes) - k]))
<1> DEFINE s == TopologicalOrder(g)
           n == Len(g.nodes)
           i == n - k
           x == s[i]
           T == ToSet(Successors(g, x))
           value == UNION {IF y \in kept THEN {y} ELSE u[y] : y \in T}
           v == Bridge(g, kept, u, x)
           Reachable(y) == Reach(g, kept, y)
<1>1. /\ n \in Nat /\ ToSet(s) = Names(g) /\ Distinct(s, n)
      /\ \A j \in 1 .. n : \A y \in ToSet(Successors(g, s[j])) : \E l \in 1 .. n : j < l /\ s[l] = y
    BY OrderIs, NamesAre DEF Follows
<1>2. DOMAIN s = 1 .. n /\ \A j \in 1 .. n : s[j] \in Names(g)
    BY <1>1 DEF ToSet, Distinct
<1>3. v = Overlaid(u, [z \in {x} |-> value])
    BY DEF Bridge
<1>4. /\ DOMAIN u = {s[j] : j \in n - k + 1 .. n}
      /\ \A j \in n - k + 1 .. n :
             u[s[j]] = Reachable(s[j]) /\ \A y \in Reachable(s[j]) : \E l \in 1 .. n : j < l /\ s[l] = y
    BY DEF Bridged
<1> HIDE DEF s, n, Reachable
<1>5. /\ i \in 1 .. n /\ n - (k + 1) + 1 = i
      /\ \A j \in n - (k + 1) + 1 .. n : j = i \/ j \in n - k + 1 .. n
      /\ \A j \in n - k + 1 .. n : j \in i .. n /\ j \in 1 .. n /\ i < j
      /\ \A j \in 1 .. n : i < j => j \in n - k + 1 .. n
    BY <1>1 DEF n
<1> HIDE DEF i
<1>6. x \in Names(g)
    BY <1>2, <1>5
<1>7. \A y \in T : \E j \in n - k + 1 .. n : s[j] = y
    BY <1>1, <1>5
<1>8. \A y \in T : u[y] = Reachable(y) /\ \A z \in Reachable(y) : \E l \in 1 .. n : i < l /\ s[l] = z
  <2> SUFFICES ASSUME NEW y \in T
               PROVE  u[y] = Reachable(y) /\ \A z \in Reachable(y) : \E l \in 1 .. n : i < l /\ s[l] = z
      OBVIOUS
  <2>1. PICK j \in n - k + 1 .. n : s[j] = y
      BY <1>7
  <2>2. i < j /\ i \in Int /\ j \in Int
      BY <1>5
  <2>3. u[y] = Reachable(y) /\ \A z \in Reachable(y) : \E l \in 1 .. n : j < l /\ s[l] = z
      BY <1>4, <2>1
  <2>4. \A l \in 1 .. n : j < l => i < l
      BY <2>2
  <2> QED BY <2>3, <2>4
<1>9. Reachable(x) = UNION {IF y \in kept THEN {y} ELSE Reachable(y) : y \in T}
    BY <1>6, ReachUnfolds DEF Reachable
<1> HIDE DEF x, T
<1>10. value = Reachable(x)
    BY <1>8, <1>9
<1>11. \A y \in Reachable(x) : \E l \in 1 .. n : i < l /\ s[l] = y
  <2> SUFFICES ASSUME NEW y \in Reachable(x) PROVE \E l \in 1 .. n : i < l /\ s[l] = y
      OBVIOUS
  <2>1. PICK z \in T : y \in IF z \in kept THEN {z} ELSE Reachable(z)
      BY <1>9
  <2>2. CASE z \in kept
    <3>1. y = z
        BY <2>1, <2>2
    <3> QED BY <1>5, <1>7, <3>1
  <2>3. CASE z \notin kept
      BY <1>8, <2>1, <2>3
  <2> QED BY <2>2, <2>3
<1> HIDE DEF value, v
<1>12. DOMAIN v = DOMAIN u \cup {x} /\ \A y \in DOMAIN v : v[y] = IF y = x THEN value ELSE u[y]
    BY <1>3 DEF Overlaid
<1>13. DOMAIN v = {s[j] : j \in n - (k + 1) + 1 .. n}
  <2>1. \A j \in n - (k + 1) + 1 .. n : s[j] \in DOMAIN v
      BY <1>4, <1>5, <1>12 DEF x
  <2>2. \A y \in DOMAIN v : \E j \in n - (k + 1) + 1 .. n : s[j] = y
      BY <1>4, <1>5, <1>12 DEF x
  <2> QED BY <2>1, <2>2
<1>14. ASSUME NEW j \in n - (k + 1) + 1 .. n
       PROVE  /\ v[s[j]] = Reachable(s[j])
              /\ \A y \in Reachable(s[j]) : \E l \in 1 .. n : j < l /\ s[l] = y
  <2>1. s[j] \in DOMAIN v
      BY <1>13
  <2>2. CASE j = i
      BY <1>10, <1>11, <1>12, <2>1, <2>2 DEF x
  <2>3. CASE j # i
    <3>1. j \in n - k + 1 .. n /\ j \in 1 .. n
        BY <1>5, <2>3
    <3>2. s[j] # x
        BY <1>1, <1>5, <2>3, <3>1 DEF Distinct, x
    <3> QED BY <1>4, <1>12, <2>1, <3>1, <3>2
  <2> QED BY <2>2, <2>3
<1>15. Bridged(g, kept, k + 1, v)
    BY <1>13, <1>14 DEF Bridged, s, n, Reachable
<1> QED BY <1>15 DEF v, x, i, s, n

\* The shown ones that each operator leads to are those reached from it, all later.
LEMMA KeptSuccessorsAre ==
    ASSUME NEW g, Drawable(g), NEW kept \in SUBSET Names(g)
    PROVE  \A i \in 1 .. Len(g.nodes) : LET x == TopologicalOrder(g)[i] IN
               /\ KeptSuccessors(g, kept)[x] = Reach(g, kept, x)
               /\ \A y \in Reach(g, kept, x) : \E l \in 1 .. Len(g.nodes) : i < l /\ TopologicalOrder(g)[l] = y
<1> DEFINE s == TopologicalOrder(g)
           n == Len(g.nodes)
           c == [graph |-> g, kept |-> kept]
           t == Reverse(s)
           base == [x \in {} |-> {}]
<1>1. n \in Nat /\ Len(s) = n
    BY OrderIs, NamesAre DEF Follows
<1>2. DOMAIN t = 1 .. n /\ \A k \in 1 .. n : t[k] = s[(n - k) + 1]
    BY <1>1 DEF Reverse
<1>3. KeptSuccessors(g, kept) = Memos!Folded(c, base, t)
    BY MemoFolded
<1>4. c.graph = g /\ c.kept = kept
    OBVIOUS
<1> HIDE DEF n, t, c, base
<1>5. PICK r : Memos!Runs(r, c, base, n, t) /\ Memos!Folded(c, base, t) = r[n]
    BY <1>1, <1>2, Memos!FoldRuns
<1>6. r[0] = base /\ \A k \in 1 .. n : r[k] = Bridge(g, kept, r[k - 1], t[k])
    BY <1>4, <1>5 DEF Memos!Runs, BridgeOne
<1> HIDE DEF s
<1>7. Bridged(g, kept, n, r[n])
  <2> DEFINE Done == {k \in Nat : k <= n => Bridged(g, kept, k, r[k])}
  <2>1. 0 \in Done
    <3>1. n - 0 + 1 .. n = {}
        BY <1>1
    <3>2. DOMAIN base = {}
        BY DEF base
    <3>3. Bridged(g, kept, 0, base)
        BY <3>1, <3>2 DEF Bridged, n
    <3> QED BY <1>6, <3>3
  <2>2. ASSUME NEW k \in Nat, k \in Done PROVE k + 1 \in Done
    <3> SUFFICES ASSUME k + 1 <= n PROVE Bridged(g, kept, k + 1, r[k + 1])
        OBVIOUS
    <3>1. k + 1 \in 1 .. n /\ (k + 1) - 1 = k /\ k <= n /\ k < n /\ (n - (k + 1)) + 1 = n - k
        BY <1>1
    <3>2. r[k + 1] = Bridge(g, kept, r[k], s[n - k])
        BY <1>2, <1>6, <3>1
    <3>3. Bridged(g, kept, k, r[k])
        BY <2>2, <3>1
    <3>4. Bridged(g, kept, k + 1, Bridge(g, kept, r[k], s[n - k]))
        BY <3>1, <3>3, BridgeStep DEF s, n
    <3> QED BY <3>2, <3>4
  <2> HIDE DEF Done
  <2>3. n \in Done
      BY <1>1, <2>1, <2>2, NatSetInduction
  <2> QED BY <1>1, <2>3 DEF Done
<1>8. n - n + 1 = 1
    BY <1>1
<1>9. \A i \in 1 .. n : /\ r[n][s[i]] = Reach(g, kept, s[i])
                        /\ \A y \in Reach(g, kept, s[i]) : \E l \in 1 .. n : i < l /\ s[l] = y
    BY <1>7, <1>8 DEF Bridged, s, n
<1> QED BY <1>3, <1>5, <1>9 DEF s, n

\* The edges of the view: which they are, and that they go forward.
LEMMA EdgesAre ==
    ASSUME NEW g, Drawable(g), NEW s, Keeps(g, s)
    PROVE  LET shown == ToSet(s)
               edges == Edges(g, shown)
           IN  /\ edges = {e \in shown \X shown : e[2] \in Reach(g, shown, e[1])}
               /\ \A e \in edges : \E k, l \in 1 .. Len(s) : e[1] = s[k] /\ e[2] = s[l] /\ k < l
<1> DEFINE shown == ToSet(s)
           edges == Edges(g, shown)
           o == TopologicalOrder(g)
           n == Len(g.nodes)
           m == Len(s)
<1>1. /\ s \in Seq(Names(g)) /\ m \in Nat
      /\ \A k, l \in 1 .. m : \A i, j \in 1 .. n : s[k] = o[i] /\ s[l] = o[j] /\ i < j => k < l
    BY DEF Keeps
<1>2. shown = {s[k] : k \in 1 .. m} /\ shown \in SUBSET Names(g)
    BY <1>1, Listed
<1>3. Names(g) = {o[i] : i \in 1 .. n}
    BY OrderIs DEF Follows, ToSet, Distinct
<1> HIDE DEF shown, m
<1>4. \A i \in 1 .. n : LET x == o[i] IN
          /\ KeptSuccessors(g, shown)[x] = Reach(g, shown, x)
          /\ \A y \in Reach(g, shown, x) : \E l \in 1 .. n : i < l /\ o[l] = y
    BY <1>2, KeptSuccessorsAre
<1> HIDE DEF o, n
<1>5. \A x \in shown : KeptSuccessors(g, shown)[x] = Reach(g, shown, x)
    BY <1>2, <1>3, <1>4
<1>6. edges = {e \in shown \X shown : e[2] \in Reach(g, shown, e[1])}
    BY <1>5 DEF Edges
<1> HIDE DEF edges
<1>7. ASSUME NEW e \in edges PROVE \E k, l \in 1 .. m : e[1] = s[k] /\ e[2] = s[l] /\ k < l
  <2>1. e[1] \in shown /\ e[2] \in shown /\ e[2] \in Reach(g, shown, e[1])
      BY <1>6
  <2>2. PICK i \in 1 .. n : e[1] = o[i]
      BY <1>2, <1>3, <2>1
  <2>3. PICK j \in 1 .. n : i < j /\ o[j] = e[2]
      BY <1>4, <2>1, <2>2
  <2>4. PICK k \in 1 .. m : e[1] = s[k]
      BY <1>2, <2>1
  <2>5. PICK l \in 1 .. m : e[2] = s[l]
      BY <1>2, <2>1
  <2> QED BY <1>1, <2>2, <2>3, <2>4, <2>5
<1> QED BY <1>6, <1>7 DEF edges, shown, m
-----------------------------------------------------------------------------
(* Depths and places.                                                       *)

PlaceOne(edges, depth, n) == Place(edges, depth, n)

Placing == INSTANCE Folding WITH Op <- PlaceOne, Good <- Whatever

\* What is known once the first k operators have their depth.
Placed(edges, s, k, u) ==
    /\ DOMAIN u = {s[j] : j \in 1 .. k} /\ \A x \in DOMAIN u : u[x] \in Nat
    /\ \A e \in edges : e[2] \in DOMAIN u => e[1] \in DOMAIN u /\ u[e[1]] < u[e[2]]

Forward(edges, s, n) ==
    \A e \in edges : \E k, l \in 1 .. n : e[1] = s[k] /\ e[2] = s[l] /\ k < l

LEMMA PlaceStep ==
    ASSUME NEW n \in Nat, NEW s, Distinct(s, n), NEW edges, Forward(edges, s, n),
           NEW k \in Nat, k < n, NEW u, Placed(edges, s, k, u)
    PROVE  Placed(edges, s, k + 1, Place(edges, u, s[k + 1]))
<1> DEFINE x == s[k + 1]
           into == {e \in edges : e[2] = x}
           before == {u[e[1]] : e \in into}
           value == IF before = {} THEN 0 ELSE 1 + Max(before)
           v == Place(edges, u, x)
<1>1. v = Overlaid(u, [z \in {x} |-> value])
    BY DEF Place
<1>2. /\ DOMAIN u = {s[j] : j \in 1 .. k} /\ \A y \in DOMAIN u : u[y] \in Nat
      /\ \A e \in edges : e[2] \in DOMAIN u => e[1] \in DOMAIN u /\ u[e[1]] < u[e[2]]
    BY DEF Placed
<1>3. /\ k + 1 \in 1 .. n /\ \A j \in 1 .. k : j \in 1 .. n /\ j # k + 1
      /\ \A j \in 1 .. k + 1 : j = k + 1 \/ j \in 1 .. k
      /\ \A j \in 1 .. k : j \in 1 .. k + 1
      /\ k + 1 \in 1 .. k + 1
    OBVIOUS
<1>4. x \notin DOMAIN u
    BY <1>2, <1>3 DEF Distinct
<1>5. \A e \in into : e[1] \in DOMAIN u
  <2> SUFFICES ASSUME NEW e \in edges, e[2] = x PROVE e[1] \in DOMAIN u
      OBVIOUS
  <2>1. PICK i, j \in 1 .. n : e[1] = s[i] /\ e[2] = s[j] /\ i < j
      BY DEF Forward
  <2>2. j = k + 1
      BY <1>3, <2>1 DEF Distinct
  <2>3. i \in 1 .. k
      BY <2>1, <2>2
  <2> QED BY <1>2, <2>1, <2>3
<1> HIDE DEF v, value, x
<1>6. value \in Nat /\ \A e \in into : u[e[1]] < value
  <2>1. before \in SUBSET Nat
      BY <1>2, <1>5
  <2>2. IsFiniteSet(before)
    <3>1. IsFiniteSet(1 .. k)
        BY PlacesAre
    <3>2. IsFiniteSet(DOMAIN u)
        BY <1>2, <3>1, FiniteImage
    <3>3. IsFiniteSet({u[y] : y \in DOMAIN u})
        BY <3>2, FiniteImage
    <3>4. before \subseteq {u[y] : y \in DOMAIN u}
        BY <1>5
    <3> HIDE DEF before
    <3> QED BY <3>3, <3>4, FS_Subset
  <2>3. \A e \in into : u[e[1]] \in before
      OBVIOUS
  <2> HIDE DEF before, into
  <2>4. CASE before = {}
      BY <2>3, <2>4 DEF value
  <2>5. CASE before # {}
    <3>1. Max(before) \in before /\ \A y \in before : y <= Max(before)
        BY <2>1, <2>2, <2>5, MaxIs
    <3>2. value = 1 + Max(before) /\ Max(before) \in Nat
        BY <2>1, <2>5, <3>1 DEF value
    <3>3. \A y \in before : y < value
        BY <2>1, <3>1, <3>2
    <3> QED BY <2>3, <3>2, <3>3
  <2> QED BY <2>4, <2>5
<1>7. /\ DOMAIN v = DOMAIN u \cup {x} /\ v[x] = value
      /\ \A y \in DOMAIN u : v[y] = u[y]
    BY <1>1, <1>4 DEF Overlaid
<1>8. DOMAIN v = {s[j] : j \in 1 .. k + 1}
  <2>1. \A j \in 1 .. k + 1 : s[j] \in DOMAIN v
      BY <1>2, <1>3, <1>7 DEF x
  <2>2. \A y \in DOMAIN v : \E j \in 1 .. k + 1 : s[j] = y
      BY <1>2, <1>3, <1>7 DEF x
  <2> QED BY <2>1, <2>2
<1>9. \A y \in DOMAIN v : v[y] \in Nat
    BY <1>2, <1>6, <1>7
<1>10. ASSUME NEW e \in edges, e[2] \in DOMAIN v PROVE e[1] \in DOMAIN v /\ v[e[1]] < v[e[2]]
  <2>1. CASE e[2] = x
    <3>1. e \in into /\ e[1] \in DOMAIN u
        BY <1>5, <2>1
    <3> QED BY <1>6, <1>7, <2>1, <3>1
  <2>2. CASE e[2] # x
    <3>1. e[2] \in DOMAIN u /\ e[1] \in DOMAIN u /\ u[e[1]] < u[e[2]]
        BY <1>2, <1>7, <1>10, <2>2
    <3> QED BY <1>7, <3>1
  <2> QED BY <2>1, <2>2
<1>11. Placed(edges, s, k + 1, v)
    BY <1>8, <1>9, <1>10 DEF Placed
<1> QED BY <1>11 DEF v, x

LEMMA DepthsAre ==
    ASSUME NEW n \in Nat, NEW s, Distinct(s, n), NEW edges, Forward(edges, s, n)
    PROVE  /\ \A x \in ToSet(s) : Depths(s, edges)[x] \in Nat
           /\ \A e \in edges : Depths(s, edges)[e[1]] < Depths(s, edges)[e[2]]
<1> DEFINE base == [x \in {} |-> 0]
<1>1. Depths(s, edges) = Placing!Folded(edges, base, s)
    BY DEF Depths, Placing!Folded, FoldLeft, MapThenFoldSet, PlaceOne, Max,
           Placing!FoldLeft, Placing!MapThenFoldSet, Placing!Max
<1>2. DOMAIN s = 1 .. n
    BY DEF Distinct
<1>3. PICK r : Placing!Runs(r, edges, base, n, s) /\ Placing!Folded(edges, base, s) = r[n]
  <2> HIDE DEF base
  <2> QED BY <1>2, Placing!FoldRuns
<1>4. r[0] = base /\ \A k \in 1 .. n : r[k] = Place(edges, r[k - 1], s[k])
    BY <1>3 DEF Placing!Runs, PlaceOne
<1>5. Placed(edges, s, n, r[n])
  <2> DEFINE Done == {k \in Nat : k <= n => Placed(edges, s, k, r[k])}
  <2>1. 0 \in Done
    <3>1. Placed(edges, s, 0, base)
        BY DEF Placed
    <3> QED BY <1>4, <3>1
  <2>2. ASSUME NEW k \in Nat, k \in Done PROVE k + 1 \in Done
    <3> SUFFICES ASSUME k + 1 <= n PROVE Placed(edges, s, k + 1, r[k + 1])
        OBVIOUS
    <3>1. k + 1 \in 1 .. n /\ (k + 1) - 1 = k /\ k <= n /\ k < n
        OBVIOUS
    <3>2. r[k + 1] = Place(edges, r[k], s[k + 1])
        BY <1>4, <3>1
    <3>3. Placed(edges, s, k, r[k])
        BY <2>2, <3>1
    <3>4. Placed(edges, s, k + 1, Place(edges, r[k], s[k + 1]))
        BY <3>1, <3>3, PlaceStep
    <3> QED BY <3>2, <3>4
  <2> HIDE DEF Done
  <2>3. n \in Done
      BY <2>1, <2>2, NatSetInduction
  <2> QED BY <2>3 DEF Done
<1>6. DOMAIN r[n] = ToSet(s)
    BY <1>2, <1>5 DEF Placed, ToSet
<1>7. \A e \in edges : e[2] \in ToSet(s)
    BY <1>2 DEF Forward, ToSet
<1>8. /\ \A x \in ToSet(s) : r[n][x] \in Nat
      /\ \A e \in edges : r[n][e[1]] < r[n][e[2]]
    BY <1>5, <1>6, <1>7 DEF Placed
<1> QED BY <1>1, <1>3, <1>8

\* Row and column tell the places of a grid apart.
LEMMA GridIs ==
    ASSUME NEW i \in Nat, NEW j \in Nat, NEW c \in Nat \ {0}, i % c = j % c, i \div c = j \div c
    PROVE  i = j
<1>1. i = c * (i \div c) + (i % c)
    OBVIOUS
<1>2. j = c * (j \div c) + (j % c)
    OBVIOUS
<1> QED BY <1>1, <1>2

LEMMA ColumnsAre ==
    ASSUME NEW k \in Nat \ {0}
    PROVE  Columns(k) \in Nat \ {0}
<1> DEFINE C == {c \in 1 .. k : c * c >= k}
<1>1. C \in SUBSET Nat /\ \A c \in C : c # 0
    OBVIOUS
<1>2. k \in C
    OBVIOUS
<1> HIDE DEF C
<1>3. Min(C) \in C
    BY <1>1, <1>2, MinIs
<1> QED BY <1>1, <1>3 DEF Columns, C

\* Where a list has a member.
LEMMA FoundAt ==
    ASSUME NEW m \in Nat, NEW t, DOMAIN t = 1 .. m, Len(t) = m, NEW x \in ToSet(t)
    PROVE  LET i == SelectInSeq(t, LAMBDA y : y = x) IN i \in 1 .. m /\ t[i] = x
<1> DEFINE I == {i \in 1 .. m : t[i] = x}
<1>1. SelectInSeq(t, LAMBDA y : y = x) = IF I # {} THEN Min(I) ELSE 0
    BY DEF SelectInSeq
<1>2. I # {} /\ I \in SUBSET Nat
    BY DEF ToSet
<1>3. Min(I) \in I
  <2> HIDE DEF I
  <2> QED BY <1>2, MinIs
<1> QED BY <1>1, <1>2, <1>3

\* The spots of one level, each other than the rest.
Spot(k, i, d) ==
    LET Spread(j, l) == 2 * j - (l - 1)
        Rows(l, c) == (l + c - 1) \div c
    IN  IF k <= GridThreshold
        THEN [depth |-> d, col |-> Spread(i, k), z |-> 0]
        ELSE [depth |-> d, col |-> Spread(i % Columns(k), Columns(k)),
              z |-> Spread(i \div Columns(k), Rows(k, Columns(k)))]

LEMMA SpotsApart ==
    ASSUME NEW k \in Nat \ {0}, NEW i \in Nat, NEW j \in Nat, NEW d, Spot(k, i, d) = Spot(k, j, d)
    PROVE  i = j
<1>1. CASE k <= GridThreshold
  <2>1. 2 * i - (k - 1) = 2 * j - (k - 1)
      BY <1>1 DEF Spot
  <2> QED BY <2>1
<1>2. CASE ~(k <= GridThreshold)
  <2> DEFINE c == Columns(k)
             rows == (k + c - 1) \div c
  <2>1. c \in Nat \ {0}
      BY ColumnsAre
  <2> HIDE DEF c
  <2> DEFINE p == i % c
             q == j % c
             a == i \div c
             b == j \div c
  <2>2. /\ 2 * p - (c - 1) = 2 * q - (c - 1)
        /\ 2 * a - (rows - 1) = 2 * b - (rows - 1)
      BY <1>2 DEF Spot, c
  <2>3. p \in Nat /\ q \in Nat /\ a \in Nat /\ b \in Nat /\ rows \in Int
      BY <2>1
  <2>4. p = q /\ a = b
    <3> HIDE DEF p, q, a, b, rows
    <3> QED BY <2>1, <2>2, <2>3
  <2> QED BY <2>1, <2>4, GridIs
<1> QED BY <1>1, <1>2

LEMMA LayoutIs ==
    ASSUME NEW n \in Nat, NEW s, Distinct(s, n), NEW depth
    PROVE  LET place == Layout(s, depth) IN
               /\ \A x \in ToSet(s) : place[x].depth = depth[x]
               /\ \A a, b \in ToSet(s) : place[a] = place[b] => a = b
<1> DEFINE Level(d) == MembersAt(s, {k \in DOMAIN s : depth[s[k]] = d})
           Rank(x) == SelectInSeq(Level(depth[x]), LAMBDA m : m = x) - 1
           At(x) == Spot(Len(Level(depth[x])), Rank(x), depth[x])
           place == Layout(s, depth)
<1>1. \A x \in ToSet(s) : place[x] = At(x)
    BY DEF Layout, Spot
<1>2. \A x \in ToSet(s) : /\ Len(Level(depth[x])) \in Nat \ {0}
                          /\ DOMAIN Level(depth[x]) = 1 .. Len(Level(depth[x]))
                          /\ x \in ToSet(Level(depth[x]))
  <2> SUFFICES ASSUME NEW x \in ToSet(s)
               PROVE  /\ Len(Level(depth[x])) \in Nat \ {0}
                      /\ DOMAIN Level(depth[x]) = 1 .. Len(Level(depth[x]))
                      /\ x \in ToSet(Level(depth[x]))
      OBVIOUS
  <2> DEFINE S == {k \in DOMAIN s : depth[s[k]] = depth[x]}
             t == Level(depth[x])
             m == Cardinality(S)
  <2>1. S \in SUBSET (1 .. n) /\ x \in {s[k] : k \in S}
      BY DEF Distinct, ToSet
  <2> HIDE DEF S
  <2>2. Selected(MembersAt(s, S), m, s, n, S)
      BY <2>1, SelectedIs
  <2>3. t = MembersAt(s, S)
      BY DEF S
  <2> HIDE DEF t, m
  <2>4. m \in Nat /\ Len(t) = m /\ Distinct(t, m) /\ ToSet(t) = {s[k] : k \in S}
      BY <2>2, <2>3 DEF Selected
  <2>5. DOMAIN t = 1 .. m /\ x \in ToSet(t)
      BY <2>1, <2>4 DEF Distinct
  <2>6. m # 0
      BY <2>5 DEF ToSet
  <2> QED BY <2>4, <2>5, <2>6 DEF t
<1> HIDE DEF Level
<1>3. \A x \in ToSet(s) : Rank(x) \in Nat /\ Level(depth[x])[Rank(x) + 1] = x
  <2> SUFFICES ASSUME NEW x \in ToSet(s) PROVE Rank(x) \in Nat /\ Level(depth[x])[Rank(x) + 1] = x
      OBVIOUS
  <2> DEFINE t == Level(depth[x])
             i == SelectInSeq(t, LAMBDA m : m = x)
  <2>1. i \in 1 .. Len(t) /\ t[i] = x
    <3>1. Len(t) \in Nat /\ DOMAIN t = 1 .. Len(t) /\ x \in ToSet(t)
        BY <1>2
    <3> HIDE DEF t
    <3> QED BY <3>1, FoundAt
  <2> HIDE DEF i
  <2>2. i - 1 \in Nat /\ (i - 1) + 1 = i
      BY <2>1
  <2>3. Rank(x) = i - 1
      BY DEF i
  <2> HIDE DEF Rank
  <2> QED BY <2>1, <2>2, <2>3
<1> HIDE DEF Rank
<1>4. \A k, i, d : Spot(k, i, d).depth = d
    BY DEF Spot
<1>5. \A x \in ToSet(s) : place[x].depth = depth[x]
    BY <1>1, <1>4
<1> HIDE DEF place
<1>6. ASSUME NEW a \in ToSet(s), NEW b \in ToSet(s), place[a] = place[b] PROVE a = b
  <2> DEFINE d == depth[a]
             k == Len(Level(d))
  <2>1. depth[b] = d
      BY <1>5, <1>6
  <2>2. Spot(k, Rank(a), d) = Spot(k, Rank(b), d)
      BY <1>1, <1>6, <2>1
  <2>3. k \in Nat \ {0} /\ Rank(a) \in Nat /\ Rank(b) \in Nat
      BY <1>2, <1>3
  <2> HIDE DEF k
  <2>4. Rank(a) = Rank(b)
      BY <2>2, <2>3, SpotsApart
  <2> QED BY <1>3, <2>1, <2>4
<1> QED BY <1>5, <1>6 DEF place
-----------------------------------------------------------------------------
(* The view.                                                                *)

Drawn(g, v) ==
    LET s == KeptOrder(g)
        edges == Edges(g, ToSet(s))
    IN  /\ v.graph = g /\ v.shown = ToSet(s) /\ v.edges = edges
        /\ v.place = Layout(s, Depths(s, edges))

ViewInv == viewed = NothingViewed \/ \E g : Drawn(g, viewed)

LEMMA ViewDraws ==
    ASSUME View
    PROVE  \E g : Drawn(g, viewed')
<1>1. PICK g \in Shapes :
          \E order \in {KeptOrder(g)} : \E edges \in {Edges(g, ToSet(order))} :
          \E depth \in {Depths(order, edges)} :
              viewed' = [graph |-> g, shown |-> ToSet(order), edges |-> edges,
                         place |-> Layout(order, depth)]
    BY DEF View
<1> DEFINE s == KeptOrder(g)
           edges == Edges(g, ToSet(s))
           depth == Depths(s, edges)
<1>2. viewed' = [graph |-> g, shown |-> ToSet(s), edges |-> edges, place |-> Layout(s, depth)]
    BY <1>1
<1>3. Drawn(g, viewed')
    BY <1>2 DEF Drawn
<1> QED BY <1>3

LEMMA DrawnFaithful ==
    ASSUME NEW g, Drawn(g, viewed), Drawable(g)
    PROVE  ViewFaithful
<1> DEFINE s == KeptOrder(g)
           shown == ToSet(s)
           edges == Edges(g, shown)
           depth == Depths(s, edges)
           m == Len(s)
<1>1. viewed.graph = g /\ viewed.shown = shown /\ viewed.edges = edges /\ viewed.place = Layout(s, depth)
    BY DEF Drawn
<1>2. Keeps(g, s)
    BY KeptIs
<1> HIDE DEF s
<1>3. s \in Seq(Names(g)) /\ m \in Nat \ {0} /\ Distinct(s, m)
    BY <1>2 DEF Keeps
<1>4. shown # {} /\ shown \in SUBSET Names(g)
  <2>1. shown = {s[k] : k \in 1 .. m} /\ 1 \in 1 .. m
      BY <1>3, Listed
  <2> HIDE DEF shown, m
  <2>2. \A k \in 1 .. m : s[k] \in Names(g)
      BY <1>3 DEF m
  <2> QED BY <2>1, <2>2
<1>5. /\ edges = {e \in shown \X shown : e[2] \in Reach(g, shown, e[1])}
      /\ Forward(edges, s, m)
    BY <1>2, EdgesAre DEF Forward
<1> HIDE DEF edges, m, shown
<1>6. /\ \A x \in shown : depth[x] \in Nat
      /\ \A e \in edges : depth[e[1]] < depth[e[2]]
    BY <1>3, <1>5, DepthsAre DEF shown
<1> HIDE DEF depth
<1>7. /\ \A x \in shown : viewed.place[x].depth = depth[x]
      /\ \A a, b \in shown : viewed.place[a] = viewed.place[b] => a = b
    BY <1>1, <1>3, LayoutIs DEF shown
<1>8. \A e \in edges : e[1] \in shown /\ e[2] \in shown
    BY <1>5
<1>9. \A e \in viewed.edges : viewed.place[e[1]].depth < viewed.place[e[2]].depth
    BY <1>1, <1>6, <1>7, <1>8
<1>10. viewed.edges = {e \in viewed.shown \X viewed.shown :
                          \E D \in SUBSET Dropped(g, viewed.shown) :
                              Path(g, <<e[1]>> \o MembersAt(NameList(g), D) \o <<e[2]>>)}
  <2>1. \A a, e \in shown : e \in Reach(g, shown, a) <=>
            \E D \in SUBSET Dropped(g, shown) : Path(g, <<a>> \o MembersAt(NameList(g), D) \o <<e>>)
      BY DEF Reach, Reached
  <2> QED BY <1>1, <1>5, <2>1
<1> QED BY <1>1, <1>4, <1>7, <1>9, <1>10 DEF ViewFaithful

\* The view of a graph that runs and tells its operators apart shows the graph's own
\* flow, deeper along every edge, and no two operators at one place.
THEOREM ViewAlwaysFaithful == ViewSpec => [](Drawable(viewed.graph) => ViewFaithful)
<1>1. ViewInit => ViewInv
    BY DEF ViewInit, ViewInv
<1>2. ViewInv /\ [View]_viewed => ViewInv'
  <2>1. ASSUME View PROVE ViewInv'
      BY <2>1, ViewDraws DEF ViewInv
  <2>2. ASSUME ViewInv, UNCHANGED viewed PROVE ViewInv'
      BY <2>2 DEF ViewInv
  <2> QED BY <2>1, <2>2
<1>3. ViewInv => (Drawable(viewed.graph) => ViewFaithful)
  <2> SUFFICES ASSUME ViewInv, Drawable(viewed.graph) PROVE ViewFaithful
      OBVIOUS
  <2>1. CASE viewed = NothingViewed
      BY <2>1 DEF ViewFaithful
  <2>2. ASSUME NEW g, Drawn(g, viewed) PROVE ViewFaithful
      BY <2>2, DrawnFaithful DEF Drawn
  <2> QED BY <2>1, <2>2 DEF ViewInv
<1> QED BY <1>1, <1>2, <1>3, PTL DEF ViewSpec
-----------------------------------------------------------------------------
(* The depths of the layers of a container.                                 *)

\* Layers, each with a list of those it reads.
Linked(layers) ==
    /\ Len(layers) \in Nat /\ DOMAIN layers = 1 .. Len(layers)
    /\ \A i \in DOMAIN layers : /\ Len(layers[i].inputs) \in Nat
                                /\ DOMAIN layers[i].inputs = 1 .. Len(layers[i].inputs)

KnownDepths(layers) == [DOMAIN layers -> Nat]

LEMMA ParentsAre ==
    ASSUME NEW layers, Linked(layers), NEW i \in DOMAIN layers
    PROVE  LET s == Parents(layers, i)
           IN  /\ \E m \in Nat : DOMAIN s = 1 .. m
               /\ ToSet(s) = {p \in ToSet(layers[i].inputs) : p \in Named(layers)}
               /\ \A k \in DOMAIN s : s[k] \in ToSet(s)
<1> DEFINE s == layers[i].inputs
           S == {k \in DOMAIN s : s[k] \in Named(layers)}
           t == MembersAt(s, S)
<1>1. S \in SUBSET Int /\ IsFiniteSet(S)
  <2>1. Len(s) \in Nat /\ S \in SUBSET (1 .. Len(s))
      BY DEF Linked
  <2> HIDE DEF S, s
  <2> QED BY <2>1, PlacesFinite
<1>2. ToSet(t) = {s[k] : k \in S}
    BY <1>1, MembersIs
<1>3. Cardinality(S) \in Nat /\ DOMAIN t = 1 .. Cardinality(S)
    BY <1>1, FS_CardinalityType DEF MembersAt
<1>4. {s[k] : k \in S} = {p \in ToSet(s) : p \in Named(layers)}
    BY DEF ToSet
<1>5. \A k \in DOMAIN t : t[k] \in ToSet(t)
    BY DEF ToSet
<1>6. Parents(layers, i) = t
    BY DEF Parents
<1> HIDE DEF t, S, s
<1> QED BY <1>2, <1>3, <1>4, <1>5, <1>6 DEF s

LEMMA LayerAtIs ==
    ASSUME NEW layers, Linked(layers), NEW p \in Named(layers)
    PROVE  LayerAt(layers, p) \in DOMAIN layers /\ layers[LayerAt(layers, p)].name = p
<1> DEFINE S == {i \in DOMAIN layers : layers[i].name = p}
<1>1. S # {} /\ S \in SUBSET (1 .. Len(layers)) /\ Len(layers) \in Nat
    BY DEF Named, Linked
<1>2. S \in SUBSET Int /\ IsFiniteSet(S)
    BY <1>1, PlacesFinite
<1>3. Max(S) \in S
    BY <1>1, <1>2, MaxIs
<1> QED BY <1>3 DEF LayerAt

\* A step of the loop over the layers one reads, and of the loop over all layers.
VisitParent(c, u, p) == Descend(c.resolve, c.path, u, LayerAt(c.layers, p))
VisitLayer(c, u, i) == Descend(c.resolve, {}, u, i)
Anything(c, u) == TRUE

Visits == INSTANCE Folding WITH Op <- VisitParent, Good <- Anything
Rounds == INSTANCE Folding WITH Op <- VisitLayer, Good <- Anything

Along(layers, resolve, path) == [layers |-> layers, resolve |-> resolve, path |-> path]

After(layers, resolve, call) ==
    Visits!Folded(Along(layers, resolve, call.path \cup {call.layer}), call.memo,
                  Parents(layers, call.layer))

Answered(call) == call.memo[call.layer] # 0 \/ call.layer \in call.path

\* The depths of the layers one reads.
Above(layers, memo, i) == {memo[LayerAt(layers, p)] : p \in ToSet(Parents(layers, i))}

LEMMA ResolvedIs ==
    ASSUME NEW layers, NEW resolve, NEW call
    PROVE  Resolved(layers, resolve, call) =
               IF Answered(call) THEN call.memo
               ELSE [After(layers, resolve, call) EXCEPT ![call.layer] =
                        1 + Max({0} \cup Above(layers, After(layers, resolve, call), call.layer))]
<1> DEFINE path == call.path \cup {call.layer}
           s == Parents(layers, call.layer)
           c == Along(layers, resolve, path)
<1>1. c.layers = layers /\ c.resolve = resolve /\ c.path = path
    BY DEF Along
<1>2. FoldLeft(LAMBDA memo, p : Descend(resolve, path, memo, LayerAt(layers, p)), call.memo, s)
      = Visits!Folded(c, call.memo, s)
  <2> HIDE DEF c, s, path
  <2> QED BY <1>1 DEF Visits!Folded, FoldLeft, MapThenFoldSet, VisitParent, Max,
             Visits!FoldLeft, Visits!MapThenFoldSet, Visits!Max
<1> QED BY <1>2 DEF Resolved, After, Answered, Above

\* resolve does its work: what it is to return for these calls, on a memo again.
Solves(layers, resolve, calls) ==
    /\ resolve = [call \in calls |-> resolve[call]]
    /\ \A call \in calls : /\ resolve[call] = Resolved(layers, resolve, call)
                           /\ resolve[call] \in KnownDepths(layers)

LEMMA CallIs ==
    ASSUME NEW layers, NEW call \in Calls(layers)
    PROVE  /\ call.layer \in DOMAIN layers /\ call.path \in SUBSET DOMAIN layers
           /\ call.memo \in KnownDepths(layers)
BY DEF Calls, KnownDepths

LEMMA SubcallIs ==
    ASSUME NEW layers, NEW i \in DOMAIN layers, NEW path \in SUBSET DOMAIN layers,
           NEW memo \in KnownDepths(layers)
    PROVE  LET c == [layer |-> i, path |-> path, memo |-> memo]
           IN  c \in Calls(layers) /\ c.layer = i /\ c.path = path /\ c.memo = memo
BY DEF Calls, KnownDepths

\* The depth of a layer follows from finitely many.
LEMMA DeeperIs ==
    ASSUME NEW layers, Linked(layers), NEW i \in DOMAIN layers, NEW memo \in KnownDepths(layers)
    PROVE  LET d == 1 + Max({0} \cup Above(layers, memo, i))
           IN  d \in Nat \ {0} /\ \A x \in Above(layers, memo, i) : x < d
<1> DEFINE s == Parents(layers, i)
           f == [k \in DOMAIN s |-> memo[LayerAt(layers, s[k])]]
           T == {0} \cup {f[k] : k \in DOMAIN s}
<1>1. PICK m \in Nat : DOMAIN s = 1 .. m
    BY ParentsAre
<1>2. ToSet(s) = {p \in ToSet(layers[i].inputs) : p \in Named(layers)}
    BY ParentsAre
<1>3. \A p \in ToSet(s) : LayerAt(layers, p) \in DOMAIN layers
    BY <1>2, LayerAtIs
<1>4. \A k \in DOMAIN s : f[k] \in Nat
    BY <1>3 DEF ToSet, KnownDepths
<1>5. {f[k] : k \in DOMAIN s} = Above(layers, memo, i)
    BY DEF Above, ToSet
<1> HIDE DEF f
<1>6. T \subseteq Nat
    BY <1>4
<1>7. IsFiniteSet({f[k] : k \in DOMAIN s})
  <2>1. IsFiniteSet(DOMAIN s)
      BY <1>1, FS_Interval
  <2> QED BY <2>1, FiniteImage
<1>8. IsFiniteSet(T)
    BY <1>7, FS_AddElement
<1>9. Max(T) \in T /\ \A x \in T : x <= Max(T)
  <2>1. T \in SUBSET Int /\ T # {}
      BY <1>6
  <2> HIDE DEF T
  <2> QED BY <1>8, <2>1, MaxIs
<1>10. T = {0} \cup Above(layers, memo, i)
    BY <1>5
<1>11. Max(T) \in T /\ \A x \in T : x \in Nat /\ x <= Max(T)
    BY <1>6, <1>9
<1>12. 1 + Max(T) \in Nat \ {0} /\ \A x \in T : x < 1 + Max(T)
  <2> DEFINE n == Max(T)
  <2>1. n \in T /\ \A x \in T : x \in Nat /\ x <= n
      BY <1>11
  <2> HIDE DEF n, T
  <2>2. 1 + n \in Nat \ {0} /\ \A x \in T : x < 1 + n
      BY <2>1
  <2> QED BY <2>2 DEF n
<1> HIDE DEF T
<1> QED BY <1>10, <1>12

\* What is left behind depends on what resolve does one step down.
LEMMA SameAnswers ==
    ASSUME NEW layers, Linked(layers), NEW call \in Calls(layers), NEW g, NEW h,
           \A c \in Calls(layers) : c.path = call.path \cup {call.layer} =>
               g[c] = h[c] /\ g[c] \in KnownDepths(layers)
    PROVE  /\ After(layers, g, call) = After(layers, h, call)
           /\ After(layers, g, call) \in KnownDepths(layers)
<1> DEFINE path == call.path \cup {call.layer}
           s == Parents(layers, call.layer)
           c == Along(layers, g, path)
           d == Along(layers, h, path)
           base == call.memo
<1>1. PICK m \in Nat : DOMAIN s = 1 .. m
    BY CallIs, ParentsAre
<1>2. \A k \in 1 .. m : LayerAt(layers, s[k]) \in DOMAIN layers
  <2>1. call.layer \in DOMAIN layers
      BY CallIs
  <2>2. \A k \in DOMAIN s : s[k] \in Named(layers)
      BY <2>1, ParentsAre
  <2> QED BY <1>1, <2>2, LayerAtIs
<1>3. path \in SUBSET DOMAIN layers /\ base \in KnownDepths(layers)
    BY CallIs
<1>4. /\ c.layers = layers /\ c.resolve = g /\ c.path = path
      /\ d.layers = layers /\ d.resolve = h /\ d.path = path
    BY DEF Along
<1>5. /\ After(layers, g, call) = Visits!Folded(c, base, s)
      /\ After(layers, h, call) = Visits!Folded(d, base, s)
    BY DEF After
<1>6. \A x \in Calls(layers) : x.path = path => g[x] = h[x] /\ g[x] \in KnownDepths(layers)
    OBVIOUS
<1> HIDE DEF c, d, s, base, path
<1>7. PICK p : Visits!Runs(p, c, base, m, s) /\ Visits!Folded(c, base, s) = p[m]
    BY <1>1, Visits!FoldRuns
<1>8. PICK q : Visits!Runs(q, d, base, m, s) /\ Visits!Folded(d, base, s) = q[m]
    BY <1>1, Visits!FoldRuns
<1> DEFINE Good == {k \in Nat : k <= m => p[k] = q[k] /\ p[k] \in KnownDepths(layers)}
<1>9. 0 \in Good
    BY <1>3, <1>7, <1>8 DEF Visits!Runs
<1>10. ASSUME NEW k \in Nat, k \in Good PROVE k + 1 \in Good
  <2>1. SUFFICES ASSUME k + 1 <= m PROVE p[k + 1] = q[k + 1] /\ p[k + 1] \in KnownDepths(layers)
      OBVIOUS
  <2>2. p[k] = q[k] /\ p[k] \in KnownDepths(layers) /\ k + 1 \in 1 .. m
      BY <1>10, <2>1
  <2> DEFINE i == LayerAt(layers, s[k + 1])
             x == [layer |-> i, path |-> path, memo |-> p[k]]
  <2>3. p[k + 1] = VisitParent(c, p[k], s[k + 1]) /\ q[k + 1] = VisitParent(d, q[k], s[k + 1])
      BY <1>7, <1>8, <2>2 DEF Visits!Runs
  <2>4. p[k + 1] = g[x] /\ q[k + 1] = h[x]
      BY <1>4, <2>2, <2>3 DEF VisitParent, Descend
  <2>5. x \in Calls(layers) /\ x.path = path
      BY <1>2, <1>3, <2>2, SubcallIs
  <2> QED BY <1>6, <2>4, <2>5
<1>11. \A k \in Nat : k \in Good
  <2> HIDE DEF Good
  <2> QED BY <1>9, <1>10, NatSetInduction
<1> QED BY <1>5, <1>7, <1>8, <1>11

LEMMA SameResult ==
    ASSUME NEW layers, Linked(layers), NEW call \in Calls(layers), NEW g, NEW h,
           ~Answered(call) => \A c \in Calls(layers) : c.path = call.path \cup {call.layer} =>
               g[c] = h[c] /\ g[c] \in KnownDepths(layers)
    PROVE  /\ Resolved(layers, g, call) = Resolved(layers, h, call)
           /\ Resolved(layers, g, call) \in KnownDepths(layers)
<1> DEFINE a == After(layers, g, call)
           d == 1 + Max({0} \cup Above(layers, a, call.layer))
<1>1. call.layer \in DOMAIN layers /\ call.memo \in KnownDepths(layers)
    BY CallIs
<1>2. CASE Answered(call)
    BY <1>1, <1>2, ResolvedIs
<1>3. CASE ~Answered(call)
  <2>1. After(layers, h, call) = a /\ a \in KnownDepths(layers)
      BY <1>3, SameAnswers
  <2>2. /\ Resolved(layers, g, call) = [a EXCEPT ![call.layer] = d]
        /\ Resolved(layers, h, call) = [a EXCEPT ![call.layer] = d]
      BY <1>3, <2>1, ResolvedIs
  <2> HIDE DEF a
  <2>3. d \in Nat
      BY <1>1, <2>1, DeeperIs
  <2> HIDE DEF d
  <2>4. [a EXCEPT ![call.layer] = d] \in KnownDepths(layers)
      BY <1>1, <2>1, <2>3 DEF KnownDepths
  <2> QED BY <2>2, <2>4
<1> QED BY <1>2, <1>3

\* The recursion resolve is defined by has a solution: with every call the path grows,
\* and from a layer on its own path there is no further one.
LEMMA ResolveExists ==
    ASSUME NEW layers, Linked(layers)
    PROVE  \E resolve : Solves(layers, resolve, Calls(layers))
<1> DEFINE C == Calls(layers)
           L == DOMAIN layers
           Left(call) == L \ call.path
           D(k) == {call \in C : Cardinality(Left(call)) <= k}
           Solved == {k \in Nat : \E g : Solves(layers, g, D(k))}
<1>1. IsFiniteSet(L)
    BY FS_Interval DEF Linked
<1>2. \A call \in C : /\ Left(call) \subseteq L /\ IsFiniteSet(Left(call))
                      /\ Cardinality(Left(call)) \in Nat
                      /\ Cardinality(Left(call)) <= Cardinality(L)
  <2> SUFFICES ASSUME NEW call \in C
               PROVE  /\ Left(call) \subseteq L /\ IsFiniteSet(Left(call))
                      /\ Cardinality(Left(call)) \in Nat
                      /\ Cardinality(Left(call)) <= Cardinality(L)
      OBVIOUS
  <2> DEFINE U == Left(call)
  <2>1. U \subseteq L
      OBVIOUS
  <2> HIDE DEF U
  <2>2. IsFiniteSet(U) /\ Cardinality(U) <= Cardinality(L)
      BY <1>1, <2>1, FS_Subset
  <2>3. Cardinality(U) \in Nat
      BY <2>2, FS_CardinalityType
  <2> QED BY <2>1, <2>2, <2>3 DEF U
<1>3. ASSUME NEW g, NEW k \in Nat, Solves(layers, g, D(k))
      PROVE  \E h : Solves(layers, h, D(k + 1))
  <2> DEFINE h == [call \in D(k + 1) |-> Resolved(layers, g, call)]
  <2>1. ASSUME NEW call \in D(k) PROVE call \in D(k + 1) /\ h[call] = g[call]
    <3>1. call \in C /\ Cardinality(Left(call)) \in Nat /\ Cardinality(Left(call)) <= k
        BY <1>2
    <3>2. call \in D(k + 1)
        BY <3>1
    <3>3. g[call] = Resolved(layers, g, call)
        BY <1>3 DEF Solves
    <3> QED BY <3>2, <3>3
  <2>2. ASSUME NEW call \in D(k + 1), ~Answered(call), NEW c \in C,
               c.path = call.path \cup {call.layer}
        PROVE  g[c] = h[c] /\ g[c] \in KnownDepths(layers)
    <3> DEFINE U == Left(call)
    <3>1. call \in C /\ IsFiniteSet(U) /\ Cardinality(U) \in Nat /\ Cardinality(U) <= k + 1
        BY <1>2
    <3>2. call.layer \in U /\ Left(c) = U \ {call.layer}
        BY <2>2, <3>1, CallIs DEF Answered
    <3> HIDE DEF U
    <3>3. Cardinality(U \ {call.layer}) = Cardinality(U) - 1
        BY <3>1, <3>2, FS_RemoveElement
    <3>4. Cardinality(Left(c)) <= k
      <4> DEFINE m == Cardinality(U)
                 n == Cardinality(U \ {call.layer})
      <4>1. m \in Nat /\ m <= k + 1 /\ n = m - 1 /\ Cardinality(Left(c)) = n
          BY <3>1, <3>2, <3>3
      <4> HIDE DEF m, n
      <4> QED BY <4>1
    <3>5. c \in D(k)
        BY <3>4
    <3>6. g[c] \in KnownDepths(layers)
        BY <1>3, <3>5 DEF Solves
    <3> QED BY <2>1, <3>5, <3>6
  <2>3. /\ h = [call \in D(k + 1) |-> h[call]]
        /\ \A call \in D(k + 1) : h[call] = Resolved(layers, g, call)
      OBVIOUS
  <2> HIDE DEF h
  <2>4. ASSUME NEW call \in D(k + 1)
        PROVE  h[call] = Resolved(layers, h, call) /\ h[call] \in KnownDepths(layers)
    <3>1. call \in Calls(layers)
        OBVIOUS
    <3>2. /\ Resolved(layers, g, call) = Resolved(layers, h, call)
          /\ Resolved(layers, g, call) \in KnownDepths(layers)
      <4>1. ~Answered(call) => \A c \in Calls(layers) : c.path = call.path \cup {call.layer} =>
                g[c] = h[c] /\ g[c] \in KnownDepths(layers)
          BY <2>2
      <4> HIDE DEF D
      <4> QED BY <3>1, <4>1, SameResult
    <3> QED BY <2>3, <3>2
  <2>5. Solves(layers, h, D(k + 1))
    <3> HIDE DEF D
    <3> QED BY <2>3, <2>4 DEF Solves
  <2> QED BY <2>5
<1>4. 0 \in Solved
  <2> DEFINE g == [call \in D(0) |-> call.memo]
  <2>1. g = [call \in D(0) |-> g[call]] /\ \A call \in D(0) : g[call] = call.memo
      OBVIOUS
  <2> HIDE DEF g
  <2>2. ASSUME NEW call \in D(0)
        PROVE  g[call] = Resolved(layers, g, call) /\ g[call] \in KnownDepths(layers)
    <3>1. call \in C /\ Left(call) = {}
        BY <1>2, FS_EmptySet
    <3>2. Answered(call) /\ call.memo \in KnownDepths(layers)
        BY <3>1, CallIs DEF Answered
    <3> QED BY <2>1, <3>2, ResolvedIs
  <2>3. Solves(layers, g, D(0))
    <3> HIDE DEF D
    <3> QED BY <2>1, <2>2 DEF Solves
  <2> QED BY <2>3
<1>5. \A k \in Nat : k \in Solved
  <2>1. ASSUME NEW k \in Nat, k \in Solved PROVE k + 1 \in Solved
    <3>1. PICK g : Solves(layers, g, D(k))
        BY <2>1
    <3>2. \E h : Solves(layers, h, D(k + 1))
      <4> HIDE DEF D
      <4> QED BY <1>3, <3>1
    <3> HIDE DEF D
    <3> QED BY <3>2
  <2> HIDE DEF Solved
  <2> QED BY <1>4, <2>1, NatSetInduction
<1>6. Cardinality(L) \in Nat
    BY <1>1, FS_CardinalityType
<1>7. D(Cardinality(L)) = C
    BY <1>2
<1>8. \E g : Solves(layers, g, D(Cardinality(L)))
    BY <1>5, <1>6
<1> HIDE DEF D, L
<1> QED BY <1>7, <1>8

\* Whatever solves it leaves depths behind, by the same recursion.
LEMMA SolutionTyped ==
    ASSUME NEW layers, Linked(layers), NEW r,
           \A call \in Calls(layers) : r[call] = Resolved(layers, r, call)
    PROVE  \A call \in Calls(layers) : r[call] \in KnownDepths(layers)
<1> DEFINE C == Calls(layers)
           L == DOMAIN layers
           D(T) == {call \in C : L \ call.path = T}
           Good == {T \in SUBSET L : \A call \in D(T) : r[call] \in KnownDepths(layers)}
<1>1. IsFiniteSet(L)
    BY FS_Interval DEF Linked
<1>2. ASSUME NEW T \in SUBSET L, \A U \in SUBSET T : U # T => U \in Good PROVE T \in Good
  <2>1. ASSUME NEW call \in D(T) PROVE r[call] \in KnownDepths(layers)
    <3>1. call \in C
        OBVIOUS
    <3>2. ASSUME ~Answered(call), NEW c \in C, c.path = call.path \cup {call.layer}
          PROVE  r[c] \in KnownDepths(layers)
      <4>1. call.layer \in T /\ c \in D(T \ {call.layer})
          BY <3>2, CallIs DEF Answered
      <4>2. T \ {call.layer} \in SUBSET T /\ T \ {call.layer} # T
          BY <4>1
      <4>3. T \ {call.layer} \in Good
          BY <1>2, <4>2
      <4> QED BY <4>1, <4>3
    <3>3. ~Answered(call) => \A c \in C : c.path = call.path \cup {call.layer} =>
              r[c] = r[c] /\ r[c] \in KnownDepths(layers)
        BY <3>2
    <3>4. Resolved(layers, r, call) \in KnownDepths(layers)
      <4> HIDE DEF D
      <4> QED BY <3>1, <3>3, SameResult
    <3> QED BY <3>1, <3>4
  <2> QED BY <2>1
<1>3. ASSUME NEW S \in SUBSET L PROVE S \in Good
  <2>1. IsFiniteSet(S)
      BY <1>1, FS_Subset
  <2>2. \A T \in SUBSET S : (\A U \in SUBSET T : U # T => U \in Good) => T \in Good
    <3> HIDE DEF Good, D
    <3> QED BY <1>2
  <2> HIDE DEF Good, D, L
  <2> QED BY <2>1, <2>2, SubsetInduction
<1>4. ASSUME NEW call \in C PROVE r[call] \in KnownDepths(layers)
  <2>1. L \ call.path \in Good
      BY <1>3
  <2> QED BY <2>1
<1> QED BY <1>4

\* The depths are what remains when resolve was called for one layer after the other.
LEMMA LayerDepthsAre ==
    ASSUME NEW layers, Linked(layers)
    PROVE  \E resolve : /\ Solves(layers, resolve, Calls(layers))
                        /\ TopoDepths(layers) =
                               Rounds!Folded(Along(layers, resolve, {}),
                                             [i \in DOMAIN layers |-> 0],
                                             [i \in DOMAIN layers |-> i])
<1> DEFINE C == Calls(layers)
           base == [i \in DOMAIN layers |-> 0]
           s == [i \in DOMAIN layers |-> i]
           r == CHOOSE f : f = [call \in C |-> Resolved(layers, f, call)]
<1>1. \E f : f = [call \in C |-> Resolved(layers, f, call)]
  <2>1. PICK f : Solves(layers, f, C)
      BY ResolveExists
  <2>2. f = [call \in C |-> f[call]] /\ \A call \in C : f[call] = Resolved(layers, f, call)
      BY <2>1 DEF Solves
  <2>3. [call \in C |-> f[call]] = [call \in C |-> Resolved(layers, f, call)]
      BY <2>2
  <2>4. f = [call \in C |-> Resolved(layers, f, call)]
      BY <2>2, <2>3, Zenon
  <2> QED BY <2>4
<1>2. r = [call \in C |-> Resolved(layers, r, call)]
    BY <1>1, Zenon
<1>3. TopoDepths(layers) = FoldLeft(LAMBDA memo, i : Descend(r, {}, memo, i), base, s)
    BY DEF TopoDepths
<1> HIDE DEF r
<1> DEFINE c == Along(layers, r, {})
<1>4. c.resolve = r
    BY DEF Along
<1>5. FoldLeft(LAMBDA memo, i : Descend(r, {}, memo, i), base, s) = Rounds!Folded(c, base, s)
  <2> HIDE DEF c, base, s
  <2> QED BY <1>4 DEF Rounds!Folded, FoldLeft, MapThenFoldSet, VisitLayer, Max,
             Rounds!FoldLeft, Rounds!MapThenFoldSet, Rounds!Max
<1>6. \A call \in C : r[call] = Resolved(layers, r, call)
    BY <1>2
<1>7. r = [call \in C |-> r[call]]
    BY <1>2, <1>6
<1>8. Solves(layers, r, C)
    BY <1>6, <1>7, SolutionTyped DEF Solves
<1> QED BY <1>3, <1>5, <1>8

\* The layers that one is drawn behind.
Reads(layers, i) == {j \in DOMAIN layers : <<j, i>> \in Inner(layers)}

Apart(layers) ==
    \A i, j \in DOMAIN layers : layers[i].name = layers[j].name => i = j

\* Ranks: each layer above those it reads, as there are when nothing is cyclic.
Ranks(layers, rank) ==
    /\ rank \in [DOMAIN layers -> Nat]
    /\ \A i \in DOMAIN layers : \A j \in Reads(layers, i) : rank[j] < rank[i]

LEMMA ReadsAre ==
    ASSUME NEW layers, Linked(layers), Apart(layers), NEW i \in DOMAIN layers
    PROVE  /\ \A p \in ToSet(Parents(layers, i)) : LayerAt(layers, p) \in Reads(layers, i)
           /\ \A j \in Reads(layers, i) : /\ layers[j].name \in ToSet(Parents(layers, i))
                                          /\ LayerAt(layers, layers[j].name) = j
<1> DEFINE s == Parents(layers, i)
           t == layers[i].inputs
<1>1. ToSet(s) = {p \in ToSet(t) : p \in Named(layers)}
    BY ParentsAre
<1>2. \A x : Contains(t, x) <=> x \in ToSet(t)
    BY DEF Contains, ToSet
<1>3. \A j : j \in Reads(layers, i) <=> j \in DOMAIN layers /\ layers[j].name \in ToSet(t)
    BY <1>2 DEF Reads, Inner
<1>4. ASSUME NEW p \in ToSet(s) PROVE LayerAt(layers, p) \in Reads(layers, i)
  <2>1. p \in ToSet(t) /\ p \in Named(layers)
      BY <1>1
  <2> QED BY <1>3, <2>1, LayerAtIs
<1>5. ASSUME NEW j \in Reads(layers, i)
      PROVE  layers[j].name \in ToSet(s) /\ LayerAt(layers, layers[j].name) = j
  <2>1. j \in DOMAIN layers /\ layers[j].name \in ToSet(t)
      BY <1>3
  <2>2. layers[j].name \in Named(layers)
      BY <2>1 DEF Named
  <2>3. LayerAt(layers, layers[j].name) = j
      BY <2>1, <2>2, LayerAtIs DEF Apart
  <2> QED BY <1>1, <2>1, <2>2, <2>3
<1> QED BY <1>4, <1>5

\* A layer's depth is known once that of each it reads is, and is larger.
Sound(layers, memo) ==
    /\ memo \in KnownDepths(layers)
    /\ \A i \in DOMAIN layers : memo[i] # 0 =>
          \A j \in Reads(layers, i) : memo[j] # 0 /\ memo[j] < memo[i]

\* v knows what u does, and besides only depths of layers below a rank.
Grown(layers, rank, bound, u, v) ==
    \A i \in DOMAIN layers : /\ u[i] # 0 => v[i] = u[i]
                             /\ v[i] # 0 /\ u[i] = 0 => rank[i] < bound

LEMMA GrownOn ==
    ASSUME NEW layers, NEW rank \in [DOMAIN layers -> Nat], NEW a \in Nat, NEW b \in Nat, a <= b,
           NEW u, NEW v, NEW w, Grown(layers, rank, b, u, v), Grown(layers, rank, a, v, w)
    PROVE  Grown(layers, rank, b, u, w)
<1> SUFFICES ASSUME NEW i \in DOMAIN layers
             PROVE  /\ u[i] # 0 => w[i] = u[i]
                    /\ w[i] # 0 /\ u[i] = 0 => rank[i] < b
    BY DEF Grown
<1>1. rank[i] \in Nat
    OBVIOUS
<1>2. /\ u[i] # 0 => v[i] = u[i]
      /\ v[i] # 0 /\ u[i] = 0 => rank[i] < b
      /\ v[i] # 0 => w[i] = v[i]
      /\ w[i] # 0 /\ v[i] = 0 => rank[i] < a
    BY DEF Grown
<1> QED BY <1>1, <1>2

\* What a call leaves behind, for a layer below those on its path.
Settles(layers, rank, resolve, call) ==
    LET r == resolve[call]
    IN  /\ Sound(layers, r) /\ r[call.layer] # 0
        /\ Grown(layers, rank, rank[call.layer] + 1, call.memo, r)

Clear(layers, rank, call) ==
    /\ call \in Calls(layers) /\ Sound(layers, call.memo)
    /\ \A x \in call.path : rank[call.layer] < rank[x]

\* ... if the calls for lower layers do so, and none has its depth: after the loop over
\* the layers it reads, these are known, and so far only they and lower ones came to be.
LEMMA LoopSettles ==
    ASSUME NEW layers, Linked(layers), Apart(layers), NEW rank, Ranks(layers, rank),
           NEW resolve, NEW call, Clear(layers, rank, call), ~Answered(call),
           \A c : Clear(layers, rank, c) /\ rank[c.layer] < rank[call.layer]
                  => Settles(layers, rank, resolve, c)
    PROVE  LET a == After(layers, resolve, call)
           IN  /\ Sound(layers, a) /\ \A j \in Reads(layers, call.layer) : a[j] # 0
               /\ Grown(layers, rank, rank[call.layer], call.memo, a)
<1> DEFINE n == call.layer
           path == call.path \cup {n}
           s == Parents(layers, n)
           c == Along(layers, resolve, path)
           base == call.memo
           a == After(layers, resolve, call)
           At(k) == LayerAt(layers, s[k])
<1>1. n \in DOMAIN layers /\ path \in SUBSET DOMAIN layers /\ base \in KnownDepths(layers)
    BY CallIs DEF Clear
<1>2. PICK m \in Nat : DOMAIN s = 1 .. m
    BY <1>1, ParentsAre
<1>3. \A k \in 1 .. m : s[k] \in ToSet(s) /\ At(k) \in Reads(layers, n)
    BY <1>1, <1>2, ParentsAre, ReadsAre
<1>4. c.layers = layers /\ c.resolve = resolve /\ c.path = path
    BY DEF Along
<1>5. \A k \in 1 .. m : /\ At(k) \in DOMAIN layers /\ rank[At(k)] \in Nat /\ rank[At(k)] < rank[n]
                        /\ \A x \in path : rank[At(k)] < rank[x]
  <2> SUFFICES ASSUME NEW k \in 1 .. m
               PROVE  /\ At(k) \in DOMAIN layers /\ rank[At(k)] \in Nat /\ rank[At(k)] < rank[n]
                      /\ \A x \in path : rank[At(k)] < rank[x]
      OBVIOUS
  <2>1. At(k) \in DOMAIN layers /\ rank[At(k)] \in Nat /\ rank[At(k)] < rank[n]
      BY <1>1, <1>3 DEF Ranks, Reads
  <2>2. rank[n] \in Nat /\ \A x \in path : rank[x] \in Nat /\ (x = n \/ rank[n] < rank[x])
      BY <1>1 DEF Ranks, Clear
  <2> HIDE DEF At, path, n
  <2> QED BY <2>1, <2>2
<1>6. a = Visits!Folded(c, base, s)
    BY DEF After
<1>7. Sound(layers, base) /\ rank[n] \in Nat /\ rank \in [DOMAIN layers -> Nat]
    BY <1>1 DEF Clear, Ranks
<1> HIDE DEF c, s, base, path, At, n, a
<1>8. PICK p : Visits!Runs(p, c, base, m, s) /\ Visits!Folded(c, base, s) = p[m]
    BY <1>2, Visits!FoldRuns
<1> DEFINE Kept(k) == /\ Sound(layers, p[k]) /\ Grown(layers, rank, rank[n], base, p[k])
                      /\ \A l \in 1 .. k : p[k][At(l)] # 0
           Good == {k \in Nat : k <= m => Kept(k)}
<1>9. Kept(0)
    BY <1>7, <1>8 DEF Visits!Runs, Grown
<1>10. ASSUME NEW k \in Nat, k + 1 <= m, Kept(k) PROVE Kept(k + 1)
  <2> DEFINE i == At(k + 1)
             x == [layer |-> i, path |-> path, memo |-> p[k]]
             r == resolve[x]
  <2>1. k + 1 \in 1 .. m
      BY <1>10
  <2>2. p[k + 1] = r
    <3>1. p[k + 1] = VisitParent(c, p[k], s[k + 1])
        BY <1>8, <2>1 DEF Visits!Runs
    <3> QED BY <1>4, <3>1 DEF VisitParent, Descend, At
  <2>3. p[k] \in KnownDepths(layers) /\ Sound(layers, p[k])
      BY <1>10 DEF Sound
  <2>4. x \in Calls(layers) /\ x.layer = i /\ x.path = path /\ x.memo = p[k]
      BY <1>1, <1>5, <2>1, <2>3, SubcallIs
  <2> HIDE DEF x
  <2>5. Clear(layers, rank, x)
      BY <1>5, <2>1, <2>3, <2>4 DEF Clear
  <2>6. Settles(layers, rank, resolve, x)
      BY <1>5, <2>1, <2>4, <2>5 DEF n
  <2>7. Sound(layers, r) /\ r[i] # 0 /\ Grown(layers, rank, rank[i] + 1, p[k], r)
      BY <2>4, <2>6 DEF Settles
  <2>8. Grown(layers, rank, rank[n], base, r)
    <3>1. rank[i] + 1 \in Nat /\ rank[i] + 1 <= rank[n]
        BY <1>5, <1>7, <2>1
    <3> HIDE DEF i, r
    <3> QED BY <1>7, <1>10, <2>7, <3>1, GrownOn
  <2>9. ASSUME NEW l \in 1 .. k + 1 PROVE r[At(l)] # 0
    <3>1. CASE l = k + 1
        BY <2>7, <3>1
    <3>2. CASE l \in 1 .. k
      <4>1. p[k][At(l)] # 0 /\ l \in 1 .. m
          BY <1>10, <3>2
      <4> QED BY <1>5, <2>7, <4>1 DEF Grown
    <3> QED BY <3>1, <3>2
  <2> HIDE DEF r
  <2> QED BY <2>2, <2>7, <2>8, <2>9
<1>11. \A k \in Nat : k \in Good
  <2>1. 0 \in Good /\ \A k \in Nat : k \in Good => k + 1 \in Good
    <3> HIDE DEF Kept
    <3> QED BY <1>9, <1>10
  <2> HIDE DEF Good
  <2> QED BY <2>1, NatSetInduction
<1>12. Kept(m) /\ p[m] = a
    BY <1>6, <1>8, <1>11
<1>13. ASSUME NEW j \in Reads(layers, n) PROVE a[j] # 0
  <2>1. layers[j].name \in ToSet(s) /\ LayerAt(layers, layers[j].name) = j
      BY <1>1, ReadsAre DEF s
  <2>2. PICK k \in 1 .. m : s[k] = layers[j].name
      BY <1>2, <2>1 DEF ToSet
  <2>3. At(k) = j
      BY <2>1, <2>2 DEF At
  <2> QED BY <1>12, <2>3
<1> QED BY <1>12, <1>13 DEF a, n, base

LEMMA CallSettles ==
    ASSUME NEW layers, Linked(layers), Apart(layers), NEW rank, Ranks(layers, rank),
           NEW resolve, Solves(layers, resolve, Calls(layers)),
           NEW call, Clear(layers, rank, call),
           \A c : Clear(layers, rank, c) /\ rank[c.layer] < rank[call.layer]
                  => Settles(layers, rank, resolve, c)
    PROVE  Settles(layers, rank, resolve, call)
<1> DEFINE n == call.layer
           base == call.memo
           a == After(layers, resolve, call)
           d == 1 + Max({0} \cup Above(layers, a, n))
           r == resolve[call]
<1>1. /\ call \in Calls(layers) /\ n \in DOMAIN layers /\ base \in KnownDepths(layers)
      /\ Sound(layers, base) /\ rank[n] \in Nat
    BY CallIs DEF Clear, Ranks
<1>2. r = Resolved(layers, resolve, call)
    BY <1>1 DEF Solves
<1>3. n \notin call.path
    BY <1>1 DEF Clear
<1>4. CASE base[n] # 0
  <2>1. r = base
      BY <1>2, <1>4, ResolvedIs DEF Answered
  <2>2. Grown(layers, rank, rank[n] + 1, base, base)
      BY DEF Grown
  <2> QED BY <1>1, <1>4, <2>1, <2>2 DEF Settles
<1>5. CASE base[n] = 0
  <2>1. ~Answered(call)
      BY <1>3, <1>5 DEF Answered
  <2>2. /\ Sound(layers, a) /\ \A j \in Reads(layers, n) : a[j] # 0
        /\ Grown(layers, rank, rank[n], base, a)
      BY <2>1, LoopSettles
  <2>3. r = [a EXCEPT ![n] = d]
      BY <1>2, <2>1, ResolvedIs
  <2>4. \A j \in Reads(layers, n) : a[j] \in Above(layers, a, n)
      BY <1>1, ReadsAre DEF Above
  <2> HIDE DEF a
  <2>5. a \in KnownDepths(layers)
      BY <2>2 DEF Sound
  <2>6. d \in Nat \ {0} /\ \A x \in Above(layers, a, n) : x < d
      BY <1>1, <2>5, DeeperIs
  <2> HIDE DEF d
  <2>7. a[n] = 0
      BY <1>1, <1>5, <2>2 DEF Grown
  <2>8. r \in KnownDepths(layers) /\ r[n] = d /\ \A i \in DOMAIN layers : i # n => r[i] = a[i]
      BY <1>1, <2>3, <2>5, <2>6 DEF KnownDepths
  <2> HIDE DEF r, n, base
  <2>9. Sound(layers, r)
    <3> SUFFICES ASSUME NEW i \in DOMAIN layers, r[i] # 0, NEW j \in Reads(layers, i)
                 PROVE  r[j] # 0 /\ r[j] < r[i]
        BY <2>8 DEF Sound
    <3>1. CASE i = n
      <4>1. a[j] # 0 /\ j # n /\ j \in DOMAIN layers /\ a[j] < d
          BY <2>2, <2>4, <2>6, <2>7, <3>1 DEF Reads
      <4> QED BY <2>8, <3>1, <4>1
    <3>2. CASE i # n
      <4>1. a[i] # 0 /\ r[i] = a[i]
          BY <2>8, <3>2
      <4>2. a[j] # 0 /\ a[j] < a[i] /\ j \in DOMAIN layers /\ j # n
          BY <2>2, <2>7, <4>1 DEF Sound, Reads
      <4> QED BY <2>8, <4>1, <4>2
    <3> QED BY <3>1, <3>2
  <2>10. Grown(layers, rank, rank[n] + 1, base, r)
    <3> SUFFICES ASSUME NEW i \in DOMAIN layers
                 PROVE  /\ base[i] # 0 => r[i] = base[i]
                        /\ r[i] # 0 /\ base[i] = 0 => rank[i] < rank[n] + 1
        BY DEF Grown
    <3>1. /\ base[i] # 0 => a[i] = base[i]
          /\ a[i] # 0 /\ base[i] = 0 => rank[i] < rank[n]
        BY <2>2 DEF Grown
    <3>2. rank[i] \in Nat /\ rank[n] \in Nat
        BY <1>1 DEF Ranks
    <3> QED BY <1>5, <2>8, <3>1, <3>2
  <2> QED BY <2>6, <2>8, <2>9, <2>10 DEF Settles, r, n, base
<1>6. base[n] \in Nat
    BY <1>1 DEF KnownDepths
<1> QED BY <1>4, <1>5

LEMMA AllSettle ==
    ASSUME NEW layers, Linked(layers), Apart(layers), NEW rank, Ranks(layers, rank),
           NEW resolve, Solves(layers, resolve, Calls(layers)),
           NEW call, Clear(layers, rank, call)
    PROVE  Settles(layers, rank, resolve, call)
<1> DEFINE Below(k) == \A c : Clear(layers, rank, c) /\ rank[c.layer] < k
                              => Settles(layers, rank, resolve, c)
           Good == {k \in Nat : Below(k)}
<1>1. \A c : Clear(layers, rank, c) => rank[c.layer] \in Nat
    BY CallIs DEF Clear, Ranks
<1>2. 0 \in Good
    BY <1>1
<1>3. ASSUME NEW k \in Nat, k \in Good PROVE k + 1 \in Good
  <2>1. ASSUME NEW c, Clear(layers, rank, c), rank[c.layer] < k + 1
        PROVE  Settles(layers, rank, resolve, c)
    <3>1. rank[c.layer] \in Nat
        BY <1>1, <2>1
    <3>2. \A x : Clear(layers, rank, x) /\ rank[x.layer] < rank[c.layer]
                 => Settles(layers, rank, resolve, x)
      <4> SUFFICES ASSUME NEW x, Clear(layers, rank, x), rank[x.layer] < rank[c.layer]
                   PROVE  Settles(layers, rank, resolve, x)
          OBVIOUS
      <4>1. rank[x.layer] \in Nat /\ rank[x.layer] < k
          BY <1>1, <2>1, <3>1
      <4> QED BY <1>3, <4>1
    <3> QED BY <2>1, <3>2, CallSettles
  <2> QED BY <2>1
<1>4. \A k \in Nat : k \in Good
  <2> HIDE DEF Good
  <2> QED BY <1>2, <1>3, NatSetInduction
<1>5. rank[call.layer] + 1 \in Nat /\ rank[call.layer] < rank[call.layer] + 1
    BY <1>1
<1> QED BY <1>4, <1>5

\* Where the layers can be ranked, depth grows along every edge between them.
LEMMA DepthsGrow ==
    ASSUME NEW layers, Linked(layers), Apart(layers), NEW rank, Ranks(layers, rank)
    PROVE  LET depth == TopoDepths(layers)
           IN  \A i \in DOMAIN layers : \A j \in Reads(layers, i) : depth[j] < depth[i]
<1> DEFINE base == [i \in DOMAIN layers |-> 0]
           s == [i \in DOMAIN layers |-> i]
           n == Len(layers)
<1>1. PICK resolve :
        /\ Solves(layers, resolve, Calls(layers))
        /\ TopoDepths(layers) = Rounds!Folded(Along(layers, resolve, {}), base, s)
    BY LayerDepthsAre
<1> DEFINE c == Along(layers, resolve, {})
<1>2. n \in Nat /\ DOMAIN layers = 1 .. n /\ DOMAIN s = 1 .. n
    BY DEF Linked
<1>3. c.resolve = resolve
    BY DEF Along
<1>4. Sound(layers, base)
    BY DEF Sound, KnownDepths
<1>5. \A k \in 1 .. n : s[k] = k
    BY <1>2
<1> HIDE DEF c, s, base, n
<1>6. PICK p : Rounds!Runs(p, c, base, n, s) /\ Rounds!Folded(c, base, s) = p[n]
    BY <1>2, Rounds!FoldRuns
<1> DEFINE Kept(k) == Sound(layers, p[k]) /\ \A l \in 1 .. k : p[k][l] # 0
           Good == {k \in Nat : k <= n => Kept(k)}
<1>7. Kept(0)
    BY <1>4, <1>6 DEF Rounds!Runs
<1>8. ASSUME NEW k \in Nat, k + 1 <= n, Kept(k) PROVE Kept(k + 1)
  <2> DEFINE x == [layer |-> k + 1, path |-> {}, memo |-> p[k]]
             r == resolve[x]
  <2>1. k + 1 \in 1 .. n /\ k + 1 \in DOMAIN layers
      BY <1>2, <1>8
  <2>2. p[k + 1] = r
    <3>1. p[k + 1] = VisitLayer(c, p[k], s[k + 1])
        BY <1>6, <2>1 DEF Rounds!Runs
    <3> QED BY <1>3, <1>5, <2>1, <3>1 DEF VisitLayer, Descend
  <2>3. p[k] \in KnownDepths(layers) /\ Sound(layers, p[k])
      BY <1>8 DEF Sound
  <2>4. x \in Calls(layers) /\ x.layer = k + 1 /\ x.path = {} /\ x.memo = p[k]
    <3>1. {} \in SUBSET DOMAIN layers
        OBVIOUS
    <3> QED BY <2>1, <2>3, <3>1, SubcallIs
  <2> HIDE DEF x
  <2>5. Clear(layers, rank, x)
      BY <2>3, <2>4 DEF Clear
  <2>6. Settles(layers, rank, resolve, x)
      BY <1>1, <2>5, AllSettle
  <2>7. Sound(layers, r) /\ r[k + 1] # 0 /\ Grown(layers, rank, rank[k + 1] + 1, p[k], r)
      BY <2>4, <2>6 DEF Settles
  <2> HIDE DEF r
  <2>8. ASSUME NEW l \in 1 .. k + 1 PROVE r[l] # 0
    <3>1. CASE l = k + 1
        BY <2>7, <3>1
    <3>2. CASE l \in 1 .. k
      <4>1. p[k][l] # 0 /\ l \in DOMAIN layers
          BY <1>2, <1>8, <3>2
      <4> QED BY <2>7, <4>1 DEF Grown
    <3> QED BY <3>1, <3>2
  <2> QED BY <2>2, <2>7, <2>8
<1>9. \A k \in Nat : k \in Good
  <2>1. 0 \in Good /\ \A k \in Nat : k \in Good => k + 1 \in Good
    <3> HIDE DEF Kept
    <3> QED BY <1>2, <1>7, <1>8
  <2> HIDE DEF Good
  <2> QED BY <2>1, NatSetInduction
<1>10. Kept(n) /\ TopoDepths(layers) = p[n]
    BY <1>1, <1>2, <1>6, <1>9 DEF c
<1> QED BY <1>2, <1>10 DEF Sound

\* What has no cycle can be ranked: a layer that nothing among the others leads to is
\* put below them.
LEMMA RanksExist ==
    ASSUME NEW layers, Linked(layers),
           \A S \in (SUBSET DOMAIN layers) \ {{}} :
               \E i \in S : \A j \in S : j \notin Reads(layers, i)
    PROVE  \E rank : Ranks(layers, rank)
<1> DEFINE L == DOMAIN layers
           Ranked(T, rank) == /\ rank \in [L -> Nat]
                              /\ \A i \in T : \A j \in Reads(layers, i) : j \in T => rank[j] < rank[i]
           Good == {T \in SUBSET L : \E rank : Ranked(T, rank)}
<1>1. IsFiniteSet(L)
    BY FS_Interval DEF Linked
<1>2. ASSUME NEW T \in SUBSET L, \A U \in SUBSET T : U # T => U \in Good PROVE T \in Good
  <2>1. CASE T = {}
    <3>1. Ranked(T, [i \in L |-> 0])
        BY <2>1
    <3> QED BY <3>1
  <2>2. CASE T # {}
    <3>1. PICK i \in T : \A j \in T : j \notin Reads(layers, i)
        BY <2>2
    <3>2. T \ {i} \in Good
        BY <1>2, <3>1
    <3>3. PICK rank : Ranked(T \ {i}, rank)
        BY <3>2
    <3> DEFINE more == [l \in L |-> IF l = i THEN 0 ELSE rank[l] + 1]
    <3>4. \A l \in L : rank[l] \in Nat
        BY <3>3
    <3>5. more \in [L -> Nat] /\ more[i] = 0 /\ \A l \in L : l # i => more[l] = rank[l] + 1
        BY <3>4
    <3> HIDE DEF more
    <3>6. ASSUME NEW k \in T, NEW j \in Reads(layers, k), j \in T PROVE more[j] < more[k]
      <4>1. k # i
          BY <3>1, <3>6
      <4>2. CASE j = i
          BY <3>4, <3>5, <4>1, <4>2
      <4>3. CASE j # i
        <5>1. rank[j] < rank[k]
            BY <3>3, <3>6, <4>1, <4>3
        <5> QED BY <3>4, <3>5, <3>6, <4>1, <4>3, <5>1
      <4> QED BY <4>2, <4>3
    <3>7. Ranked(T, more)
        BY <3>5, <3>6
    <3> QED BY <3>7
  <2> QED BY <2>1, <2>2
<1>3. L \in Good
  <2> HIDE DEF Good, L
  <2> QED BY <1>1, <1>2, SubsetInduction
<1>4. PICK rank : Ranked(L, rank)
    BY <1>3
<1>5. Ranks(layers, rank)
    BY <1>4 DEF Ranks, Reads
<1> QED BY <1>5
-----------------------------------------------------------------------------
(* The drawing of a container.                                              *)

\* The terms of TopologyKept.
Real(f, D) ==
    {e \in D \X D :
        IF f.ext = ".mlmodel"
        THEN \E b \in ToSet(f.layers[e[2]].blobs) :
                /\ e[1] < e[2] /\ b \in ToSet(f.layers[e[1]].writes)
                /\ \A k \in e[1] + 1 .. e[2] - 1 : b \notin ToSet(f.layers[k].writes)
        ELSE Contains(f.layers[e[2]].reads, f.layers[e[1]].name)}

Chained(f, n) ==
    {<<i - 1, i>> : i \in {j \in 2 .. n : f.ext # ".mlmodel" /\ f.layers[j].reads = <<>>}}

Between(v, D) == v.edges \cap (D \X D)

Circle(edges, D) ==
    \E S \in (SUBSET D) \ {{}} : \A i \in S : \E j \in S : <<j, i>> \in edges

Faithful(f, layers, v) ==
    LET D == DOMAIN layers
        real == Real(f, D)
        between == Between(v, D)
    IN  /\ real # {} => real \subseteq between /\ between \subseteq real \cup Chained(f, Len(layers))
        /\ \A i \in D : (\E e \in v.edges : e[2] = i) /\ (\E e \in v.edges : e[1] = i)
        /\ Circle(between, D) \/ \A e \in between : v.depth[e[1]] < v.depth[e[2]]

LEMMA FaithfulIsKept ==
    stage = "delivered" /\ source.layers # NoGraphStored /\ Faithful(source, specs, view)
    => TopologyKept
BY DEF TopologyKept, Faithful, Real, Chained, Between, Circle

\* The layers of a container with a graph, read from what it stores.
Container(f, layers) ==
    /\ Len(f.layers) \in Nat \ {0} /\ DOMAIN f.layers = 1 .. Len(f.layers)
    /\ Linked(layers) /\ Apart(layers) /\ Len(layers) = Len(f.layers)
    /\ \A i \in DOMAIN layers : layers[i].name = f.layers[i].name

LEMMA StoredAre ==
    ASSUME NEW f, Readable(f), f.layers # NoGraphStored
    PROVE  /\ Len(f.layers) \in Nat \ {0} /\ DOMAIN f.layers = 1 .. Len(f.layers)
           /\ \A i \in DOMAIN f.layers :
                 /\ Len(f.layers[i].reads) \in Nat
                 /\ DOMAIN f.layers[i].reads = 1 .. Len(f.layers[i].reads)
                 /\ Len(f.layers[i].blobs) \in Nat
                 /\ DOMAIN f.layers[i].blobs = 1 .. Len(f.layers[i].blobs)
           /\ \A i, j \in DOMAIN f.layers : f.layers[i].name = f.layers[j].name => i = j
<1>1. f.layers \in Seq(StoredLayers) /\ f.layers # <<>>
    BY DEF Readable, NoGraphStored
<1>2. /\ Len(f.layers) \in Nat \ {0} /\ DOMAIN f.layers = 1 .. Len(f.layers)
      /\ \A i \in DOMAIN f.layers : f.layers[i] \in StoredLayers
    BY <1>1
<1>3. \A i \in DOMAIN f.layers : f.layers[i].reads \in Seq(Seq(STRING))
                                 /\ f.layers[i].blobs \in Seq(STRING)
    BY <1>2 DEF StoredLayers
<1>4. \A i \in DOMAIN f.layers :
          /\ Len(f.layers[i].reads) \in Nat
          /\ DOMAIN f.layers[i].reads = 1 .. Len(f.layers[i].reads)
          /\ Len(f.layers[i].blobs) \in Nat
          /\ DOMAIN f.layers[i].blobs = 1 .. Len(f.layers[i].blobs)
    BY <1>3
<1> QED BY <1>2, <1>4 DEF Readable

\* Keras: the layers listed as inbound, else the one before.
LEMMA KerasIs ==
    ASSUME NEW f, Readable(f), f.layers # NoGraphStored, f.ext # ".mlmodel"
    PROVE  LET layers == Layers(f)
           IN  /\ Container(f, layers)
               /\ \A i \in DOMAIN layers : layers[i].inputs =
                     IF f.layers[i].reads # <<>> THEN f.layers[i].reads
                     ELSE IF i = 1 THEN <<>> ELSE <<layers[i - 1].name>>
<1> DEFINE layers == Layers(f)
           names == [i \in DOMAIN f.layers |-> f.layers[i].name]
           n == Len(f.layers)
<1>1. layers = KerasLayers(f)
    BY DEF Layers, Readable
<1>2. n \in Nat \ {0} /\ DOMAIN f.layers = 1 .. n
    BY StoredAre
<1>3. /\ DOMAIN layers = DOMAIN f.layers
      /\ \A i \in DOMAIN f.layers :
            /\ layers[i].name = f.layers[i].name
            /\ layers[i].inputs = IF f.layers[i].reads # <<>> THEN f.layers[i].reads
                                  ELSE Chain(names)[i]
    BY <1>1 DEF KerasLayers
<1>4. \A i \in DOMAIN f.layers : Chain(names)[i] = IF i = 1 THEN <<>> ELSE <<names[i - 1]>>
    BY DEF Chain
<1>5. Len(layers) = n
  <2>1. \E g : layers = [i \in 1 .. n |-> g[i]]
    <3>1. layers = [i \in 1 .. n |-> layers[i]]
        BY <1>1, <1>2 DEF KerasLayers
    <3> QED BY <3>1
  <2> HIDE DEF layers, n
  <2> QED BY <1>2, <2>1
<1>6. \A i \in DOMAIN layers : layers[i].inputs =
          IF f.layers[i].reads # <<>> THEN f.layers[i].reads
          ELSE IF i = 1 THEN <<>> ELSE <<layers[i - 1].name>>
  <2> SUFFICES ASSUME NEW i \in DOMAIN f.layers, f.layers[i].reads = <<>>, i # 1
               PROVE  Chain(names)[i] = <<layers[i - 1].name>>
      BY <1>3, <1>4
  <2>1. i - 1 \in DOMAIN f.layers
      BY <1>2
  <2>2. names[i - 1] = layers[i - 1].name
      BY <1>3, <2>1
  <2> QED BY <1>4, <2>2
<1>7. \A i \in DOMAIN layers : /\ Len(layers[i].inputs) \in Nat
                               /\ DOMAIN layers[i].inputs = 1 .. Len(layers[i].inputs)
  <2> SUFFICES ASSUME NEW i \in DOMAIN f.layers
               PROVE  /\ Len(layers[i].inputs) \in Nat
                      /\ DOMAIN layers[i].inputs = 1 .. Len(layers[i].inputs)
      BY <1>3
  <2> HIDE DEF layers
  <2>1. \/ layers[i].inputs = f.layers[i].reads
        \/ layers[i].inputs = <<>>
        \/ \E x : layers[i].inputs = <<x>>
    <3>1. i \in DOMAIN layers
        BY <1>3
    <3>2. \/ layers[i].inputs = f.layers[i].reads
          \/ layers[i].inputs = <<>>
          \/ layers[i].inputs = <<layers[i - 1].name>>
        BY <1>6, <3>1
    <3> QED BY <3>2
  <2>2. /\ Len(f.layers[i].reads) \in Nat
        /\ DOMAIN f.layers[i].reads = 1 .. Len(f.layers[i].reads)
      BY StoredAre
  <2>3. \A x : /\ Len(<<x>>) = 1 /\ DOMAIN <<x>> = 1 .. 1
               /\ Len(<<>>) = 0 /\ DOMAIN <<>> = 1 .. 0
      OBVIOUS
  <2> QED BY <2>1, <2>2, <2>3
<1> HIDE DEF layers
<1>8. Linked(layers) /\ Apart(layers)
    BY <1>2, <1>3, <1>5, <1>7, StoredAre DEF Linked, Apart
<1> QED BY <1>2, <1>3, <1>5, <1>6, <1>8 DEF Container, layers

\* The layer that wrote a blob last, before one that reads it.
Wrote(f, i, b) == {j \in 1 .. i - 1 : b \in ToSet(f.layers[j].writes)}

LEMMA CoreMLIs ==
    ASSUME NEW f, Readable(f), f.layers # NoGraphStored, f.ext = ".mlmodel"
    PROVE  LET layers == Layers(f)
           IN  /\ Container(f, layers)
               /\ \A i \in DOMAIN layers :
                     ToSet(layers[i].inputs) =
                         {f.layers[Max(Wrote(f, i, b))].name :
                             b \in {c \in ToSet(f.layers[i].blobs) : Wrote(f, i, c) # {}}}
<1> DEFINE layers == Layers(f)
           n == Len(f.layers)
           Take(i) == {k \in DOMAIN f.layers[i].blobs : Wrote(f, i, f.layers[i].blobs[k]) # {}}
           Read(i) == MembersAt(f.layers[i].blobs, Take(i))
<1>1. layers = CoreMLLayers(f)
    BY DEF Layers, Readable
<1>2. n \in Nat \ {0} /\ DOMAIN f.layers = 1 .. n
    BY StoredAre
<1>3. CoreMLLayers(f) =
          [i \in DOMAIN f.layers |->
              [name |-> f.layers[i].name,
               keys |-> {t.key : t \in {u \in ToSet(f.tensors) : u.key[1] = f.layers[i].name[1]}},
               inputs |-> [k \in DOMAIN Read(i) |-> f.layers[Max(Wrote(f, i, Read(i)[k]))].name]]]
    BY Zenon DEF CoreMLLayers, Wrote
<1>4. /\ DOMAIN layers = DOMAIN f.layers
      /\ \A i \in DOMAIN f.layers :
            /\ layers[i].name = f.layers[i].name
            /\ layers[i].inputs = [k \in DOMAIN Read(i) |-> f.layers[Max(Wrote(f, i, Read(i)[k]))].name]
  <2> HIDE DEF layers, Read
  <2> QED BY <1>1, <1>3
<1>5. Len(layers) = n
  <2>1. \E g : layers = [i \in 1 .. n |-> g[i]]
    <3> HIDE DEF Read
    <3>1. layers = [i \in 1 .. n |-> layers[i]]
        BY <1>1, <1>2, <1>3
    <3> QED BY <3>1
  <2> HIDE DEF layers, n
  <2> QED BY <1>2, <2>1
<1>6. ASSUME NEW i \in DOMAIN f.layers
      PROVE  /\ \E m \in Nat : DOMAIN Read(i) = 1 .. m
             /\ ToSet(Read(i)) = {f.layers[i].blobs[k] : k \in Take(i)}
  <2> DEFINE s == f.layers[i].blobs
             S == Take(i)
  <2>1. S \in SUBSET Int /\ IsFiniteSet(S)
    <3>1. Len(s) \in Nat /\ S \in SUBSET (1 .. Len(s))
        BY StoredAre
    <3> HIDE DEF S, s
    <3> QED BY <3>1, PlacesFinite
  <2>2. Read(i) = MembersAt(s, S)
      OBVIOUS
  <2>3. ToSet(MembersAt(s, S)) = {s[k] : k \in S}
    <3> HIDE DEF S, s
    <3> QED BY <2>1, MembersIs
  <2>4. Cardinality(S) \in Nat /\ DOMAIN MembersAt(s, S) = 1 .. Cardinality(S)
    <3> HIDE DEF S, s
    <3> QED BY <2>1, FS_CardinalityType DEF MembersAt
  <2> HIDE DEF S, s, Read
  <2> QED BY <2>2, <2>3, <2>4 DEF S, s
<1>7. ASSUME NEW i \in DOMAIN f.layers
      PROVE  ToSet(layers[i].inputs) =
                 {f.layers[Max(Wrote(f, i, b))].name :
                     b \in {c \in ToSet(f.layers[i].blobs) : Wrote(f, i, c) # {}}}
  <2> DEFINE F(b) == f.layers[Max(Wrote(f, i, b))].name
             R == Read(i)
             B == {c \in ToSet(f.layers[i].blobs) : Wrote(f, i, c) # {}}
  <2>1. ToSet(R) = B
    <3>1. {f.layers[i].blobs[k] : k \in Take(i)} = B
        BY DEF ToSet
    <3> HIDE DEF Take, B, Read
    <3> QED BY <1>6, <3>1
  <2>2. layers[i].inputs = [k \in DOMAIN R |-> F(R[k])]
      BY <1>4
  <2> HIDE DEF R, F, B, layers, Read
  <2>3. ToSet(layers[i].inputs) = {F(R[k]) : k \in DOMAIN R}
      BY <2>2 DEF ToSet
  <2>4. {F(R[k]) : k \in DOMAIN R} = {F(b) : b \in ToSet(R)}
      BY DEF ToSet
  <2> QED BY <2>1, <2>3, <2>4 DEF F, B
<1>8. \A i \in DOMAIN layers : /\ Len(layers[i].inputs) \in Nat
                               /\ DOMAIN layers[i].inputs = 1 .. Len(layers[i].inputs)
  <2> SUFFICES ASSUME NEW i \in DOMAIN f.layers
               PROVE  /\ Len(layers[i].inputs) \in Nat
                      /\ DOMAIN layers[i].inputs = 1 .. Len(layers[i].inputs)
      BY <1>4
  <2> DEFINE t == layers[i].inputs
  <2>1. PICK m \in Nat : DOMAIN Read(i) = 1 .. m
      BY <1>6
  <2>2. \E g : t = [k \in 1 .. m |-> g[k]]
    <3>1. t = [k \in 1 .. m |-> t[k]]
        BY <1>4, <2>1
    <3> QED BY <3>1
  <2> HIDE DEF t
  <2>3. Len(t) = m /\ DOMAIN t = 1 .. m
      BY <2>2
  <2> QED BY <2>3 DEF t
<1> HIDE DEF layers, Read, Take
<1>9. Linked(layers) /\ Apart(layers)
    BY <1>2, <1>4, <1>5, <1>8, StoredAre DEF Linked, Apart
<1> QED BY <1>2, <1>4, <1>5, <1>7, <1>9 DEF Container, layers

\* The edges between the layers are the container's own, and those of the chain.
LEMMA InnerIs ==
    ASSUME NEW f, Readable(f), f.layers # NoGraphStored
    PROVE  LET layers == Layers(f)
           IN  /\ Container(f, layers)
               /\ Real(f, DOMAIN layers) \subseteq Inner(layers)
               /\ Inner(layers) \subseteq Real(f, DOMAIN layers) \cup Chained(f, Len(layers))
<1> DEFINE layers == Layers(f)
           D == DOMAIN layers
           n == Len(layers)
<1>1. Container(f, layers)
    BY KerasIs, CoreMLIs
<1>2. /\ n \in Nat /\ D = 1 .. n /\ D = DOMAIN f.layers
      /\ \A i \in D : layers[i].name = f.layers[i].name
      /\ \A i, j \in D : layers[i].name = layers[j].name => i = j
    BY <1>1 DEF Container, Linked, Apart
<1>3. \A i, j : <<j, i>> \in Inner(layers) <=>
          i \in D /\ j \in D /\ layers[j].name \in ToSet(layers[i].inputs)
  <2>1. \A s, x : Contains(s, x) <=> x \in ToSet(s)
      BY DEF Contains, ToSet
  <2> SUFFICES ASSUME NEW i, NEW j
               PROVE  <<j, i>> \in Inner(layers) <=>
                          i \in D /\ j \in D /\ layers[j].name \in ToSet(layers[i].inputs)
      OBVIOUS
  <2> HIDE DEF layers
  <2>2. <<j, i>> \in Inner(layers) <=>
            i \in D /\ j \in D /\ Contains(layers[i].inputs, layers[j].name)
      BY DEF Inner
  <2> QED BY <2>1, <2>2
<1>4. CASE f.ext # ".mlmodel"
  <2>1. \A i \in D : layers[i].inputs =
            IF f.layers[i].reads # <<>> THEN f.layers[i].reads
            ELSE IF i = 1 THEN <<>> ELSE <<layers[i - 1].name>>
      BY <1>4, KerasIs
  <2>2. \A i, j \in D : <<j, i>> \in Real(f, D) <=> layers[j].name \in ToSet(f.layers[i].reads)
    <3> SUFFICES ASSUME NEW i \in D, NEW j \in D
                 PROVE  <<j, i>> \in Real(f, D) <=> layers[j].name \in ToSet(f.layers[i].reads)
        OBVIOUS
    <3>1. <<j, i>> \in Real(f, D) <=> Contains(f.layers[i].reads, f.layers[j].name)
        BY <1>4 DEF Real
    <3>2. layers[j].name = f.layers[j].name
        BY <1>2
    <3>3. \A s, x : Contains(s, x) <=> x \in ToSet(s)
        BY DEF Contains, ToSet
    <3> QED BY <3>1, <3>2, <3>3
  <2> HIDE DEF layers, D, n
  <2>3. ASSUME NEW i \in D, NEW j \in D, layers[j].name \in ToSet(f.layers[i].reads)
        PROVE  layers[j].name \in ToSet(layers[i].inputs)
    <3>1. f.layers[i].reads # <<>>
        BY <2>3 DEF ToSet
    <3> QED BY <2>1, <2>3, <3>1
  <2>4. ASSUME NEW i \in D, NEW j \in D, layers[j].name \in ToSet(layers[i].inputs),
               f.layers[i].reads = <<>>
        PROVE  i \in 2 .. n /\ j = i - 1
    <3>1. layers[i].inputs # <<>>
        BY <2>4 DEF ToSet
    <3>2. i # 1 /\ layers[i].inputs = <<layers[i - 1].name>>
        BY <2>1, <2>4, <3>1
    <3>3. layers[j].name = layers[i - 1].name /\ i - 1 \in D
        BY <1>2, <2>4, <3>2 DEF ToSet
    <3> QED BY <1>2, <3>2, <3>3
  <2>5. \A e \in Real(f, D) : e \in Inner(layers)
    <3> SUFFICES ASSUME NEW e \in Real(f, D) PROVE e \in Inner(layers)
        OBVIOUS
    <3>1. PICK j \in D, i \in D : e = <<j, i>>
        BY DEF Real
    <3> QED BY <1>3, <2>2, <2>3, <3>1
  <2>6. ASSUME NEW e \in Inner(layers) PROVE e \in Real(f, D) \cup Chained(f, n)
    <3>1. PICK j \in D, i \in D : e = <<j, i>>
        BY DEF Inner, D
    <3>2. layers[j].name \in ToSet(layers[i].inputs)
        BY <1>3, <3>1
    <3>3. CASE f.layers[i].reads = <<>>
      <4>1. i \in 2 .. n /\ j = i - 1
          BY <2>4, <3>2, <3>3
      <4> QED BY <1>4, <3>1, <3>3, <4>1 DEF Chained
    <3>4. CASE f.layers[i].reads # <<>>
        BY <2>1, <2>2, <3>1, <3>2, <3>4
    <3> QED BY <3>3, <3>4
  <2> QED BY <1>1, <2>5, <2>6 DEF n, D, layers
<1>5. CASE f.ext = ".mlmodel"
  <2>1. \A i \in D : ToSet(layers[i].inputs) =
            {f.layers[Max(Wrote(f, i, b))].name :
                b \in {c \in ToSet(f.layers[i].blobs) : Wrote(f, i, c) # {}}}
      BY <1>5, CoreMLIs
  <2> HIDE DEF layers, D, n
  <2>2. ASSUME NEW i \in D, NEW b, Wrote(f, i, b) # {}
        PROVE  /\ Max(Wrote(f, i, b)) \in Wrote(f, i, b) /\ Max(Wrote(f, i, b)) \in D
               /\ \A j \in Wrote(f, i, b) : j <= Max(Wrote(f, i, b))
    <3> DEFINE S == Wrote(f, i, b)
    <3>1. S \in SUBSET (1 .. n) /\ n \in Nat
        BY <1>2 DEF Wrote
    <3> HIDE DEF S
    <3>2. S \in SUBSET Int /\ IsFiniteSet(S)
        BY <3>1, PlacesFinite
    <3>3. Max(S) \in S /\ \A j \in S : j <= Max(S)
        BY <2>2, <3>2, MaxIs DEF S
    <3> QED BY <1>2, <3>1, <3>3 DEF S
  <2>3. ASSUME NEW i \in D, NEW j \in D
        PROVE  <<j, i>> \in Real(f, D) <=>
                   \E b \in ToSet(f.layers[i].blobs) : Wrote(f, i, b) # {} /\ j = Max(Wrote(f, i, b))
    <3>1. <<j, i>> \in Real(f, D) <=>
              \E b \in ToSet(f.layers[i].blobs) :
                  /\ j < i /\ b \in ToSet(f.layers[j].writes)
                  /\ \A k \in j + 1 .. i - 1 : b \notin ToSet(f.layers[k].writes)
        BY <1>5 DEF Real
    <3>2. ASSUME NEW b, j < i, b \in ToSet(f.layers[j].writes),
                 \A k \in j + 1 .. i - 1 : b \notin ToSet(f.layers[k].writes)
          PROVE  Wrote(f, i, b) # {} /\ j = Max(Wrote(f, i, b))
      <4>1. i \in Nat /\ j \in Nat \ {0}
          BY <1>2
      <4>2. j \in Wrote(f, i, b)
          BY <3>2, <4>1 DEF Wrote
      <4>3. \A k \in Wrote(f, i, b) : k \in Nat /\ k <= j
          BY <3>2, <4>1 DEF Wrote
      <4>4. /\ Max(Wrote(f, i, b)) \in Wrote(f, i, b)
            /\ j <= Max(Wrote(f, i, b))
          BY <2>2, <4>2
      <4> DEFINE m == Max(Wrote(f, i, b))
      <4>5. m \in Nat /\ m <= j /\ j <= m
          BY <4>3, <4>4
      <4> HIDE DEF m
      <4>6. j = m
          BY <4>1, <4>5
      <4> QED BY <4>2, <4>6 DEF m
    <3>3. ASSUME NEW b, Wrote(f, i, b) # {}, j = Max(Wrote(f, i, b))
          PROVE  /\ j < i /\ b \in ToSet(f.layers[j].writes)
                 /\ \A k \in j + 1 .. i - 1 : b \notin ToSet(f.layers[k].writes)
      <4>1. i \in Nat /\ j \in Nat \ {0}
          BY <1>2
      <4>2. j \in Wrote(f, i, b) /\ \A k \in Wrote(f, i, b) : k <= j
          BY <2>2, <3>3
      <4>3. \A k \in j + 1 .. i - 1 : k \notin Wrote(f, i, b)
          BY <4>1, <4>2
      <4> QED BY <4>1, <4>2, <4>3 DEF Wrote
    <3> QED BY <3>1, <3>2, <3>3
  <2>4. ASSUME NEW i \in D, NEW j \in D
        PROVE  <<j, i>> \in Real(f, D) <=> layers[j].name \in ToSet(layers[i].inputs)
    <3>1. layers[j].name \in ToSet(layers[i].inputs) <=>
              \E b \in ToSet(f.layers[i].blobs) :
                  Wrote(f, i, b) # {} /\ layers[j].name = f.layers[Max(Wrote(f, i, b))].name
        BY <2>1
    <3>2. ASSUME NEW b, Wrote(f, i, b) # {}
          PROVE  layers[j].name = f.layers[Max(Wrote(f, i, b))].name <=> j = Max(Wrote(f, i, b))
        BY <1>2, <2>2, <3>2
    <3> QED BY <2>3, <3>1, <3>2
  <2>5. Real(f, D) = Inner(layers)
    <3>1. \A e \in Real(f, D) : \E j \in D, i \in D : e = <<j, i>>
        BY DEF Real
    <3>2. \A e \in Inner(layers) : \E j \in D, i \in D : e = <<j, i>>
        BY DEF Inner, D
    <3>3. \A j, i \in D : <<j, i>> \in Real(f, D) <=> <<j, i>> \in Inner(layers)
        BY <1>3, <2>4
    <3>4. ASSUME NEW e \in Real(f, D) PROVE e \in Inner(layers)
      <4>1. PICK j \in D, i \in D : e = <<j, i>>
          BY <3>1
      <4> QED BY <3>3, <4>1
    <3>5. ASSUME NEW e \in Inner(layers) PROVE e \in Real(f, D)
      <4>1. PICK j \in D, i \in D : e = <<j, i>>
          BY <3>2
      <4> QED BY <3>3, <4>1
    <3> QED BY <3>4, <3>5
  <2> QED BY <1>1, <2>5 DEF n, D, layers
<1> QED BY <1>4, <1>5

\* Layers that read others are drawn with the edges between them and those in and out.
LEMMA BranchesDrawn ==
    ASSUME NEW f, Readable(f), f.layers # NoGraphStored, Branches(f, Layers(f))
    PROVE  Faithful(f, Layers(f), Drawing(f, Layers(f)))
<1> DEFINE layers == Layers(f)
           v == Drawing(f, layers)
           D == DOMAIN layers
           n == Len(layers)
<1>1. /\ Container(f, layers)
      /\ Real(f, D) \subseteq Inner(layers)
      /\ Inner(layers) \subseteq Real(f, D) \cup Chained(f, n)
    BY InnerIs
<1>2. /\ Linked(layers) /\ Apart(layers) /\ n \in Nat /\ D = 1 .. n
    BY <1>1 DEF Container, Linked
<1>3. /\ v.edges = ({InNode} \X Roots(layers)) \cup Inner(layers)
                   \cup (Unconsumed(layers) \X {OutNode(layers)})
      /\ v.depth = TopoDepths(layers)
    BY DEF Drawing
<1>4. Inner(layers) \subseteq D \X D
    BY DEF Inner
<1>5. \A i, j \in D : <<j, i>> \in Inner(layers) <=> layers[j].name \in ToSet(layers[i].inputs)
  <2>1. \A s, x : Contains(s, x) <=> x \in ToSet(s)
      BY DEF Contains, ToSet
  <2> SUFFICES ASSUME NEW i \in D, NEW j \in D
               PROVE  <<j, i>> \in Inner(layers) <=> layers[j].name \in ToSet(layers[i].inputs)
      OBVIOUS
  <2>2. <<j, i>> \in Inner(layers) <=> Contains(layers[i].inputs, layers[j].name)
      BY DEF Inner
  <2> QED BY <2>1, <2>2
<1>6. Roots(layers) = {i \in D : ToSet(layers[i].inputs) \cap {layers[j].name : j \in D} = {}}
    BY DEF Roots, Named
<1>7. Unconsumed(layers) = {i \in D : ~\E j \in D : <<i, j>> \in Inner(layers)}
    BY DEF Unconsumed
<1> HIDE DEF layers, v, D
<1>8. 0 \notin D /\ n + 1 \notin D /\ InNode = 0 /\ OutNode(layers) = n + 1
    BY <1>2 DEF InNode, OutNode
<1>9. Between(v, D) = Inner(layers)
  <2>1. ({0} \X Roots(layers)) \cap (D \X D) = {} /\ (Unconsumed(layers) \X {n + 1}) \cap (D \X D) = {}
    <3> HIDE DEF n
    <3> QED BY <1>8
  <2> QED BY <1>3, <1>4, <1>8, <2>1 DEF Between
<1>10. ASSUME NEW i \in D PROVE \E e \in v.edges : e[2] = i
  <2>1. CASE i \in Roots(layers)
    <3>1. <<0, i>> \in v.edges
        BY <1>3, <1>8, <2>1
    <3> QED BY <3>1
  <2>2. CASE i \notin Roots(layers)
    <3>1. PICK j \in D : layers[j].name \in ToSet(layers[i].inputs)
        BY <1>6, <2>2
    <3>2. <<j, i>> \in v.edges
        BY <1>3, <1>5, <3>1
    <3> QED BY <3>2
  <2> QED BY <2>1, <2>2
<1>11. ASSUME NEW i \in D PROVE \E e \in v.edges : e[1] = i
  <2>1. CASE i \in Unconsumed(layers)
    <3>1. <<i, n + 1>> \in v.edges
        BY <1>3, <1>8, <2>1
    <3> QED BY <3>1
  <2>2. CASE i \notin Unconsumed(layers)
    <3>1. PICK j \in D : <<i, j>> \in Inner(layers)
        BY <1>7, <2>2
    <3>2. <<i, j>> \in v.edges
        BY <1>3, <3>1
    <3> QED BY <3>2
  <2> QED BY <2>1, <2>2
<1>12. ASSUME ~Circle(Inner(layers), D), NEW e \in Inner(layers)
       PROVE  v.depth[e[1]] < v.depth[e[2]]
  <2>1. \A S \in (SUBSET D) \ {{}} : \E i \in S : \A j \in S : <<j, i>> \notin Inner(layers)
      BY <1>12 DEF Circle
  <2>2. \A S \in (SUBSET D) \ {{}} : \E i \in S : \A j \in S : j \notin Reads(layers, i)
      BY <2>1 DEF Reads
  <2>3. PICK rank : Ranks(layers, rank)
      BY <1>2, <2>2, RanksExist DEF D
  <2>4. \A i \in D : \A j \in Reads(layers, i) : v.depth[j] < v.depth[i]
      BY <1>2, <1>3, <2>3, DepthsGrow DEF D
  <2>5. PICK j \in D, i \in D : e = <<j, i>>
      BY <1>4
  <2>6. j \in Reads(layers, i)
      BY <1>12, <2>5 DEF Reads, D
  <2> QED BY <2>4, <2>5, <2>6
<1>13. Faithful(f, layers, v)
    BY <1>1, <1>9, <1>10, <1>11, <1>12 DEF Faithful, D
<1> QED BY <1>13 DEF layers, v

\* Layers of which none reads another are drawn as a chain.
LEMMA ChainDrawn ==
    ASSUME NEW f, Readable(f), f.layers # NoGraphStored, ~Branches(f, Layers(f))
    PROVE  Faithful(f, Layers(f), Drawing(f, Layers(f)))
<1> DEFINE layers == Layers(f)
           v == Drawing(f, layers)
           D == DOMAIN layers
           n == Len(layers)
<1>1. Container(f, layers) /\ Real(f, D) \subseteq Inner(layers)
    BY InnerIs
<1>2. n \in Nat /\ D = 1 .. n
    BY <1>1 DEF Container, Linked
<1>3. \A i \in D : layers[i].inputs = <<>>
    BY DEF Branches, HasTopology
<1>4. Real(f, D) = {}
  <2>1. \A s, x : Contains(s, x) <=> x \in ToSet(s)
      BY DEF Contains, ToSet
  <2>2. \A i \in D : ToSet(layers[i].inputs) = {}
      BY <1>3 DEF ToSet
  <2>3. Inner(layers) = {}
      BY <2>1, <2>2 DEF Inner
  <2> QED BY <1>1, <2>3
<1>5. v.edges = {<<i, i + 1>> : i \in 0 .. n} /\ v.depth = [i \in D |-> i]
    BY DEF Drawing
<1> HIDE DEF layers, v, D, n
<1>6. ASSUME NEW i \in D
      PROVE  (\E e \in v.edges : e[2] = i) /\ (\E e \in v.edges : e[1] = i)
  <2>1. i \in 0 .. n /\ i - 1 \in 0 .. n /\ i - 1 + 1 = i
      BY <1>2
  <2>2. <<i, i + 1>> \in v.edges
      BY <1>5, <2>1
  <2>3. <<i - 1, i>> \in v.edges
    <3>1. <<i - 1, i - 1 + 1>> \in v.edges
        BY <1>5, <2>1
    <3> QED BY <2>1, <3>1
  <2> QED BY <2>2, <2>3
<1>7. ASSUME NEW e \in Between(v, D) PROVE v.depth[e[1]] < v.depth[e[2]]
  <2>1. e \in v.edges /\ e \in D \X D
      BY DEF Between
  <2>2. PICK i \in 0 .. n : e = <<i, i + 1>>
      BY <1>5, <2>1
  <2>3. i \in D /\ i + 1 \in D
      BY <2>1, <2>2
  <2>4. v.depth[i] = i /\ v.depth[i + 1] = i + 1
      BY <1>5, <2>3
  <2> QED BY <1>2, <2>2, <2>4
<1>8. Faithful(f, layers, v)
    BY <1>4, <1>6, <1>7 DEF Faithful, D
<1> QED BY <1>8 DEF layers, v

LEMMA DrawnFaithfully ==
    ASSUME NEW f, Readable(f), f.layers # NoGraphStored
    PROVE  Faithful(f, Layers(f), Drawing(f, Layers(f)))
BY BranchesDrawn, ChainDrawn

\* What has been read of a container with a graph, and what is drawn of it.
DrawnInv ==
    source.layers # NoGraphStored =>
        /\ stage \in {"ingested", "measured", "packed", "delivered"} =>
              Readable(source) /\ specs = Layers(source)
        /\ stage \in {"packed", "delivered"} => view = Drawing(source, specs)

LEMMA DrawnStep ==
    ASSUME DrawnInv, [WeightNext]_weightVars
    PROVE  DrawnInv'
<1> USE DEF OrCancelled
<1>1. CASE Arrive
  <2>1. PICK f \in Files :
          LET sent == IF f.uploaded THEN f ELSE Synthesized(f)
              way == Dispatch(sent)
          IN  /\ source' = IF way.to = "failed" THEN sent ELSE way.file
              /\ \/ /\ way.to = "weights" /\ specs' = Layers(sent)
                    /\ stage' \in {"ingested", "cancelled"}
                 \/ stage' \in {"engine", "failed"}
      BY <1>1 DEF Arrive
  <2>2. CASE stage' = "ingested" /\ source'.layers # NoGraphStored
    <3> DEFINE sent == IF f.uploaded THEN f ELSE Synthesized(f)
    <3>1. Dispatch(sent).to = "weights" /\ source' = Dispatch(sent).file /\ specs' = Layers(sent)
        BY <2>1, <2>2
    <3>2. source' = sent
        BY <3>1 DEF Dispatch, ToEngine, ToWeights, Refused, TorchBundle, Bundle, H5Bundle
    <3>3. sent = f
        BY <2>2, <3>2 DEF Synthesized, FileOf
    <3>4. Readable(f)
        BY WeightAssumption
    <3> QED BY <2>2, <3>1, <3>2, <3>3, <3>4 DEF DrawnInv, Readable
  <2>3. CASE ~(stage' = "ingested" /\ source'.layers # NoGraphStored)
      BY <2>1, <2>3 DEF DrawnInv
  <2> QED BY <2>2, <2>3
<1>2. CASE Judge
    BY <1>2 DEF Judge, DrawnInv
<1>3. CASE Pack
    BY <1>3 DEF Pack, DrawnInv
<1>4. CASE Deliver
    BY <1>4 DEF Deliver, DrawnInv
<1>5. CASE UNCHANGED weightVars
    BY <1>5 DEF weightVars, DrawnInv
<1> QED BY <1>1, <1>2, <1>3, <1>4, <1>5 DEF WeightNext

\* Whatever the layers of a container are and however they read each other, its drawing
\* has between them exactly the connections it stores, or those of a chain, every layer
\* is entered and left, and without a cycle depth grows along every edge.
THEOREM TopologyAlwaysKept == WeightSpec => []TopologyKept
<1>1. WeightInit => DrawnInv
    BY DEF WeightInit, DrawnInv
<1>2. DrawnInv /\ [WeightNext]_weightVars => DrawnInv'
    BY DrawnStep
<1>3. DrawnInv => TopologyKept
  <2> SUFFICES ASSUME DrawnInv, stage = "delivered", source.layers # NoGraphStored
               PROVE  TopologyKept
      BY DEF TopologyKept
  <2>1. Readable(source) /\ specs = Layers(source) /\ view = Drawing(source, specs)
      BY DEF DrawnInv
  <2>2. Faithful(source, specs, view)
      BY <2>1, DrawnFaithfully
  <2> QED BY <2>2, FaithfulIsKept
<1> QED BY <1>1, <1>2, <1>3, PTL DEF WeightSpec
===============================================================================
