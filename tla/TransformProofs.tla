--------------------------- MODULE TransformProofs ---------------------------
(***************************************************************************)
(* The transformer makes an ONNX graph of an ONNX graph, whatever it is    *)
(* asked, the size of a graph is a number of bytes, and its quality a      *)
(* percentage.  What each handler makes of a graph is one of six things    *)
(* (HandleIs); from them, a pass changes only what was asked to change and *)
(* leaves a list of nodes that can still be run in its order; what it      *)
(* converts takes less room than before.                                   *)
(***************************************************************************)
EXTENDS Transform, Sensitivity, FiniteFacts
-----------------------------------------------------------------------------
(* Lists.                                                                   *)

\* A list is what its places hold.
LEMMA ListFacts ==
    ASSUME NEW s, IsList(s)
    PROVE  /\ Len(s) \in Nat /\ DOMAIN s = 1 .. Len(s)
           /\ s = [k \in 1 .. Len(s) |-> s[k]]
           /\ \A k \in 1 .. Len(s) : s[k] \in ToSet(s)
<1>1. s \in Seq(ToSet(s))
    BY DEF IsList
<1> QED BY <1>1

\* A function of the numbers from 1 is a list.
LEMMA ListOfItems ==
    ASSUME NEW n \in Nat, NEW s, s = [k \in 1 .. n |-> s[k]]
    PROVE  IsList(s) /\ ToSet(s) = {s[k] : k \in 1 .. n}
<1>1. ToSet(s) = {s[k] : k \in 1 .. n} /\ DOMAIN s = 1 .. n
    BY DEF ToSet
<1>2. \A k \in 1 .. n : s[k] \in ToSet(s)
    BY <1>1
<1>3. s \in [1 .. n -> ToSet(s)]
    BY <1>2
<1> QED BY <1>1, <1>3 DEF IsList

LEMMA ListOf ==
    ASSUME NEW T, NEW s \in Seq(T)
    PROVE  IsList(s) /\ ToSet(s) \subseteq T
<1>1. Len(s) \in Nat /\ s = [k \in 1 .. Len(s) |-> s[k]] /\ \A k \in 1 .. Len(s) : s[k] \in T
    OBVIOUS
<1>2. IsList(s) /\ ToSet(s) = {s[k] : k \in 1 .. Len(s)}
    BY <1>1, ListOfItems
<1> QED BY <1>1, <1>2

\* Lists joined, cut, appended to, shortened, mapped or filtered are lists.
LEMMA ConcatList ==
    ASSUME NEW s, NEW t, IsList(s), IsList(t)
    PROVE  IsList(s \o t) /\ ToSet(s \o t) \subseteq ToSet(s) \cup ToSet(t)
<1> DEFINE T == ToSet(s) \cup ToSet(t)
<1>1. s \in Seq(ToSet(s)) /\ t \in Seq(ToSet(t))
    BY DEF IsList
<1>2. s \in Seq(T) /\ t \in Seq(T)
    BY <1>1
<1>3. s \o t \in Seq(T)
  <2> HIDE DEF T
  <2> QED BY <1>2
<1> QED BY <1>3, ListOf

LEMMA SubList ==
    ASSUME NEW s, IsList(s), NEW i \in Int, NEW j \in Int
    PROVE  i >= 1 /\ j <= Len(s) => IsList(SubSeq(s, i, j)) /\ ToSet(SubSeq(s, i, j)) \subseteq ToSet(s)
<1>1. s \in Seq(ToSet(s))
    BY DEF IsList
<1> DEFINE T == ToSet(s)
<1>2. s \in Seq(T)
    BY <1>1
<1> HIDE DEF T
<1>3. i >= 1 /\ j <= Len(s) => SubSeq(s, i, j) \in Seq(T)
    BY <1>2
<1>4. i >= 1 /\ j <= Len(s) => IsList(SubSeq(s, i, j)) /\ ToSet(SubSeq(s, i, j)) \subseteq T
    BY <1>3, ListOf
<1> QED BY <1>4 DEF T

LEMMA OneList == ASSUME NEW x PROVE IsList(<<x>>) /\ ToSet(<<x>>) = {x}
<1>1. <<x>> \in Seq({x}) /\ Len(<<x>>) = 1 /\ <<x>>[1] = x
    OBVIOUS
<1>2. IsList(<<x>>) /\ ToSet(<<x>>) \subseteq {x}
    BY <1>1, ListOf
<1> QED BY <1>1, <1>2 DEF ToSet
-----------------------------------------------------------------------------
(* Parts of a graph replaced by others.                                     *)

Shaped(g, nodes, inits) ==
    /\ {"nodes", "inits", "ins", "outs", "opset"} \subseteq DOMAIN g
    /\ g.nodes = nodes /\ g.inits = inits

\* A graph with the nodes and the weights of another is as well-formed as it.
LEMMA Reshaped ==
    ASSUME NEW g, NEW h, WellFormed(g), Shaped(h, g.nodes, g.inits)
    PROVE  WellFormed(h)
BY DEF Shaped, WellFormed

LEMMA NodesReplaced ==
    ASSUME NEW g, NEW ns, WellFormed(g), IsList(ns), \A n \in ToSet(ns) : WellFormedNode(n)
    PROVE  WellFormed([g EXCEPT !.nodes = ns])
<1> DEFINE h == [g EXCEPT !.nodes = ns]
<1>1. Shaped(h, ns, g.inits)
    BY DEF WellFormed, Shaped
<1> HIDE DEF h
<1>2. WellFormed(h)
    BY <1>1 DEF WellFormed, Shaped
<1> QED BY <1>2 DEF h

LEMMA FlagsKeep ==
    ASSUME NEW g, NEW v, WellFormed(g)
    PROVE  /\ WellFormed([g EXCEPT !.conv = v])
           /\ WellFormed([g EXCEPT !.err = v])
           /\ WellFormed([g EXCEPT !.hung = v])
<1>1. /\ Shaped([g EXCEPT !.conv = v], g.nodes, g.inits)
      /\ Shaped([g EXCEPT !.err = v], g.nodes, g.inits)
      /\ Shaped([g EXCEPT !.hung = v], g.nodes, g.inits)
    BY DEF Shaped, WellFormed
<1> QED BY <1>1, Reshaped

\* _replace_initializer, _remove_initializer and the node inserted at the front.
LEMMA WithInitsKeeps ==
    ASSUME NEW g, NEW new, WellFormed(g), IsFiniteSet(DOMAIN new),
           \A x \in DOMAIN new : WellFormedTensor(new[x])
    PROVE  WellFormed(WithInits(g, new)) /\ WithInits(g, new).nodes = g.nodes
<1> DEFINE h == WithInits(g, new)
           inits == Overlaid(g.inits, new)
<1>1. Shaped(h, g.nodes, inits)
    BY DEF WithInits, WellFormed, Shaped
<1>2. DOMAIN inits = DOMAIN g.inits \cup DOMAIN new
    BY DEF Overlaid
<1>3. IsFiniteSet(DOMAIN inits)
    BY <1>2, FS_Union DEF WellFormed
<1>4. \A x \in DOMAIN inits : WellFormedTensor(inits[x])
    BY DEF Overlaid, WellFormed
<1> HIDE DEF h, inits
<1>5. WellFormed(h) /\ h.nodes = g.nodes
    BY <1>1, <1>3, <1>4 DEF WellFormed, Shaped
<1> QED BY <1>5 DEF h

LEMMA WithInitKeeps ==
    ASSUME NEW g, NEW x, NEW t, WellFormed(g), WellFormedTensor(t)
    PROVE  WellFormed(WithInit(g, x, t)) /\ WithInit(g, x, t).nodes = g.nodes
<1> DEFINE new == [y \in {x} |-> t]
<1>1. IsFiniteSet(DOMAIN new) /\ \A y \in DOMAIN new : WellFormedTensor(new[y])
    BY FS_Singleton
<1> HIDE DEF new
<1>2. WellFormed(WithInits(g, new)) /\ WithInits(g, new).nodes = g.nodes
    BY <1>1, WithInitsKeeps
<1> QED BY <1>2 DEF WithInit, new

LEMMA WithoutInitKeeps ==
    ASSUME NEW g, NEW x, WellFormed(g)
    PROVE  WellFormed(WithoutInit(g, x)) /\ WithoutInit(g, x).nodes = g.nodes
<1> DEFINE h == WithoutInit(g, x)
           inits == Restrict(g.inits, DOMAIN g.inits \ {x})
<1>1. Shaped(h, g.nodes, inits)
    BY DEF WithoutInit, WellFormed, Shaped
<1>2. DOMAIN inits = DOMAIN g.inits \ {x} /\ \A y \in DOMAIN inits : inits[y] = g.inits[y]
    BY DEF Restrict
<1>3. IsFiniteSet(DOMAIN inits)
    BY <1>2, FS_Subset DEF WellFormed
<1> HIDE DEF h, inits
<1>4. WellFormed(h) /\ h.nodes = g.nodes
    BY <1>1, <1>2, <1>3 DEF WellFormed, Shaped
<1> QED BY <1>4 DEF h

LEMMA NewNodeFine ==
    ASSUME NEW name, NEW op, NEW in, NEW out, IsList(in), op # "BatchNormalization"
    PROVE  WellFormedNode(NewNode(name, op, in, out))
<1> DEFINE n == NewNode(name, op, in, out)
<1>1. /\ {"name", "op", "in", "out", "attr"} \subseteq DOMAIN n
      /\ n.in = in /\ n.attr = <<>> /\ n.op = op
    BY DEF NewNode
<1> HIDE DEF n
<1>2. WellFormedNode(n)
    BY <1>1 DEF WellFormedNode, WellFormedAttr
<1> QED BY <1>2 DEF n

LEMMA PrependKeeps ==
    ASSUME NEW g, NEW n, WellFormed(g), WellFormedNode(n)
    PROVE  WellFormed(Prepend(g, n))
<1> DEFINE ns == <<n>> \o g.nodes
<1>1. IsList(ns) /\ ToSet(ns) \subseteq {n} \cup ToSet(g.nodes)
    BY OneList, ConcatList DEF WellFormed
<1>2. \A m \in ToSet(ns) : WellFormedNode(m)
    BY <1>1 DEF WellFormed
<1>3. Prepend(g, n) = [g EXCEPT !.nodes = ns]
    BY DEF Prepend
<1> HIDE DEF ns
<1> QED BY <1>1, <1>2, <1>3, NodesReplaced

LEMMA NodeAt ==
    ASSUME NEW g, WellFormed(g), NEW i \in DOMAIN g.nodes
    PROVE  WellFormedNode(g.nodes[i]) /\ g.nodes[i] \in ToSet(g.nodes)
BY DEF WellFormed, ToSet

\* A node replaced by another.
LEMMA NodeReplaced ==
    ASSUME NEW g, NEW i, NEW m, WellFormed(g), WellFormedNode(m)
    PROVE  /\ IsList([g.nodes EXCEPT ![i] = m])
           /\ \A n \in ToSet([g.nodes EXCEPT ![i] = m]) : WellFormedNode(n)
<1> DEFINE ns == [g.nodes EXCEPT ![i] = m]
<1>1. IsList(g.nodes)
    BY DEF WellFormed
<1>2. Len(g.nodes) \in Nat /\ DOMAIN g.nodes = 1 .. Len(g.nodes)
    BY <1>1, ListFacts
<1>3. ns = [k \in 1 .. Len(g.nodes) |-> ns[k]]
    BY <1>2
<1>4. \A k \in 1 .. Len(g.nodes) : WellFormedNode(ns[k])
    BY <1>2, NodeAt
<1> HIDE DEF ns
<1>5. IsList(ns) /\ ToSet(ns) = {ns[k] : k \in 1 .. Len(g.nodes)}
    BY <1>2, <1>3, ListOfItems
<1>6. IsList(ns) /\ \A n \in ToSet(ns) : WellFormedNode(n)
    BY <1>4, <1>5
<1> QED BY <1>6 DEF ns

\* A list of nodes with one more, or one less.
LEMMA InsertedList ==
    ASSUME NEW s, IsList(s), \A n \in ToSet(s) : WellFormedNode(n),
           NEW i \in 1 .. Len(s), NEW m, WellFormedNode(m)
    PROVE  IsList(InsertAt(s, i + 1, m)) /\ \A n \in ToSet(InsertAt(s, i + 1, m)) : WellFormedNode(n)
<1>0. Len(s) \in Nat
    BY ListFacts
<1> DEFINE before == SubSeq(s, 1, (i + 1) - 1)
           after == SubSeq(s, i + 1, Len(s))
<1>1. IsList(before) /\ ToSet(before) \subseteq ToSet(s)
    BY <1>0, SubList
<1>2. IsList(after) /\ ToSet(after) \subseteq ToSet(s)
    BY <1>0, SubList
<1> HIDE DEF before, after
<1>3. IsList(before \o <<m>>) /\ ToSet(before \o <<m>>) \subseteq ToSet(s) \cup {m}
    BY <1>1, OneList, ConcatList
<1>4. IsList(before \o <<m>> \o after) /\ ToSet(before \o <<m>> \o after) \subseteq ToSet(s) \cup {m}
    BY <1>2, <1>3, ConcatList
<1>5. InsertAt(s, i + 1, m) = before \o <<m>> \o after
    BY DEF InsertAt, before, after
<1> QED BY <1>4, <1>5

LEMMA ShortenedList ==
    ASSUME NEW s, IsList(s), NEW i \in 1 .. Len(s)
    PROVE  IsList(RemoveAt(s, i)) /\ ToSet(RemoveAt(s, i)) \subseteq ToSet(s)
<1>0. Len(s) \in Nat
    BY ListFacts
<1> DEFINE before == SubSeq(s, 1, i - 1)
           after == SubSeq(s, i + 1, Len(s))
<1>1. IsList(before) /\ ToSet(before) \subseteq ToSet(s)
    BY <1>0, SubList
<1>2. IsList(after) /\ ToSet(after) \subseteq ToSet(s)
    BY <1>0, SubList
<1>3. RemoveAt(s, i) = before \o after
    BY DEF RemoveAt
<1> HIDE DEF before, after
<1> QED BY <1>1, <1>2, <1>3, ConcatList

\* A lookup ends at a node of the graph, or nowhere.
LEMMA Found ==
    ASSUME NEW s, NEW I, I \subseteq 1 .. Len(s), IsList(s), NEW i,
           i = IF I # {} THEN Min(I) ELSE 0
    PROVE  i # 0 => i \in I /\ i \in DOMAIN s
<1>1. Len(s) \in Nat /\ DOMAIN s = 1 .. Len(s)
    BY ListFacts
<1>2. ASSUME I # {} PROVE Min(I) \in I
  <2>1. I \in SUBSET Nat
      BY <1>1
  <2>2. \E k \in I : \A m \in I : k <= m
      BY <1>2, <2>1, Least
  <2> QED BY <2>2 DEF Min
<1> QED BY <1>1, <1>2

\* _find_node returns a place of the list.
LEMMA FindsNode ==
    ASSUME NEW g, NEW name, WellFormed(g), FindNode(g, name) # 0
    PROVE  FindNode(g, name) \in DOMAIN g.nodes
<1> DEFINE I == {i \in 1 .. Len(g.nodes) : g.nodes[i].name = name}
<1>1. FindNode(g, name) = IF I # {} THEN Min(I) ELSE 0
    BY DEF FindNode, SelectInSeq
<1>2. IsList(g.nodes) /\ I \subseteq 1 .. Len(g.nodes)
    BY DEF WellFormed
<1> HIDE DEF I
<1> QED BY <1>1, <1>2, Found
-----------------------------------------------------------------------------
(* The handlers.                                                            *)

LEMMA Retyped ==
    ASSUME NEW t, NEW d \in DOMAIN Width, NEW tags, WellFormedTensor(t)
    PROVE  /\ WellFormedTensor([t EXCEPT !.dtype = d])
           /\ WellFormedTensor([t EXCEPT !.dtype = d, !.tags = tags])
           /\ WellFormedTensor([t EXCEPT !.tags = tags])
BY DEF WellFormedTensor

\* _store_fp16, _store_int8 and the quantization of a node's weights.
LEMMA StoreFp16Keeps ==
    ASSUME NEW g, NEW x \in DOMAIN g.inits, WellFormed(g)
    PROVE  WellFormed(StoreFp16(g, x))
<1> DEFINE h == UniqueName(g, Append(x, "fp16"))
           cast == UniqueName(g, Append(x, "fp16_cast"))
           t == [g.inits[x] EXCEPT !.dtype = "f16"]
           stored == WithInit(WithoutInit(g, x), h, t)
           n == NewNode(cast, "Cast", <<h>>, <<x>>)
<1>1. WellFormedTensor(t)
    BY Retyped DEF WellFormed, Width
<1>2. WellFormed(stored)
  <2> HIDE DEF t, h
  <2> QED BY <1>1, WithoutInitKeeps, WithInitKeeps
<1>3. WellFormedNode(n)
  <2> HIDE DEF h, cast
  <2> QED BY OneList, NewNodeFine
<1>4. StoreFp16(g, x) = Prepend(stored, n)
    BY DEF StoreFp16
<1> HIDE DEF stored, n
<1> QED BY <1>2, <1>3, <1>4, PrependKeeps

LEMMA StoreInt8Keeps ==
    ASSUME NEW g, NEW x \in DOMAIN g.inits, NEW level, NEW consumer, WellFormed(g)
    PROVE  WellFormed(StoreInt8(g, x, level, consumer))
<1> DEFINE t == g.inits[x]
           perChannel == /\ consumer.op = "Conv" /\ Len(t.dims) = 4
                         /\ g.opset >= 13 /\ t.dims[1] > 1
           shape == IF perChannel THEN <<t.dims[1]>> ELSE <<>>
           q  == UniqueName(g, Append(x, "q"))
           sc == UniqueName(g, Append(x, "scale"))
           zp == UniqueName(g, Append(x, "zp"))
           dq == UniqueName(g, Append(x, "dq"))
           stored == [t EXCEPT !.dtype = "i8",
                               !.tags = @ \cup {IF level = INT8 THEN "int8" ELSE "int4"}]
           scales == [dtype |-> "f32", dims |-> shape, tags |-> {}]
           zeros == [dtype |-> "i8", dims |-> shape, tags |-> {}]
           weights == [y \in {q, sc, zp} |-> IF y = q THEN stored
                                             ELSE IF y = sc THEN scales ELSE zeros]
           n == NewNode(dq, "DequantizeLinear", <<q, sc, zp>>, <<x>>)
<1>1. WellFormedTensor(t) /\ t.dims \in Seq(Nat)
    BY DEF WellFormed, WellFormedTensor
<1>2. shape \in Seq(Nat)
  <2>1. perChannel => t.dims[1] \in Nat
      BY <1>1
  <2> HIDE DEF perChannel, t
  <2> QED BY <2>1
<1>3. WellFormedTensor(stored)
  <2> HIDE DEF t
  <2> QED BY <1>1, Retyped DEF Width
<1>4. WellFormedTensor(scales) /\ WellFormedTensor(zeros)
  <2> HIDE DEF shape
  <2> QED BY <1>2 DEF WellFormedTensor, Width
<1>5. IsFiniteSet({q, sc, zp})
  <2> HIDE DEF q, sc, zp
  <2>1. IsFiniteSet({q}) /\ IsFiniteSet({q} \cup {sc})
      BY FS_Singleton, FS_AddElement
  <2>2. IsFiniteSet({q} \cup {sc} \cup {zp})
      BY <2>1, FS_AddElement
  <2>3. {q, sc, zp} = {q} \cup {sc} \cup {zp}
      OBVIOUS
  <2> QED BY <2>2, <2>3
<1>6. IsFiniteSet(DOMAIN weights) /\ \A y \in DOMAIN weights : WellFormedTensor(weights[y])
  <2> HIDE DEF q, sc, zp, stored, scales, zeros
  <2> QED BY <1>3, <1>4, <1>5
<1>7. WellFormedNode(n)
  <2> HIDE DEF q, sc, zp, dq
  <2>1. <<q, sc, zp>> \in Seq({q, sc, zp})
      OBVIOUS
  <2> QED BY <2>1, ListOf, NewNodeFine
<1>8. WellFormed(WithInits(WithoutInit(g, x), weights))
  <2> HIDE DEF weights
  <2> QED BY <1>6, WithoutInitKeeps, WithInitsKeeps
<1>9. WellFormed(Prepend(WithInits(WithoutInit(g, x), weights), n))
  <2> HIDE DEF weights, n
  <2> QED BY <1>7, <1>8, PrependKeeps
<1>10. \/ StoreInt8(g, x, level, consumer) = StoreFp16(g, x)
       \/ StoreInt8(g, x, level, consumer) = Prepend(WithInits(WithoutInit(g, x), weights), n)
    BY DEF StoreInt8
<1> HIDE DEF weights, n
<1> QED BY <1>9, <1>10, StoreFp16Keeps

\* The conversion of one weight.
LEMMA ConvertKeeps ==
    ASSUME NEW g, NEW x, NEW level, NEW consumer, WellFormed(g)
    PROVE  WellFormed(Convert(g, x, level, consumer))
<1> DEFINE stored == IF level = FP16 THEN StoreFp16(g, x) ELSE StoreInt8(g, x, level, consumer)
<1>1. CASE WorthConverting(g, x, level)
  <2>1. x \in DOMAIN g.inits
      BY <1>1 DEF WorthConverting
  <2>2. WellFormed(stored)
      BY <2>1, StoreFp16Keeps, StoreInt8Keeps
  <2> DEFINE v == stored.conv \cup {x}
  <2>3. Convert(g, x, level, consumer) = [stored EXCEPT !.conv = v]
      BY <1>1 DEF Convert
  <2> HIDE DEF stored, v
  <2>4. WellFormed([stored EXCEPT !.conv = v])
      BY <2>2, FlagsKeep
  <2> QED BY <2>3, <2>4
<1>2. CASE ~WorthConverting(g, x, level)
    BY <1>2 DEF Convert
<1> QED BY <1>1, <1>2

\* The conversion of a node's weights, one after the other.
ConvertOne(c, g, x) == Convert(g, x, c.level, c.consumer)
StillFormed(c, g) == WellFormed(g)
Conversion == INSTANCE Folding WITH Op <- ConvertOne, Good <- StillFormed

LEMMA QuantizeKeeps ==
    ASSUME NEW g, NEW a, WellFormed(g)
    PROVE  WellFormed(QuantizeWeights(g, a))
<1> DEFINE i == FindNode(g, a.name)
           n == g.nodes[i]
           c == [level |-> a.arg, consumer |-> n]
<1>1. CASE i = 0
    BY <1>1 DEF QuantizeWeights
<1>2. CASE i # 0
  <2>1. QuantizeWeights(g, a) = FoldLeft(LAMBDA h, x : Convert(h, x, a.arg, n), g, n.in)
      BY <1>2 DEF QuantizeWeights
  <2>2. c.level = a.arg /\ c.consumer = n
      OBVIOUS
  <2> HIDE DEF c, n
  <2>3. QuantizeWeights(g, a) = Conversion!Folded(c, g, n.in)
      BY <2>1, <2>2 DEF Conversion!Folded, FoldLeft, MapThenFoldSet, ConvertOne, Max,
             Conversion!FoldLeft, Conversion!MapThenFoldSet, Conversion!Max
  <2>4. i \in DOMAIN g.nodes
      BY <1>2, FindsNode
  <2>5. IsList(n.in)
      BY <2>4, NodeAt DEF n, WellFormedNode
  <2>6. Len(n.in) \in Nat /\ DOMAIN n.in = 1 .. Len(n.in)
      BY <2>5, ListFacts
  <2>7. Conversion!KeptBy(c, n.in)
      BY ConvertKeeps DEF Conversion!KeptBy, StillFormed, ConvertOne
  <2>8. StillFormed(c, Conversion!Folded(c, g, n.in))
      BY <2>6, <2>7, Conversion!FoldKeeps DEF StillFormed
  <2> QED BY <2>3, <2>8 DEF StillFormed
<1> QED BY <1>1, <1>2

\* What an action of the run asks: only a pruning and a factorization use the number.
WellFormedAction(a) ==
    a.kind \in {"channel_pruning", "tree_pruning", "low_rank_svd"} => a.arg \in Nat

\* Ratios keep a number of channels, of filters or of ranks.
LEMMA KeepBound ==
    ASSUME NEW n \in Nat, NEW ratio \in Nat
    PROVE  Keep(n, ratio) \in Nat
<1> DEFINE x == (n * (10 - ratio)) \div 10
<1>1. x \in Int
    OBVIOUS
<1> HIDE DEF x
<1>2. {1, x} \in SUBSET Int /\ IsFiniteSet({1, x}) /\ 1 \in {1, x}
  <2>1. {1, x} = {1} \cup {x}
      OBVIOUS
  <2>2. IsFiniteSet({1} \cup {x})
      BY FS_Singleton, FS_AddElement
  <2> QED BY <1>1, <2>1, <2>2
<1>3. Max({1, x}) \in {1, x} /\ 1 <= Max({1, x})
    BY <1>2, MaxIs
<1>4. Max({1, x}) \in Nat
    BY <1>1, <1>3
<1> QED BY <1>4 DEF Keep, x

\* A dimension cut down, when the tensor has it.
LEMMA Slimmed ==
    ASSUME NEW t, NEW axis, NEW k, NEW tag, WellFormedTensor(t),
           axis \in DOMAIN t.dims => k \in Nat
    PROVE  WellFormedTensor(Tagged([t EXCEPT !.dims[axis] = k], tag))
<1> DEFINE d == [t.dims EXCEPT ![axis] = k]
           u == [t EXCEPT !.dims[axis] = k]
<1>1. d \in Seq(Nat)
  <2> DEFINE e == t.dims
  <2>1. e \in Seq(Nat) /\ (axis \in DOMAIN e => k \in Nat)
      BY DEF WellFormedTensor
  <2> HIDE DEF e
  <2>2. Len(e) \in Nat /\ DOMAIN e = 1 .. Len(e) /\ e \in [1 .. Len(e) -> Nat]
      BY <2>1
  <2>3. [e EXCEPT ![axis] = k] \in [1 .. Len(e) -> Nat]
      BY <2>1, <2>2
  <2>4. [e EXCEPT ![axis] = k] \in Seq(Nat)
      BY <2>2, <2>3
  <2> QED BY <2>4 DEF e
<1>2. u = [t EXCEPT !.dims = d]
    OBVIOUS
<1> HIDE DEF d
<1>3. DOMAIN u = DOMAIN t /\ u.dims = d /\ u.dtype = t.dtype
    BY <1>2 DEF WellFormedTensor
<1> HIDE DEF u
<1>4. WellFormedTensor(u)
    BY <1>1, <1>3 DEF WellFormedTensor
<1>5. WellFormedTensor(Tagged(u, tag))
    BY <1>4, Retyped DEF Tagged, WellFormedTensor
<1> QED BY <1>5 DEF u

LEMMA TaggedKeeps ==
    ASSUME NEW t, NEW tag, WellFormedTensor(t)
    PROVE  WellFormedTensor(Tagged(t, tag))
BY DEF Tagged, WellFormedTensor

\* Channel pruning, the low-rank split and the fusion of a batch normalization.
LEMMA PruneKeeps ==
    ASSUME NEW g, NEW a, WellFormed(g), a.arg \in Nat
    PROVE  WellFormed(PruneChannels(g, a))
<1> DEFINE i == FindNode(g, a.name)
           n == g.nodes[i]
           w == Weight(g, n)
           t == g.inits[w]
           axis == IF n.op = "MatMul" /\ Len(t.dims) = 2 THEN 2 ELSE 1
           kept == Keep(t.dims[axis], a.arg)
           slim == WithInit(g, w, Tagged([t EXCEPT !.dims[axis] = kept], "pruned"))
           bias == n.in[3]
           both == WithInit(slim, bias, Tagged([g.inits[bias] EXCEPT !.dims[1] = kept], "pruned"))
<1>1. PruneChannels(g, a) = g \/ (w # NoName /\ PruneChannels(g, a) = slim)
      \/ (w # NoName /\ bias \in DOMAIN g.inits /\ g.inits[bias].dims[1] = t.dims[axis]
          /\ PruneChannels(g, a) = both)
    BY DEF PruneChannels
<1>2. w # NoName => w \in DOMAIN g.inits
    BY DEF Weight
<1>3. ASSUME w # NoName PROVE WellFormedTensor(t) /\ (axis \in DOMAIN t.dims => kept \in Nat)
  <2>1. WellFormedTensor(t)
      BY <1>2, <1>3 DEF WellFormed
  <2>2. t.dims \in Seq(Nat)
      BY <2>1 DEF WellFormedTensor
  <2>3. axis \in DOMAIN t.dims => t.dims[axis] \in Nat
    <3> HIDE DEF t, axis
    <3> QED BY <2>2
  <2> HIDE DEF t, axis
  <2> QED BY <2>1, <2>3, KeepBound
<1>4. w # NoName => WellFormed(slim)
  <2> HIDE DEF kept, t, axis, w
  <2> QED BY <1>3, Slimmed, WithInitKeeps
<1>5. ASSUME w # NoName, bias \in DOMAIN g.inits, g.inits[bias].dims[1] = t.dims[axis]
      PROVE WellFormed(both)
  <2>1. WellFormedTensor(g.inits[bias]) /\ g.inits[bias].dims \in Seq(Nat)
      BY <1>5 DEF WellFormed, WellFormedTensor
  <2>2. 1 \in DOMAIN g.inits[bias].dims => kept \in Nat
    <3>1. 1 \in DOMAIN g.inits[bias].dims => g.inits[bias].dims[1] \in Nat
      <4> HIDE DEF bias
      <4> QED BY <2>1
    <3> HIDE DEF t, axis, bias
    <3> QED BY <1>5, <3>1, KeepBound
  <2> HIDE DEF kept, t, axis, w, slim, bias
  <2> QED BY <1>4, <1>5, <2>1, <2>2, Slimmed, WithInitKeeps
<1> HIDE DEF slim, both, w, bias
<1> QED BY <1>1, <1>4, <1>5

\* Changing a node's outputs, or its inputs to a list that is no shorter.
LEMMA OutputRenamed ==
    ASSUME NEW n, NEW x, WellFormedNode(n)
    PROVE  WellFormedNode([n EXCEPT !.out[1] = x])
<1> DEFINE m == [n EXCEPT !.out[1] = x]
<1>1. DOMAIN m = DOMAIN n /\ m.in = n.in /\ m.attr = n.attr /\ m.op = n.op
    BY DEF WellFormedNode
<1> HIDE DEF m
<1>2. WellFormedNode(m)
    BY <1>1 DEF WellFormedNode
<1> QED BY <1>2 DEF m

LEMMA LowRankKeeps ==
    ASSUME NEW g, NEW a, WellFormed(g), a.arg \in Nat
    PROVE  WellFormed(LowRank(g, a))
<1> DEFINE i == FindNode(g, a.name)
           n == g.nodes[i]
           w == Weight(g, n)
           t == g.inits[w]
           r == Min({a.arg, t.dims[1], t.dims[2]})
           v == Append(w, "svd_v")
           mid == Append(n.out[1], "svd_mid")
           Factor(y) == Tagged([t EXCEPT !.dims[IF y = w THEN 2 ELSE 1] = r], "svd")
           factors == [y \in {w, v} |-> Factor(y)]
           h == WithInits(g, factors)
           halved == [h EXCEPT !.nodes[i].out[1] = mid]
           second == NewNode(Append(a.name, "svd_v"), "MatMul", <<mid, v>>, <<n.out[1]>>)
           done == [halved EXCEPT !.nodes = InsertAt(@, i + 1, second)]
<1>1. \/ LowRank(g, a) = g
      \/ i # 0 /\ w # NoName /\ Len(t.dims) = 2 /\ LowRank(g, a) = done
    BY DEF LowRank
<1>2. ASSUME i # 0, w # NoName, Len(t.dims) = 2 PROVE WellFormed(done)
  <2>1. w \in DOMAIN g.inits
      BY <1>2 DEF Weight
  <2>2. WellFormedTensor(t) /\ t.dims \in Seq(Nat)
      BY <2>1 DEF WellFormed, WellFormedTensor
  <2>3. r \in Nat
    <3>1. t.dims[1] \in Nat /\ t.dims[2] \in Nat
      <4> HIDE DEF t
      <4> QED BY <1>2, <2>2
    <3> DEFINE R == {a.arg, t.dims[1], t.dims[2]}
    <3>2. R \in SUBSET Nat /\ R # {}
      <4> HIDE DEF t
      <4> QED BY <3>1
    <3> HIDE DEF R
    <3>3. \E k \in R : \A m \in R : k <= m
        BY <3>2, Least
    <3>4. Min(R) \in Nat
        BY <3>2, <3>3 DEF Min
    <3> QED BY <3>4 DEF R
  <2>4. \A y : WellFormedTensor(Factor(y))
    <3> HIDE DEF t, r
    <3> QED BY <2>2, <2>3, Slimmed
  <2>5. IsFiniteSet(DOMAIN factors) /\ \A y \in DOMAIN factors : WellFormedTensor(factors[y])
    <3>1. DOMAIN factors = {w} \cup {v}
        OBVIOUS
    <3>2. IsFiniteSet({w} \cup {v})
      <4> HIDE DEF w, v
      <4> QED BY FS_Singleton, FS_AddElement
    <3> HIDE DEF Factor, w, v
    <3> QED BY <2>4, <3>1, <3>2
  <2>6. WellFormed(h) /\ h.nodes = g.nodes
    <3> HIDE DEF factors
    <3> QED BY <2>5, WithInitsKeeps
  <2>7. i \in DOMAIN g.nodes
      BY <1>2, FindsNode
  <2> DEFINE m == [n EXCEPT !.out[1] = mid]
             first == [g.nodes EXCEPT ![i] = m]
             all == InsertAt(first, i + 1, second)
  <2>8. WellFormedNode(n) /\ WellFormedNode(m)
    <3>1. WellFormedNode(n)
        BY <2>7, NodeAt
    <3> HIDE DEF n, mid
    <3> QED BY <3>1, OutputRenamed
  <2>9. WellFormedNode(second)
    <3> HIDE DEF mid, v
    <3>1. <<mid, v>> \in Seq({mid, v})
        OBVIOUS
    <3> QED BY <3>1, ListOf, NewNodeFine
  <2>10. IsList(first) /\ \A k \in ToSet(first) : WellFormedNode(k)
    <3> HIDE DEF m, i
    <3> QED BY <2>8, NodeReplaced
  <2>11. i \in 1 .. Len(first) /\ Len(first) \in Nat
    <3>1. DOMAIN first = DOMAIN g.nodes
        OBVIOUS
    <3> HIDE DEF first
    <3> QED BY <2>7, <2>10, <3>1, ListFacts
  <2>12. IsList(all) /\ \A k \in ToSet(all) : WellFormedNode(k)
    <3> HIDE DEF first, second, i
    <3> QED BY <2>9, <2>10, <2>11, InsertedList
  <2>13. done = [h EXCEPT !.nodes = all]
    <3>1. halved = [h EXCEPT !.nodes = first]
        BY <2>6
    <3>2. halved.nodes = first
        BY <2>6, <3>1 DEF WellFormed
    <3> HIDE DEF first, second, halved, i
    <3>3. done = [halved EXCEPT !.nodes = all]
        BY <3>2
    <3> HIDE DEF all, h
    <3> QED BY <3>1, <3>3
  <2> HIDE DEF done, h, all
  <2> QED BY <2>6, <2>12, <2>13, NodesReplaced
<1> HIDE DEF done, i, w, t
<1> QED BY <1>1, <1>2

\* A producer that takes over a normalization: a bias more, perhaps, and its output.
LEMMA Producing ==
    ASSUME NEW n, NEW in, NEW x, WellFormedNode(n), n.op # "BatchNormalization", IsList(in)
    PROVE  WellFormedNode([n EXCEPT !.in = in, !.out[1] = x])
<1> DEFINE m == [n EXCEPT !.in = in, !.out[1] = x]
<1>1. DOMAIN m = DOMAIN n /\ m.in = in /\ m.attr = n.attr /\ m.op = n.op
    BY DEF WellFormedNode
<1> HIDE DEF m
<1>2. WellFormedNode(m)
    BY <1>1 DEF WellFormedNode
<1> QED BY <1>2 DEF m

LEMMA AppendedList == ASSUME NEW s, NEW x, IsList(s) PROVE IsList(Append(s, x))
<1> DEFINE T == ToSet(s) \cup {x}
<1>1. s \in Seq(T) /\ x \in T
    BY DEF IsList
<1>2. Append(s, x) \in Seq(T)
  <2> HIDE DEF T
  <2> QED BY <1>1
<1> QED BY <1>2, ListOf

LEMMA WrittenBy ==
    ASSUME NEW g, NEW x, WellFormed(g), Writer(g, x) # 0
    PROVE  Writer(g, x) \in DOMAIN g.nodes
<1> DEFINE I == {i \in 1 .. Len(g.nodes) : Contains(g.nodes[i].out, x)}
<1>1. Writer(g, x) = IF I # {} THEN Min(I) ELSE 0
    BY DEF Writer, SelectInSeq
<1>2. IsList(g.nodes) /\ I \subseteq 1 .. Len(g.nodes)
    BY DEF WellFormed
<1> HIDE DEF I
<1> QED BY <1>1, <1>2, Found

LEMMA FuseKeeps ==
    ASSUME NEW g, NEW a, WellFormed(g)
    PROVE  WellFormed(FuseBatchNorm(g, a))
<1> DEFINE b == FindNode(g, a.name)
           bn == g.nodes[b]
           p == Writer(g, bn.in[1])
           prev == g.nodes[p]
           w == Weight(g, prev)
           bias == IF Len(prev.in) > 2 THEN prev.in[3] ELSE Append(prev.name, "fused_bias")
           biases == IF Len(prev.in) <= 2 \/ bias \in DOMAIN g.inits THEN {bias} ELSE {}
           fresh == [dtype |-> "f32", dims |-> g.inits[bn.in[2]].dims, tags |-> {"bn"}]
           folded == [y \in {w} \cup biases |->
                         IF y = bias /\ Len(prev.in) <= 2 THEN fresh
                         ELSE Tagged(g.inits[y], "bn")]
           h == WithInits(g, folded)
           heir == [prev EXCEPT !.in = IF Len(@) > 2 THEN @ ELSE Append(@, bias),
                                !.out[1] = bn.out[1]]
           fused == [h EXCEPT !.nodes[p] = heir]
           done == [fused EXCEPT !.nodes = RemoveAt(@, b)]
           Fusable == /\ b # 0 /\ bn.op = "BatchNormalization" /\ p # 0
                      /\ prev.op \in {"Conv", "Gemm"} /\ w # NoName
                      /\ ToSet(Tail(bn.in)) \subseteq DOMAIN g.inits
<1>1. \/ FuseBatchNorm(g, a) = g \/ FuseBatchNorm(g, a) = [g EXCEPT !.err = TRUE]
      \/ Fusable /\ FuseBatchNorm(g, a) = done
    BY DEF FuseBatchNorm
<1>2. ASSUME Fusable PROVE WellFormed(done)
  <2>1. b \in DOMAIN g.nodes /\ p \in DOMAIN g.nodes
      BY <1>2, FindsNode, WrittenBy
  <2>2. WellFormedNode(bn) /\ WellFormedNode(prev)
      BY <2>1, NodeAt
  <2>3. w \in DOMAIN g.inits
      BY <1>2 DEF Weight
  <2>4. bn.in[2] \in DOMAIN g.inits
    <3>1. IsList(bn.in) /\ Len(bn.in) >= 2
        BY <1>2, <2>2 DEF WellFormedNode
    <3>2. ToSet(Tail(bn.in)) \subseteq DOMAIN g.inits
        BY <1>2
    <3> DEFINE in == bn.in
    <3>3. in \in Seq(ToSet(in)) /\ Len(in) >= 2
        BY <3>1 DEF IsList
    <3> HIDE DEF in
    <3>4. 1 \in DOMAIN Tail(in) /\ Tail(in)[1] = in[2]
        BY <3>3
    <3>5. in[2] \in ToSet(Tail(in))
        BY <3>4 DEF ToSet
    <3> QED BY <3>2, <3>5 DEF in
  <2>5. \A y \in {w} \cup biases : WellFormedTensor(folded[y])
    <3>1. WellFormedTensor(fresh)
      <4>1. g.inits[bn.in[2]].dims \in Seq(Nat)
          BY <2>4 DEF WellFormed, WellFormedTensor
      <4> DEFINE e == g.inits[bn.in[2]].dims
      <4> HIDE DEF e
      <4>2. WellFormedTensor([dtype |-> "f32", dims |-> e, tags |-> {"bn"}])
          BY <4>1 DEF WellFormedTensor, Width, e
      <4> QED BY <4>2 DEF e
    <3>2. ASSUME NEW y \in {w} \cup biases, ~(y = bias /\ Len(prev.in) <= 2)
          PROVE  y \in DOMAIN g.inits
      <4> HIDE DEF w, bias, prev
      <4> QED BY <2>3, <3>2
    <3>3. \A y \in DOMAIN g.inits : WellFormedTensor(Tagged(g.inits[y], "bn"))
        BY TaggedKeeps DEF WellFormed
    <3> HIDE DEF w, biases, bias, fresh, prev
    <3> QED BY <3>1, <3>2, <3>3
  <2>6. IsFiniteSet({w} \cup biases)
    <3>1. IsFiniteSet({}) /\ \A y, z : IsFiniteSet({y}) /\ IsFiniteSet({y} \cup {z})
        BY FS_Singleton, FS_AddElement, FS_EmptySet
    <3>2. biases = {bias} \/ biases = {}
        OBVIOUS
    <3> HIDE DEF w, biases, bias
    <3> QED BY <3>1, <3>2, FS_Union
  <2>7. WellFormed(h) /\ h.nodes = g.nodes
    <3>1. DOMAIN folded = {w} \cup biases
        OBVIOUS
    <3> HIDE DEF folded, w, biases
    <3> QED BY <2>5, <2>6, <3>1, WithInitsKeeps
  <2> DEFINE first == [g.nodes EXCEPT ![p] = heir]
             all == RemoveAt(first, b)
  <2>8. WellFormedNode(heir)
    <3> DEFINE in == IF Len(prev.in) > 2 THEN prev.in ELSE Append(prev.in, bias)
    <3>1. IsList(prev.in) /\ prev.op # "BatchNormalization"
        BY <1>2, <2>2 DEF WellFormedNode
    <3>2. IsList(in)
      <4> HIDE DEF prev, bias
      <4> QED BY <3>1, AppendedList
    <3>3. heir = [prev EXCEPT !.in = in, !.out[1] = bn.out[1]]
      <4> HIDE DEF prev, bias, bn
      <4> QED OBVIOUS
    <3> HIDE DEF prev, bn, in, heir
    <3> QED BY <2>2, <3>1, <3>2, <3>3, Producing
  <2>9. IsList(first) /\ \A k \in ToSet(first) : WellFormedNode(k)
    <3> HIDE DEF heir, p
    <3> QED BY <2>8, NodeReplaced
  <2>10. b \in 1 .. Len(first)
    <3>1. DOMAIN first = DOMAIN g.nodes
        OBVIOUS
    <3> HIDE DEF first, b
    <3> QED BY <2>1, <2>9, <3>1, ListFacts
  <2>11. IsList(all) /\ \A k \in ToSet(all) : WellFormedNode(k)
    <3> HIDE DEF first, b
    <3> QED BY <2>9, <2>10, ShortenedList
  <2>12. done = [h EXCEPT !.nodes = all]
    <3> HIDE DEF heir, h, p, b
    <3>1. fused = [h EXCEPT !.nodes = first]
        BY <2>7
    <3>2. fused.nodes = first
        BY <2>7, <3>1 DEF WellFormed
    <3> HIDE DEF first, fused
    <3>3. done = [fused EXCEPT !.nodes = all]
        BY <3>2
    <3> HIDE DEF all
    <3> QED BY <3>1, <3>3
  <2> HIDE DEF done, h, all
  <2> QED BY <2>7, <2>11, <2>12, NodesReplaced
<1> HIDE DEF done, Fusable
<1>3. WellFormed([g EXCEPT !.err = TRUE])
    BY FlagsKeep
<1> QED BY <1>1, <1>2, <1>3

\* The handlers of ai.onnx.ml nodes change one attribute or another.
LEMMA FindsByType ==
    ASSUME NEW g, NEW a, WellFormed(g), FindNodeByType(g, a) # 0
    PROVE  FindNodeByType(g, a) \in DOMAIN g.nodes
<1> DEFINE I == {i \in 1 .. Len(g.nodes) : g.nodes[i].op = a.op}
           j == IF I # {} THEN Min(I) ELSE 0
<1>1. FindNodeByType(g, a) = IF FindNode(g, a.name) > 0 THEN FindNode(g, a.name) ELSE j
    BY DEF FindNodeByType, SelectInSeq
<1>2. IsList(g.nodes) /\ I \subseteq 1 .. Len(g.nodes)
    BY DEF WellFormed
<1>3. j # 0 => j \in DOMAIN g.nodes
  <2> HIDE DEF I
  <2> QED BY <1>2, Found
<1>4. DOMAIN g.nodes \in SUBSET Nat
    BY <1>2, ListFacts
<1> HIDE DEF j
<1>5. CASE FindNode(g, a.name) > 0
    BY <1>1, <1>5, FindsNode
<1>6. CASE ~(FindNode(g, a.name) > 0)
    BY <1>1, <1>3, <1>6
<1> QED BY <1>5, <1>6

HasLists(at) == \A f \in {"nodes", "target", "cls", "coefs"} : f \in DOMAIN at /\ IsList(at[f])

LEMMA MlAttrLists ==
    ASSUME NEW g, NEW a, WellFormed(g), MlAttr(g, a) # <<>>
    PROVE  HasLists(MlAttr(g, a))
<1> DEFINE i == FindNodeByType(g, a)
<1>1. i # 0 /\ MlAttr(g, a) = g.nodes[i].attr
    BY DEF MlAttr
<1>2. WellFormedNode(g.nodes[i])
    BY <1>1, FindsByType, NodeAt
<1> QED BY <1>1, <1>2 DEF WellFormedNode, WellFormedAttr, HasLists

LEMMA WithAttrKeeps ==
    ASSUME NEW g, NEW a, NEW at, WellFormed(g), MlAttr(g, a) # <<>> => HasLists(at)
    PROVE  WellFormed(WithAttr(g, a, at))
<1> DEFINE i == FindNodeByType(g, a)
           n == g.nodes[i]
           m == [n EXCEPT !.attr = at]
           ns == [g.nodes EXCEPT ![i] = m]
<1>1. CASE MlAttr(g, a) = <<>>
    BY <1>1 DEF WithAttr
<1>2. CASE MlAttr(g, a) # <<>>
  <2>1. i \in DOMAIN g.nodes
      BY <1>2, FindsByType DEF MlAttr
  <2>2. WellFormedNode(m)
    <3>1. WellFormedNode(n)
        BY <2>1, NodeAt
    <3> HIDE DEF n
    <3>2. DOMAIN m = DOMAIN n /\ m.in = n.in /\ m.attr = at /\ m.op = n.op
        BY <3>1 DEF WellFormedNode
    <3> HIDE DEF m
    <3> QED BY <1>2, <3>1, <3>2 DEF WellFormedNode, WellFormedAttr, HasLists
  <2>3. IsList(ns) /\ \A k \in ToSet(ns) : WellFormedNode(k)
    <3> HIDE DEF m, i
    <3> QED BY <2>2, NodeReplaced
  <2>4. WithAttr(g, a, at) = [g EXCEPT !.nodes = ns]
    <3>1. WithAttr(g, a, at) = [g EXCEPT !.nodes[i].attr = at]
        BY <1>2 DEF WithAttr
    <3> HIDE DEF i
    <3> QED BY <3>1
  <2> HIDE DEF ns
  <2> QED BY <2>3, <2>4, NodesReplaced
<1> QED BY <1>1, <1>2

LEMMA MappedList ==
    ASSUME NEW s, IsList(s), NEW u, u = [k \in DOMAIN s |-> u[k]]
    PROVE  IsList(u)
<1>1. Len(s) \in Nat /\ DOMAIN s = 1 .. Len(s)
    BY ListFacts
<1> QED BY <1>1, ListOfItems

LEMMA SelectedList ==
    ASSUME NEW s, IsList(s), NEW S \in SUBSET DOMAIN s
    PROVE  IsList(MembersAt(s, S))
<1>1. Len(s) \in Nat /\ DOMAIN s = 1 .. Len(s)
    BY ListFacts
<1>2. S \in SUBSET Int /\ IsFiniteSet(S)
    BY <1>1, PlacesFinite
<1>3. Cardinality(S) \in Nat
    BY <1>2, FS_CardinalityType
<1> DEFINE u == MembersAt(s, S)
<1>4. u = [k \in 1 .. Cardinality(S) |-> u[k]]
    BY DEF MembersAt
<1> HIDE DEF u
<1>5. IsList(u)
    BY <1>3, <1>4, ListOfItems
<1> QED BY <1>5 DEF u

LEMMA PruneTreesKeeps ==
    ASSUME NEW g, NEW a, WellFormed(g)
    PROVE  WellFormed(PruneTrees(g, a))
<1> DEFINE at == MlAttr(g, a)
           ids == {at.nodes[k].tree : k \in DOMAIN at.nodes}
           nKeep == Keep(Cardinality(ids), a.arg)
           kept == {t \in ids : Cardinality({u \in ids : u < t}) < nKeep}
           InKept(es) == MembersAt(es, {k \in DOMAIN es : es[k].tree \in kept})
<1>1. PruneTrees(g, a) = g \/ PruneTrees(g, a) = WithAttr(g, a, FilterTrees(at, kept))
    BY DEF PruneTrees
<1>2. ASSUME at # <<>> PROVE HasLists(FilterTrees(at, kept))
  <2>1. HasLists(at)
      BY <1>2, MlAttrLists
  <2> HIDE DEF at, kept
  <2>2. \A es : IsList(es) => IsList(InKept(es))
      BY SelectedList
  <2>3. FilterTrees(at, kept) =
          [at EXCEPT !.nodes = InKept(@), !.target = InKept(@), !.cls = InKept(@)]
      BY DEF FilterTrees
  <2> HIDE DEF InKept
  <2> QED BY <2>1, <2>2, <2>3 DEF HasLists
<1> HIDE DEF kept
<1> QED BY <1>1, <1>2, WithAttrKeeps

\* The handlers of trees and linear models.
LEMMA LimitKeeps ==
    ASSUME NEW g, NEW a, WellFormed(g)
    PROVE  WellFormed(LimitDepth(g, a))
<1> DEFINE at == MlAttr(g, a)
           cut == [k \in DOMAIN at.nodes |->
                    IF Depth(at, k) >= a.arg THEN [at.nodes[k] EXCEPT !.mode = "LEAF"]
                    ELSE at.nodes[k]]
<1>1. \/ LimitDepth(g, a) = [g EXCEPT !.hung = TRUE]
      \/ LimitDepth(g, a) = WithAttr(g, a, [at EXCEPT !.nodes = cut])
    BY DEF LimitDepth
<1>2. ASSUME at # <<>> PROVE HasLists([at EXCEPT !.nodes = cut])
  <2>1. HasLists(at)
      BY <1>2, MlAttrLists
  <2>2. IsList(cut)
    <3> HIDE DEF at
    <3>1. cut = [k \in DOMAIN at.nodes |-> cut[k]] /\ IsList(at.nodes)
        BY <2>1 DEF HasLists
    <3> HIDE DEF cut
    <3> QED BY <3>1, MappedList
  <2> HIDE DEF at, cut
  <2> QED BY <2>1, <2>2 DEF HasLists
<1> HIDE DEF cut
<1>3. WellFormed(WithAttr(g, a, [at EXCEPT !.nodes = cut]))
    BY <1>2, WithAttrKeeps
<1>4. WellFormed([g EXCEPT !.hung = TRUE])
    BY FlagsKeep
<1> QED BY <1>1, <1>3, <1>4

LEMMA MergeKeeps ==
    ASSUME NEW g, NEW a, WellFormed(g)
    PROVE  WellFormed(MergeLeaves(g, a))
<1> DEFINE at == MlAttr(g, a)
<1>1. PICK u : /\ u = [k \in DOMAIN at.target |-> u[k]]
               /\ MergeLeaves(g, a) = WithAttr(g, a, [at EXCEPT !.target = u])
    BY DEF MergeLeaves
<1>2. ASSUME at # <<>> PROVE HasLists([at EXCEPT !.target = u])
  <2>1. HasLists(at)
      BY <1>2, MlAttrLists
  <2>2. IsList(u)
      BY <1>1, <2>1, MappedList DEF HasLists
  <2> HIDE DEF at
  <2> QED BY <2>1, <2>2 DEF HasLists
<1> QED BY <1>1, <1>2, WithAttrKeeps

LEMMA RoundKeeps ==
    ASSUME NEW g, NEW a, WellFormed(g)
    PROVE  WellFormed(RoundLeaves(g, a)) /\ WellFormed(RoundCoefficients(g, a))
<1> DEFINE at == MlAttr(g, a)
           Rounded(v) == [at EXCEPT !.rounded = @ \cup {v}]
<1>1. \A v : at # <<>> => HasLists(Rounded(v))
  <2> SUFFICES ASSUME NEW v, at # <<>> PROVE HasLists(Rounded(v))
      OBVIOUS
  <2>1. HasLists(at)
      BY MlAttrLists
  <2> HIDE DEF at
  <2> QED BY <2>1 DEF HasLists
<1>2. /\ RoundLeaves(g, a) = WithAttr(g, a, Rounded("leaves"))
      /\ RoundCoefficients(g, a) \in {g, WithAttr(g, a, Rounded("coefs"))}
    BY DEF RoundLeaves, RoundCoefficients
<1> HIDE DEF Rounded
<1>3. \A v : WellFormed(WithAttr(g, a, Rounded(v)))
    BY <1>1, WithAttrKeeps
<1> QED BY <1>2, <1>3

LEMMA ZeroKeeps ==
    ASSUME NEW g, NEW a, WellFormed(g)
    PROVE  WellFormed(ZeroSmall(g, a))
<1> DEFINE at == MlAttr(g, a)
<1>1. CASE a.arg <= 0
    BY <1>1 DEF ZeroSmall
<1>2. CASE ~(a.arg <= 0)
  <2>1. PICK u : /\ u = [k \in DOMAIN at.coefs |-> u[k]]
                 /\ ZeroSmall(g, a) = WithAttr(g, a, [at EXCEPT !.coefs = u])
      BY <1>2 DEF ZeroSmall
  <2>2. ASSUME at # <<>> PROVE HasLists([at EXCEPT !.coefs = u])
    <3>1. HasLists(at)
        BY <2>2, MlAttrLists
    <3>2. IsList(u)
        BY <2>1, <3>1, MappedList DEF HasLists
    <3> HIDE DEF at
    <3> QED BY <3>1, <3>2 DEF HasLists
  <2> QED BY <2>1, <2>2, WithAttrKeeps
<1> QED BY <1>1, <1>2

\* Whatever a handler does, the result is an ONNX graph.
LEMMA HandleKeeps ==
    ASSUME NEW g, NEW a, WellFormed(g), WellFormedAction(a)
    PROVE  WellFormed(Handle(g, a))
<1>1. CASE a.kind \in {"channel_pruning", "low_rank_svd"}
  <2>1. a.arg \in Nat
      BY <1>1 DEF WellFormedAction
  <2>2. Handle(g, a) \in {g, PruneChannels(g, a), LowRank(g, a)}
      BY <1>1 DEF Handle
  <2> QED BY <2>1, <2>2, PruneKeeps, LowRankKeeps
<1>2. CASE a.kind \notin {"channel_pruning", "low_rank_svd"}
  <2>1. Handle(g, a) \in {g, QuantizeWeights(g, a), FuseBatchNorm(g, a), RoundCoefficients(g, a),
                          RoundLeaves(g, a), PruneTrees(g, a), MergeLeaves(g, a),
                          LimitDepth(g, a), ZeroSmall(g, a)}
      BY <1>2 DEF Handle
  <2> QED BY <2>1, QuantizeKeeps, FuseKeeps, RoundKeeps, PruneTreesKeeps, MergeKeeps, LimitKeeps,
             ZeroKeeps
<1> QED BY <1>1, <1>2
-----------------------------------------------------------------------------
(* A whole pass.                                                            *)

LEMMA StartKeeps ==
    ASSUME NEW g, NEW actions, WellFormed(g)
    PROVE  WellFormed(Start(g, actions))
<1>1. PICK v, flags : /\ DOMAIN flags = {"conv", "noint8", "err", "hung"}
                      /\ Start(g, actions) = Overlaid([g EXCEPT !.opset = v], flags)
  <2> DEFINE wants == \E k \in DOMAIN actions :
                /\ actions[k].kind \in {"quantization", "param_quantization",
                                        "embedding_quantization"}
                /\ actions[k].arg \in {INT8, INT4}
             old == wants /\ g.opset < 10
             flags == [conv |-> {}, noint8 |-> old /\ ~g.conv13, err |-> FALSE, hung |-> FALSE]
             v == IF old /\ g.conv13 THEN 13 ELSE g.opset
  <2>1. Start(g, actions) = Overlaid([g EXCEPT !.opset = v], flags)
      BY DEF Start
  <2>2. DOMAIN flags = {"conv", "noint8", "err", "hung"}
      OBVIOUS
  <2> HIDE DEF flags, v
  <2> QED BY <2>1, <2>2
<1> DEFINE h == [g EXCEPT !.opset = v]
<1>2. Shaped(h, g.nodes, g.inits)
    BY DEF Shaped, WellFormed
<1> HIDE DEF h
<1>3. Shaped(Overlaid(h, flags), g.nodes, g.inits)
    BY <1>1, <1>2 DEF Shaped, Overlaid
<1> QED BY <1>1, <1>3, Reshaped DEF h

\* The actions of a pass: a list of well-formed ones.
ActionList(s) == IsList(s) /\ \A a \in ToSet(s) : WellFormedAction(a)

\* The actions sorted by phase are the actions asked for.
LEMMA OrderedList ==
    ASSUME NEW actions, ActionList(actions)
    PROVE  ActionList(Ordered(actions)) /\ ToSet(Ordered(actions)) \subseteq ToSet(actions)
<1> DEFINE Of(p) == MembersAt(actions, {k \in DOMAIN actions : actions[k].kind \in Phases[p]})
           Some(s) == ActionList(s) /\ ToSet(s) \subseteq ToSet(actions)
<1>1. ASSUME NEW p PROVE Some(Of(p))
  <2> DEFINE S == {k \in DOMAIN actions : actions[k].kind \in Phases[p]}
  <2>1. S \in SUBSET DOMAIN actions
      OBVIOUS
  <2>2. Len(actions) \in Nat /\ DOMAIN actions = 1 .. Len(actions)
      BY ListFacts DEF ActionList
  <2>3. S \in SUBSET Int /\ IsFiniteSet(S)
    <3> HIDE DEF S
    <3> QED BY <2>1, <2>2, PlacesFinite
  <2> HIDE DEF S
  <2>4. IsList(MembersAt(actions, S))
      BY <2>1, SelectedList DEF ActionList
  <2>5. ToSet(MembersAt(actions, S)) \subseteq ToSet(actions)
    <3>1. ToSet(MembersAt(actions, S)) = {actions[k] : k \in S}
        BY <2>3, MembersIs
    <3> QED BY <2>1, <3>1 DEF ToSet
  <2>6. Some(MembersAt(actions, S))
      BY <2>4, <2>5 DEF ActionList
  <2> QED BY <2>6 DEF S
<1>2. Ordered(actions) = Of(1) \o Of(2) \o Of(3) \o Of(4)
    BY DEF Ordered
<1> HIDE DEF Of
<1>3. ASSUME NEW s, NEW t, Some(s), Some(t) PROVE Some(s \o t)
    BY <1>3, ConcatList DEF ActionList
<1> HIDE DEF Some
<1>4. Some(Of(1) \o Of(2))
    BY <1>1, <1>3
<1>5. Some(Of(1) \o Of(2) \o Of(3))
    BY <1>1, <1>3, <1>4
<1>6. Some(Ordered(actions))
    BY <1>1, <1>2, <1>3, <1>5
<1> QED BY <1>6 DEF Some

HandleOne(c, g, a) == Handle(g, a)
Pass == INSTANCE Folding WITH Op <- HandleOne, Good <- StillFormed

\* ONNXTransformer.apply makes a well-formed graph of a well-formed graph: whatever the
\* actions and whichever handlers skip, convert or fail, no node loses its lists of inputs
\* and attributes, and no tensor its element type or its shape.
THEOREM ApplyKeeps ==
    ASSUME NEW g, NEW actions, WellFormed(g), ActionList(actions)
    PROVE  WellFormed(Apply(g, actions))
<1> DEFINE s == Ordered(actions)
           h == Start(g, actions)
<1>1. WellFormed(h) /\ ActionList(s)
    BY StartKeeps, OrderedList
<1>2. Apply(g, actions) = FoldLeft(Handle, h, s)
    BY DEF Apply
<1> HIDE DEF s, h
<1>3. FoldLeft(Handle, h, s) = Pass!Folded(0, h, s)
    BY DEF Pass!Folded, FoldLeft, MapThenFoldSet, HandleOne, Max,
           Pass!FoldLeft, Pass!MapThenFoldSet, Pass!Max
<1>4. Len(s) \in Nat /\ DOMAIN s = 1 .. Len(s) /\ \A k \in 1 .. Len(s) : s[k] \in ToSet(s)
    BY <1>1, ListFacts DEF ActionList
<1>5. Pass!KeptBy(0, s)
  <2>1. \A k \in DOMAIN s : WellFormedAction(s[k])
      BY <1>1, <1>4 DEF ActionList
  <2> QED BY <2>1, HandleKeeps DEF Pass!KeptBy, StillFormed, HandleOne
<1>6. StillFormed(0, Pass!Folded(0, h, s))
    BY <1>1, <1>4, <1>5, Pass!FoldKeeps DEF StillFormed
<1> QED BY <1>2, <1>3, <1>6 DEF StillFormed
-----------------------------------------------------------------------------
(* Sizes.                                                                   *)

Times(c, u, d) == u * d
IsNat(c, u) == u \in Nat
Product == INSTANCE Folding WITH Op <- Times, Good <- IsNat

\* A tensor has a number of bytes: the product of its dimensions is a number.
LEMMA BytesNat ==
    ASSUME NEW t, WellFormedTensor(t)
    PROVE  Bytes(t) \in Nat
<1>1. Size(t) = Product!Folded(0, 1, t.dims)
    BY DEF Size, Product!Folded, FoldLeft, MapThenFoldSet, Times, Max,
           Product!FoldLeft, Product!MapThenFoldSet, Product!Max
<1>2. t.dims \in Seq(Nat)
    BY DEF WellFormedTensor
<1>3. Len(t.dims) \in Nat /\ DOMAIN t.dims = 1 .. Len(t.dims)
      /\ \A k \in DOMAIN t.dims : t.dims[k] \in Nat
    BY <1>2
<1>4. Product!KeptBy(0, t.dims)
    BY <1>3 DEF Product!KeptBy, IsNat, Times
<1>5. IsNat(0, Product!Folded(0, 1, t.dims))
    BY <1>3, <1>4, Product!FoldKeeps DEF IsNat
<1>6. Width[t.dtype] \in Nat
    BY DEF Width, WellFormedTensor
<1> QED BY <1>1, <1>5, <1>6 DEF IsNat, Bytes

\* The size of a graph is a number of bytes.
LEMMA ByteSizeNat ==
    ASSUME NEW g, WellFormed(g)
    PROVE  ByteSize(g) \in Nat
<1> DEFINE weights == [x \in DOMAIN g.inits |-> Bytes(g.inits[x])]
           rest == [i \in Nodes(g) |-> NodeBytes + AttrBytes(g.nodes[i].attr)]
<1>1. SumFunction(weights) \in Nat
  <2>1. IsFiniteSet(DOMAIN weights) /\ \A x \in DOMAIN weights : weights[x] \in Nat
      BY BytesNat DEF WellFormed
  <2> HIDE DEF weights
  <2> QED BY <2>1, SumNat
<1>2. ASSUME NEW at, WellFormedAttr(at) PROVE AttrBytes(at) \in Nat
  <2>1. CASE at = <<>>
      BY <2>1 DEF AttrBytes
  <2>2. CASE at # <<>>
    <3>1. IsList(at.nodes) /\ IsList(at.target) /\ IsList(at.cls) /\ IsList(at.coefs)
        BY <1>2, <2>2 DEF WellFormedAttr
    <3>2. Len(at.nodes) \in Nat /\ Len(at.target) \in Nat /\ Len(at.cls) \in Nat
          /\ Len(at.coefs) \in Nat
        BY <3>1, ListFacts
    <3> DEFINE i == Len(at.nodes)
               j == Len(at.target)
               k == Len(at.cls)
               l == Len(at.coefs)
    <3>3. AttrBytes(at) = 4 * (i + j + k + l)
        BY <2>2 DEF AttrBytes
    <3> HIDE DEF i, j, k, l
    <3>4. i \in Nat /\ j \in Nat /\ k \in Nat /\ l \in Nat
        BY <3>2 DEF i, j, k, l
    <3>5. 4 * (i + j + k + l) \in Nat
        BY <3>4
    <3> QED BY <3>3, <3>5
  <2> QED BY <2>1, <2>2
<1>3. SumFunction(rest) \in Nat
  <2>1. IsList(g.nodes)
      BY DEF WellFormed
  <2>2. Len(g.nodes) \in Nat /\ DOMAIN g.nodes = 1 .. Len(g.nodes)
      BY <2>1, ListFacts
  <2>3. IsFiniteSet(DOMAIN rest)
      BY <2>2, FS_Interval DEF Nodes
  <2>4. \A i \in DOMAIN g.nodes : AttrBytes(g.nodes[i].attr) \in Nat
      BY <1>2, NodeAt DEF WellFormedNode
  <2>5. \A i \in DOMAIN rest : rest[i] \in Nat
      BY <2>4 DEF Nodes, NodeBytes
  <2> HIDE DEF rest
  <2> QED BY <2>3, <2>5, SumNat
<1>4. ByteSize(g) = SumFunction(weights) + SumFunction(rest)
    BY DEF ByteSize, InitializerBytes
<1> HIDE DEF weights, rest
<1> QED BY <1>1, <1>3, <1>4
-----------------------------------------------------------------------------
(* The quality score.                                                       *)

Percent == 0 .. 100

\* A weight scores nothing, nearly everything or everything.
LEMMA ScoreFacts ==
    ASSUME NEW g, NEW c, NEW x
    PROVE  /\ WeightScore(g, c, x) \in Nat /\ WeightScore(g, c, x) <= 100
           /\ AttrScore(g, c, x) \in Nat /\ AttrScore(g, c, x) <= 100
<1>1. WeightScore(g, c, x) \in {0, Near, 100}
    BY DEF WeightScore
<1>2. AttrScore(g, c, x) \in {0, Near, 100}
    BY DEF AttrScore
<1> QED BY <1>1, <1>2 DEF Near

\* The weights' fidelity is a percentage: a mean of scores up to 100.
LEMMA FidelityBound ==
    ASSUME NEW g, NEW c, WellFormed(g)
    PROVE  WeightFidelity(g, c) \in Percent
<1> DEFINE W == DOMAIN g.inits
           K == AttrKeys(g)
           fw == [x \in W |-> WeightScore(g, c, x)]
           fk == [k \in K |-> AttrScore(g, c, k)]
           total == SumFunction(fw) + SumFunction(fk)
           n == Cardinality(W) + Cardinality(K)
<1>1. IsFiniteSet(W)
    BY DEF WellFormed
<1>2. IsFiniteSet(K)
  <2> DEFINE key == [m \in ToSet(g.nodes) |-> IF m.name # NoName THEN m.name ELSE <<m.op>>]
             T == {m \in ToSet(g.nodes) : m.attr # <<>>}
  <2>1. IsList(g.nodes)
      BY DEF WellFormed
  <2>2. DOMAIN g.nodes = 1 .. Len(g.nodes) /\ Len(g.nodes) \in Nat
      BY <2>1, ListFacts
  <2>3. IsFiniteSet(ToSet(g.nodes))
    <3> DEFINE s == g.nodes
    <3>1. ToSet(g.nodes) = {s[i] : i \in 1 .. Len(s)} /\ Len(s) \in Nat
        BY <2>2 DEF ToSet
    <3> HIDE DEF s
    <3>2. IsFiniteSet(1 .. Len(s))
        BY <3>1, FS_Interval
    <3> QED BY <3>1, <3>2, FiniteImage
  <2>4. IsFiniteSet(T)
      BY <2>3, FS_Subset
  <2>5. K = {key[m] : m \in T}
      BY DEF AttrKeys
  <2> HIDE DEF key, T
  <2> QED BY <2>4, <2>5, FiniteImage
<1>3. SumFunction(fw) \in Nat /\ SumFunction(fw) <= 100 * Cardinality(W)
  <2>1. \A x \in DOMAIN fw : fw[x] \in Nat /\ fw[x] <= 100
      BY ScoreFacts
  <2>2. DOMAIN fw = W
      OBVIOUS
  <2> HIDE DEF fw, W
  <2> QED BY <1>1, <2>1, <2>2, SumAtMost
<1>4. SumFunction(fk) \in Nat /\ SumFunction(fk) <= 100 * Cardinality(K)
  <2>1. \A x \in DOMAIN fk : fk[x] \in Nat /\ fk[x] <= 100
      BY ScoreFacts
  <2>2. DOMAIN fk = K
      OBVIOUS
  <2> HIDE DEF fk, K
  <2> QED BY <1>2, <2>1, <2>2, SumAtMost
<1>5. /\ Cardinality(W) \in Nat /\ Cardinality(K) \in Nat
      /\ Cardinality(W) = 0 <=> W = {}
      /\ Cardinality(K) = 0 <=> K = {}
    BY <1>1, <1>2, FS_CardinalityType, FS_EmptySet
<1>6. WeightFidelity(g, c) = IF W \cup K = {} THEN 100 ELSE total \div n
    BY DEF WeightFidelity
<1>7. ASSUME W \cup K # {} PROVE total \div n \in Percent
  <2>1. n \in Nat \ {0} /\ total \in Nat /\ total <= 100 * n
    <3> HIDE DEF W, K, fw, fk
    <3> QED BY <1>3, <1>4, <1>5, <1>7
  <2> HIDE DEF n, total
  <2>2. total \div n \in Nat /\ total \div n <= 100
      BY <2>1, QuotientBound
  <2> QED BY <2>2 DEF Percent
<1> HIDE DEF W, K, total, n
<1> QED BY <1>6, <1>7 DEF Percent

\* The quality score is a percentage.
LEMMA QualityBound ==
    ASSUME NEW g, NEW c, NEW ofs \in Percent, WellFormed(g)
    PROVE  Quality(g, c, ofs) \in Percent
<1> DEFINE w == WeightFidelity(g, c)
           s == StructuralIntegrity(c)
           total == 50 * ofs + 30 * w + 20 * s
<1>1. w \in Percent
    BY FidelityBound
<1>2. s \in Percent
    BY DEF StructuralIntegrity, Percent
<1>3. Quality(g, c, ofs) = total \div 100
    BY DEF Quality
<1>4. total \in Nat /\ total <= 100 * 100
  <2> HIDE DEF w, s
  <2> QED BY <1>1, <1>2 DEF Percent
<1> HIDE DEF total
<1>5. total \div 100 \in Nat /\ total \div 100 <= 100
    BY <1>4, QuotientBound
<1> QED BY <1>3, <1>5 DEF Percent
-----------------------------------------------------------------------------
(* Names.                                                                   *)

\* A name, a part after it, and perhaps a number.
Derived(x, p, y) == \E k \in Nat : y = Numbered(Append(x, p), k)

\* Lists with one thing more, and joined.
LEMMA PartAppended ==
    ASSUME NEW x, IsList(x), NEW p
    PROVE  /\ IsList(Append(x, p)) /\ Len(Append(x, p)) = Len(x) + 1 /\ Len(x) \in Nat
           /\ \A j \in 1 .. Len(x) : Append(x, p)[j] = x[j]
           /\ Append(x, p)[Len(x) + 1] = p
<1> DEFINE T == ToSet(x) \cup {p}
<1>1. x \in Seq(T) /\ p \in T
    BY DEF IsList
<1> HIDE DEF T
<1>2. Append(x, p) \in Seq(T)
    BY <1>1
<1>3. IsList(Append(x, p))
    BY <1>2, ListOf
<1> QED BY <1>1, <1>3

LEMMA Joined ==
    ASSUME NEW c, IsList(c), NEW k \in Nat, NEW s, s = [j \in 1 .. k |-> s[j]]
    PROVE  /\ IsList(c \o s) /\ Len(c) \in Nat /\ Len(c \o s) = Len(c) + k
           /\ \A j \in 1 .. Len(c) : (c \o s)[j] = c[j]
           /\ \A j \in Len(c) + 1 .. Len(c) + k : (c \o s)[j] = s[j - Len(c)]
           /\ k = 0 => c \o s = c
<1> DEFINE T == ToSet(c) \cup ToSet(s)
<1>0. IsList(s)
    BY ListOfItems
<1>1. c \in Seq(ToSet(c)) /\ s \in Seq(ToSet(s))
    BY <1>0 DEF IsList
<1>6. c \in Seq(T) /\ s \in Seq(T)
    BY <1>1
<1> HIDE DEF T
<1>2. c \o s \in Seq(T)
    BY <1>6
<1>3. Len(s) = k
  <2>1. DOMAIN s = 1 .. k /\ \A j \in 1 .. k : s[j] \in T
      BY <1>6
  <2>2. s \in [1 .. k -> T]
      BY <2>1
  <2> QED BY <2>2
<1>4. IsList(c \o s)
    BY <1>2, ListOf
<1>5. k = 0 => s = <<>>
    BY <1>6, <1>3
<1>7. k = 0 => c \o s = c
    BY <1>5, <1>6
<1> QED BY <1>6, <1>3, <1>4, <1>7

LEMMA NumberedIs ==
    ASSUME NEW c, IsList(c), NEW k \in Nat
    PROVE  /\ IsList(Numbered(c, k)) /\ Len(c) \in Nat /\ Len(Numbered(c, k)) = Len(c) + k
           /\ \A j \in 1 .. Len(c) : Numbered(c, k)[j] = c[j]
           /\ \A j \in Len(c) + 1 .. Len(c) + k : Numbered(c, k)[j] = Stroke
           /\ k = 0 => Numbered(c, k) = c
<1> DEFINE s == [j \in 1 .. k |-> Stroke]
<1>1. Numbered(c, k) = c \o s
    BY DEF Numbered
<1>2. s = [j \in 1 .. k |-> s[j]] /\ \A j \in 1 .. k : s[j] = Stroke
    OBVIOUS
<1> HIDE DEF s
<1>3. /\ IsList(c \o s) /\ Len(c) \in Nat /\ Len(c \o s) = Len(c) + k
      /\ \A j \in 1 .. Len(c) : (c \o s)[j] = c[j]
      /\ \A j \in Len(c) + 1 .. Len(c) + k : (c \o s)[j] = s[j - Len(c)]
      /\ k = 0 => c \o s = c
    BY <1>2, Joined
<1>4. \A j \in Len(c) + 1 .. Len(c) + k : j - Len(c) \in 1 .. k
    BY <1>3
<1> QED BY <1>1, <1>2, <1>3, <1>4

\* What follows the part is the number.
LEMMA DerivedIs ==
    ASSUME NEW x, IsList(x), NEW p, NEW y, Derived(x, p, y)
    PROVE  /\ IsList(y) /\ Len(y) > Len(x) /\ Len(x) \in Nat /\ Len(y) \in Nat
           /\ \A j \in 1 .. Len(x) : y[j] = x[j]
           /\ y[Len(x) + 1] = p
           /\ \A j \in Len(x) + 2 .. Len(y) : y[j] = Stroke
<1>1. PICK k \in Nat : y = Numbered(Append(x, p), k)
    BY DEF Derived
<1> DEFINE c == Append(x, p)
<1>2. /\ IsList(c) /\ Len(c) = Len(x) + 1 /\ Len(x) \in Nat
      /\ \A j \in 1 .. Len(x) : c[j] = x[j]
      /\ c[Len(x) + 1] = p
    BY PartAppended
<1>3. y = Numbered(c, k)
    BY <1>1
<1> HIDE DEF c
<1>4. /\ IsList(y) /\ Len(y) = Len(c) + k
      /\ \A j \in 1 .. Len(c) : y[j] = c[j]
      /\ \A j \in Len(c) + 1 .. Len(c) + k : y[j] = Stroke
    BY <1>2, <1>3, NumberedIs
<1>5. /\ \A j \in 1 .. Len(x) : j \in 1 .. Len(c)
      /\ Len(x) + 1 \in 1 .. Len(c)
      /\ Len(y) > Len(x) /\ Len(y) \in Nat
      /\ \A j \in Len(x) + 2 .. Len(y) : j \in Len(c) + 1 .. Len(c) + k
    BY <1>2, <1>4
<1> QED BY <1>2, <1>4, <1>5

\* _unique_name returns a name that no weight and no node has.
Taken(g) == DOMAIN g.inits \cup {g.nodes[i].name : i \in Nodes(g)}

LEMMA TakenFinite ==
    ASSUME NEW g, WellFormed(g)
    PROVE  IsFiniteSet(Taken(g))
<1>1. IsFiniteSet(DOMAIN g.inits) /\ IsList(g.nodes)
    BY DEF WellFormed
<1>2. IsFiniteSet(Nodes(g))
  <2>1. Nodes(g) = 1 .. Len(g.nodes) /\ Len(g.nodes) \in Nat
      BY <1>1, ListFacts DEF Nodes
  <2> QED BY <2>1, FS_Interval
<1> DEFINE f == [i \in Nodes(g) |-> g.nodes[i].name]
           T == {f[i] : i \in Nodes(g)}
<1>3. IsFiniteSet(T)
  <2> HIDE DEF f
  <2> QED BY <1>2, FiniteImage
<1>4. T = {g.nodes[i].name : i \in Nodes(g)}
    OBVIOUS
<1> HIDE DEF T
<1> QED BY <1>1, <1>3, <1>4, FS_Union DEF Taken

LEMMA UniqueFresh ==
    ASSUME NEW g, WellFormed(g), NEW c, IsList(c)
    PROVE  /\ UniqueName(g, c) \notin Taken(g)
           /\ \E k \in Nat : UniqueName(g, c) = Numbered(c, k)
<1> DEFINE m == Cardinality(Taken(g))
           free == {k \in 2 .. m + 2 : Numbered(c, k) \notin Taken(g)}
<1>1. UniqueName(g, c) = IF c \notin Taken(g) THEN c ELSE Numbered(c, Min(free))
    BY DEF UniqueName, Taken
<1>2. IsFiniteSet(Taken(g)) /\ m \in Nat
    BY TakenFinite, FS_CardinalityType
<1>3. free # {}
  <2> SUFFICES ASSUME free = {} PROVE FALSE
      OBVIOUS
  <2> DEFINE S == 2 .. m + 2
             f == [k \in S |-> Numbered(c, k)]
  <2>1. f \in [S -> Taken(g)]
      OBVIOUS
  <2>2. IsFiniteSet(S) /\ Cardinality(S) = m + 1
      BY <1>2, FS_Interval
  <2>3. \E j, k \in S : j # k /\ f[j] = f[k]
    <3> HIDE DEF f, S
    <3> QED BY <1>2, <2>1, <2>2, FS_PigeonHole
  <2>4. PICK j \in S, k \in S : j # k /\ Numbered(c, j) = Numbered(c, k)
      BY <2>3
  <2>5. j \in Nat /\ k \in Nat /\ Len(c) \in Nat
      BY <1>2, <2>4, ListFacts
  <2>6. Len(c) + j = Len(c) + k
      BY <2>4, <2>5, NumberedIs
  <2> QED BY <2>4, <2>5, <2>6
<1>4. free \in SUBSET Nat
    BY <1>2
<1> HIDE DEF free
<1>5. Min(free) \in free
    BY <1>3, <1>4, MinIs
<1>6. Numbered(c, Min(free)) \notin Taken(g) /\ Min(free) \in Nat
    BY <1>4, <1>5 DEF free
<1>7. c = Numbered(c, 0)
    BY NumberedIs
<1> QED BY <1>1, <1>6, <1>7

LEMMA FreshDerived ==
    ASSUME NEW g, WellFormed(g), NEW x, IsList(x), NEW p,
           NEW y, y = UniqueName(g, Append(x, p))
    PROVE  IsList(y) /\ y \notin Taken(g) /\ Derived(x, p, y)
<1>1. IsList(Append(x, p))
    BY PartAppended
<1>2. y \notin Taken(g) /\ Derived(x, p, y)
    BY <1>1, UniqueFresh DEF Derived
<1> QED BY <1>2, DerivedIs
-----------------------------------------------------------------------------
(* What each handler does to a graph.                                       *)

\* Names are lists of parts, and a node writes something.
NamedNode(n) ==
    /\ IsList(n.name) /\ IsList(n.out) /\ Len(n.out) >= 1
    /\ \A y \in ToSet(n.in) \cup ToSet(n.out) : IsList(y)

ListNamed(g) ==
    /\ \A x \in DOMAIN g.inits : IsList(x)
    /\ \A n \in ToSet(g.nodes) : NamedNode(n)

InPass(g) == WellFormed(g) /\ ListNamed(g) /\ {"conv", "noint8", "err", "hung"} \subseteq DOMAIN g

\* The same graph but for its nodes, its weights and the record of what was converted.
SameElse(g, h) ==
    /\ DOMAIN h = DOMAIN g
    /\ h.outs = g.outs /\ h.opset = g.opset /\ h.noint8 = g.noint8
    /\ h.err = g.err /\ h.hung = g.hung

\* Weight x replaced by new, with one more node in front.
Fronted(g, h, x, new, n) ==
    /\ SameElse(g, h)
    /\ h.nodes = <<n>> \o g.nodes
    /\ h.inits = Overlaid(Restrict(g.inits, DOMAIN g.inits \ {x}), new)
    /\ h.ins = g.ins \ {x}

\* Weight x moved behind node n and stored as new.
Moved(g, h, x, new, n) ==
    /\ Fronted(g, h, x, new, n)
    /\ n.name \notin Taken(g) /\ IsList(n.name)
    /\ Derived(x, "fp16_cast", n.name) \/ Derived(x, "dq", n.name)
    /\ n.op \in {"Cast", "DequantizeLinear"} /\ n.attr = <<>>
    /\ IsList(n.in) /\ ToSet(n.in) = DOMAIN new /\ n.out = <<x>>
    /\ \A y \in DOMAIN new : y \notin Taken(g) /\ IsList(y)

AsFp16(g, x, new) ==
    \E y : /\ Derived(x, "fp16", y) /\ DOMAIN new = {y}
           /\ new[y] = [g.inits[x] EXCEPT !.dtype = "f16"]

AsInt8(g, x, new) ==
    \E q, sc, zp :
        /\ Derived(x, "q", q) /\ Derived(x, "scale", sc) /\ Derived(x, "zp", zp)
        /\ DOMAIN new = {q, sc, zp}
        /\ new[q].dtype = "i8" /\ new[q].dims = g.inits[x].dims
        /\ new[sc].dtype = "f32" /\ new[zp].dtype = "i8" /\ new[zp].dims = new[sc].dims
        /\ \/ new[sc].dims = <<>>
           \/ /\ new[sc].dims = <<g.inits[x].dims[1]>>
              /\ Len(g.inits[x].dims) = 4 /\ g.inits[x].dims[1] > 1

LEMMA MovedFields ==
    ASSUME NEW g, InPass(g), NEW x, NEW new, NEW n,
           NEW h, h = Prepend(WithInits(WithoutInit(g, x), new), n)
    PROVE  Fronted(g, h, x, new, n) /\ h.conv = g.conv
<1> DEFINE r == Restrict(g.inits, DOMAIN g.inits \ {x})
           e == WithoutInit(g, x)
           o == Overlaid(r, new)
           f == WithInits(e, new)
           F == {"nodes", "inits", "ins", "outs", "opset", "conv", "noint8", "err", "hung"}
<1>0. F \subseteq DOMAIN g
    BY DEF InPass, WellFormed
<1>1. /\ DOMAIN e = DOMAIN g /\ e.inits = r /\ e.ins = g.ins \ {x}
      /\ e.nodes = g.nodes /\ e.outs = g.outs /\ e.opset = g.opset /\ e.conv = g.conv
      /\ e.noint8 = g.noint8 /\ e.err = g.err /\ e.hung = g.hung
  <2> HIDE DEF r
  <2>1. e = [g EXCEPT !.inits = r, !.ins = @ \ {x}]
      BY DEF WithoutInit, r
  <2> HIDE DEF e
  <2> QED BY <1>0, <2>1
<1> HIDE DEF e
<1>2. /\ DOMAIN f = DOMAIN e /\ f.inits = o /\ f.ins = e.ins
      /\ f.nodes = e.nodes /\ f.outs = e.outs /\ f.opset = e.opset /\ f.conv = e.conv
      /\ f.noint8 = e.noint8 /\ f.err = e.err /\ f.hung = e.hung
  <2>1. f = [e EXCEPT !.inits = o]
      BY <1>1 DEF WithInits
  <2> HIDE DEF f, o
  <2> QED BY <1>0, <1>1, <2>1
<1> HIDE DEF f, o
<1>3. h = [f EXCEPT !.nodes = <<n>> \o @]
    BY DEF Prepend, f, e
<1>4. /\ DOMAIN h = DOMAIN f /\ h.inits = f.inits /\ h.ins = f.ins
      /\ h.nodes = <<n>> \o f.nodes /\ h.outs = f.outs /\ h.opset = f.opset /\ h.conv = f.conv
      /\ h.noint8 = f.noint8 /\ h.err = f.err /\ h.hung = f.hung
    BY <1>0, <1>1, <1>2, <1>3
<1> QED BY <1>1, <1>2, <1>4 DEF Fronted, SameElse, o, r

LEMMA NewNodeIs ==
    ASSUME NEW name, NEW op, NEW in, NEW out
    PROVE  LET n == NewNode(name, op, in, out)
           IN  n.name = name /\ n.op = op /\ n.in = in /\ n.out = out /\ n.attr = <<>>
BY DEF NewNode

LEMMA StoreFp16Is ==
    ASSUME NEW g, InPass(g), NEW x \in DOMAIN g.inits
    PROVE  \E new, n : /\ Moved(g, StoreFp16(g, x), x, new, n) /\ AsFp16(g, x, new)
                       /\ StoreFp16(g, x).conv = g.conv
<1> DEFINE y == UniqueName(g, Append(x, "fp16"))
           cast == UniqueName(g, Append(x, "fp16_cast"))
           t == [g.inits[x] EXCEPT !.dtype = "f16"]
           new == [z \in {y} |-> t]
           n == NewNode(cast, "Cast", <<y>>, <<x>>)
           h == StoreFp16(g, x)
<1>1. IsList(x)
    BY DEF InPass, ListNamed
<1>2. /\ IsList(y) /\ y \notin Taken(g) /\ Derived(x, "fp16", y)
      /\ IsList(cast) /\ cast \notin Taken(g) /\ Derived(x, "fp16_cast", cast)
    BY <1>1, FreshDerived DEF InPass
<1>3. h = Prepend(WithInits(WithoutInit(g, x), new), n)
    BY DEF StoreFp16, WithInit
<1> HIDE DEF y, cast, t, h
<1>4. /\ n.name = cast /\ n.op = "Cast" /\ n.in = <<y>> /\ n.out = <<x>> /\ n.attr = <<>>
    BY NewNodeIs
<1>5. DOMAIN new = {y} /\ new[y] = t
    OBVIOUS
<1> HIDE DEF n, new
<1>6. IsList(n.in) /\ ToSet(n.in) = DOMAIN new
    BY <1>4, <1>5, OneList
<1>7. Fronted(g, h, x, new, n) /\ h.conv = g.conv
    BY <1>3, MovedFields
<1>8. Moved(g, h, x, new, n)
    BY <1>2, <1>4, <1>5, <1>6, <1>7 DEF Moved
<1>9. AsFp16(g, x, new)
    BY <1>2, <1>5 DEF AsFp16, t
<1> QED BY <1>7, <1>8, <1>9 DEF h

LEMMA StoreInt8Is ==
    ASSUME NEW g, InPass(g), NEW x \in DOMAIN g.inits, NEW level, NEW consumer
    PROVE  \E new, n : /\ Moved(g, StoreInt8(g, x, level, consumer), x, new, n)
                       /\ AsFp16(g, x, new) \/ AsInt8(g, x, new)
                       /\ StoreInt8(g, x, level, consumer).conv = g.conv
<1> DEFINE t == g.inits[x]
           perChannel == /\ consumer.op = "Conv" /\ Len(t.dims) = 4
                         /\ g.opset >= 13 /\ t.dims[1] > 1
           shape == IF perChannel THEN <<t.dims[1]>> ELSE <<>>
           q  == UniqueName(g, Append(x, "q"))
           sc == UniqueName(g, Append(x, "scale"))
           zp == UniqueName(g, Append(x, "zp"))
           dq == UniqueName(g, Append(x, "dq"))
           stored == [t EXCEPT !.dtype = "i8",
                               !.tags = @ \cup {IF level = INT8 THEN "int8" ELSE "int4"}]
           scales == [dtype |-> "f32", dims |-> shape, tags |-> {}]
           zeros == [dtype |-> "i8", dims |-> shape, tags |-> {}]
           new == [y \in {q, sc, zp} |-> IF y = q THEN stored
                                         ELSE IF y = sc THEN scales ELSE zeros]
           n == NewNode(dq, "DequantizeLinear", <<q, sc, zp>>, <<x>>)
           h == StoreInt8(g, x, level, consumer)
<1>0. \/ h = StoreFp16(g, x)
      \/ h = Prepend(WithInits(WithoutInit(g, x), new), n)
    BY DEF StoreInt8
<1>1. IsList(x) /\ WellFormedTensor(t)
    BY DEF InPass, ListNamed, WellFormed
<1>2. /\ IsList(q) /\ q \notin Taken(g) /\ Derived(x, "q", q)
      /\ IsList(sc) /\ sc \notin Taken(g) /\ Derived(x, "scale", sc)
      /\ IsList(zp) /\ zp \notin Taken(g) /\ Derived(x, "zp", zp)
      /\ IsList(dq) /\ dq \notin Taken(g) /\ Derived(x, "dq", dq)
    BY <1>1, FreshDerived DEF InPass
<1>3. q # sc /\ q # zp /\ sc # zp
  <2>1. q[Len(x) + 1] = "q" /\ sc[Len(x) + 1] = "scale" /\ zp[Len(x) + 1] = "zp"
    <3> HIDE DEF q, sc, zp
    <3> QED BY <1>1, <1>2, DerivedIs
  <2> HIDE DEF q, sc, zp
  <2> QED BY <2>1
<1>4. stored.dtype = "i8" /\ stored.dims = t.dims
  <2> HIDE DEF t
  <2> QED BY <1>1 DEF WellFormedTensor
<1>5. /\ scales.dtype = "f32" /\ zeros.dtype = "i8" /\ zeros.dims = scales.dims
      /\ \/ scales.dims = <<>>
         \/ scales.dims = <<t.dims[1]>> /\ Len(t.dims) = 4 /\ t.dims[1] > 1
  <2>1. scales.dims = shape /\ zeros.dims = shape /\ scales.dtype = "f32" /\ zeros.dtype = "i8"
    <3> HIDE DEF shape
    <3> QED OBVIOUS
  <2>2. shape = <<>> \/ (shape = <<t.dims[1]>> /\ Len(t.dims) = 4 /\ t.dims[1] > 1)
    <3> HIDE DEF t
    <3> QED OBVIOUS
  <2> HIDE DEF t, shape, scales, zeros
  <2> QED BY <2>1, <2>2
<1> HIDE DEF q, sc, zp, dq, stored, scales, zeros, h
<1>6. /\ n.name = dq /\ n.op = "DequantizeLinear" /\ n.in = <<q, sc, zp>> /\ n.out = <<x>>
      /\ n.attr = <<>>
    BY NewNodeIs
<1>7. DOMAIN new = {q, sc, zp} /\ new[q] = stored /\ new[sc] = scales /\ new[zp] = zeros
    BY <1>3
<1> HIDE DEF n, new
<1>8. IsList(n.in) /\ ToSet(n.in) = DOMAIN new
  <2>1. <<q, sc, zp>> \in Seq({q, sc, zp}) /\ ToSet(<<q, sc, zp>>) = {q, sc, zp}
    <3>1. <<q, sc, zp>> \in Seq({q, sc, zp}) /\ DOMAIN <<q, sc, zp>> = 1 .. 3
        OBVIOUS
    <3>2. <<q, sc, zp>>[1] = q /\ <<q, sc, zp>>[2] = sc /\ <<q, sc, zp>>[3] = zp
        OBVIOUS
    <3>3. 1 .. 3 = {1, 2, 3}
        OBVIOUS
    <3> QED BY <3>1, <3>2, <3>3 DEF ToSet
  <2> QED BY <1>6, <1>7, <2>1, ListOf
<1>9. CASE h = Prepend(WithInits(WithoutInit(g, x), new), n)
  <2>1. Fronted(g, h, x, new, n) /\ h.conv = g.conv
      BY <1>9, MovedFields
  <2>2. Moved(g, h, x, new, n)
      BY <1>2, <1>6, <1>7, <1>8, <2>1 DEF Moved
  <2>3. AsInt8(g, x, new)
      BY <1>2, <1>4, <1>5, <1>7 DEF AsInt8, t
  <2> QED BY <2>1, <2>2, <2>3 DEF h
<1>10. CASE h = StoreFp16(g, x)
    BY <1>10, StoreFp16Is DEF h
<1> QED BY <1>0, <1>9, <1>10 DEF n, new, q, sc, zp, dq, stored, scales, zeros

\* A weight is converted, or nothing happens.
ConvertedTo(g, h, x, level, new, n) ==
    /\ WorthConverting(g, x, level)
    /\ Moved(g, h, x, new, n) /\ h.conv = g.conv \cup {x}
    /\ AsFp16(g, x, new) \/ (level # FP16 /\ AsInt8(g, x, new))

LEMMA ConvertIs ==
    ASSUME NEW g, InPass(g), NEW x, NEW level, NEW consumer
    PROVE  \/ Convert(g, x, level, consumer) = g
           \/ \E new, n : ConvertedTo(g, Convert(g, x, level, consumer), x, level, new, n)
<1> DEFINE s == IF level = FP16 THEN StoreFp16(g, x) ELSE StoreInt8(g, x, level, consumer)
           v == g.conv \cup {x}
           h == [s EXCEPT !.conv = v]
<1>1. CASE WorthConverting(g, x, level)
  <2>1. x \in DOMAIN g.inits
      BY <1>1 DEF WorthConverting
  <2>2. PICK new, n : /\ Moved(g, s, x, new, n) /\ s.conv = g.conv
                      /\ AsFp16(g, x, new) \/ (level # FP16 /\ AsInt8(g, x, new))
    <3>1. CASE level = FP16
      <4>1. \E new, n : Moved(g, StoreFp16(g, x), x, new, n) /\ AsFp16(g, x, new)
                        /\ StoreFp16(g, x).conv = g.conv
          BY <2>1, StoreFp16Is
      <4> QED BY <3>1, <4>1
    <3>2. CASE level # FP16
      <4> DEFINE c == StoreInt8(g, x, level, consumer)
      <4>1. \E new, n : Moved(g, c, x, new, n) /\ (AsFp16(g, x, new) \/ AsInt8(g, x, new))
                        /\ c.conv = g.conv
          BY <2>1, StoreInt8Is
      <4> HIDE DEF c
      <4>2. s = c
          BY <3>2 DEF c
      <4> HIDE DEF s
      <4> QED BY <3>2, <4>1, <4>2
    <3> QED BY <3>1, <3>2
  <2>3. Convert(g, x, level, consumer) = h
    <3>1. Convert(g, x, level, consumer) = [s EXCEPT !.conv = @ \cup {x}]
        BY <1>1 DEF Convert
    <3> HIDE DEF s
    <3> QED BY <2>2, <3>1
  <2> HIDE DEF s, v
  <2>4. /\ DOMAIN s = DOMAIN g /\ s.ins = g.ins \ {x} /\ s.nodes = <<n>> \o g.nodes
        /\ s.inits = Overlaid(Restrict(g.inits, DOMAIN g.inits \ {x}), new)
        /\ s.outs = g.outs /\ s.opset = g.opset /\ s.noint8 = g.noint8 /\ s.err = g.err
        /\ s.hung = g.hung
      BY <2>2 DEF Moved, Fronted, SameElse
  <2>5. {"nodes", "inits", "ins", "outs", "opset", "conv", "noint8", "err", "hung"}
            \subseteq DOMAIN s
      BY <2>4 DEF InPass, WellFormed
  <2>6. /\ DOMAIN h = DOMAIN s /\ h.ins = s.ins /\ h.nodes = s.nodes /\ h.inits = s.inits
        /\ h.outs = s.outs /\ h.opset = s.opset /\ h.noint8 = s.noint8 /\ h.err = s.err
        /\ h.hung = s.hung /\ h.conv = v
      BY <2>5
  <2> HIDE DEF h
  <2>7. Fronted(g, h, x, new, n)
      BY <2>4, <2>6 DEF Fronted, SameElse
  <2>8. Moved(g, h, x, new, n)
      BY <2>2, <2>7 DEF Moved
  <2>9. ConvertedTo(g, h, x, level, new, n)
      BY <1>1, <2>2, <2>6, <2>8 DEF ConvertedTo, v
  <2> QED BY <2>3, <2>9
<1>2. CASE ~WorthConverting(g, x, level)
    BY <1>2 DEF Convert
<1> QED BY <1>1, <1>2

\* Where the nodes and the weights are afterwards.
LEMMA FrontList ==
    ASSUME NEW n, NEW s, IsList(s)
    PROVE  /\ IsList(<<n>> \o s) /\ Len(<<n>> \o s) = Len(s) + 1 /\ Len(s) \in Nat
           /\ (<<n>> \o s)[1] = n
           /\ \A k \in 1 .. Len(s) : (<<n>> \o s)[k + 1] = s[k]
           /\ ToSet(<<n>> \o s) = {n} \cup ToSet(s)
<1>1. IsList(<<n>>) /\ ToSet(<<n>>) = {n} /\ Len(<<n>>) = 1 /\ <<n>>[1] = n
    BY OneList
<1> DEFINE T == {n} \cup ToSet(s)
           u == <<n>> \o s
<1>2. <<n>> \in Seq(T) /\ s \in Seq(T)
    BY DEF IsList
<1> HIDE DEF T
<1>3. /\ u \in Seq(T) /\ Len(u) = Len(s) + 1 /\ Len(s) \in Nat /\ u[1] = n
      /\ \A k \in 1 .. Len(s) : u[k + 1] = s[k]
    BY <1>2
<1>4. IsList(u) /\ ToSet(u) \subseteq T
    BY <1>3, ListOf
<1> HIDE DEF u
<1>5. DOMAIN u = 1 .. Len(s) + 1 /\ DOMAIN s = 1 .. Len(s)
    BY <1>3, <1>4, ListFacts
<1>6. n \in ToSet(u) /\ ToSet(s) \subseteq ToSet(u)
  <2>1. 1 \in DOMAIN u
      BY <1>3, <1>5
  <2>2. ASSUME NEW k \in DOMAIN s PROVE s[k] \in ToSet(u)
    <3>1. k + 1 \in DOMAIN u /\ u[k + 1] = s[k]
        BY <1>3, <1>5
    <3> QED BY <3>1 DEF ToSet
  <2> QED BY <1>3, <2>1, <2>2 DEF ToSet
<1> QED BY <1>3, <1>4, <1>6 DEF u, T

LEMMA MovedTo ==
    ASSUME NEW g, NEW h, NEW x, NEW new, NEW n, InPass(g), Moved(g, h, x, new, n)
    PROVE  /\ ToSet(h.nodes) = {n} \cup ToSet(g.nodes)
           /\ DOMAIN h.inits = (DOMAIN g.inits \ {x}) \cup DOMAIN new
           /\ \A y \in DOMAIN g.inits \ {x} : y \notin DOMAIN new /\ h.inits[y] = g.inits[y]
           /\ \A y \in DOMAIN new : y \notin DOMAIN g.inits /\ h.inits[y] = new[y]
           /\ ToSet(n.in) = DOMAIN new /\ ToSet(n.out) = {x}
<1>1. h.inits = Overlaid(Restrict(g.inits, DOMAIN g.inits \ {x}), new)
    BY DEF Moved, Fronted
<1>2. \A y \in DOMAIN new : y \notin DOMAIN g.inits
    BY DEF Moved, Taken
<1>3. h.nodes = <<n>> \o g.nodes /\ IsList(g.nodes)
    BY DEF Moved, Fronted, InPass, WellFormed
<1>4. ToSet(n.out) = {x} /\ ToSet(n.in) = DOMAIN new
    BY OneList DEF Moved
<1>5. ToSet(h.nodes) = {n} \cup ToSet(g.nodes)
    BY <1>3, FrontList
<1> QED BY <1>1, <1>2, <1>4, <1>5 DEF Overlaid, Restrict

\* The pass keeps names lists.
LEMMA ConvertInPass ==
    ASSUME NEW g, InPass(g), NEW x, IsList(x), NEW level, NEW consumer
    PROVE  InPass(Convert(g, x, level, consumer))
<1> DEFINE h == Convert(g, x, level, consumer)
<1>1. WellFormed(h)
    BY ConvertKeeps DEF InPass
<1>2. ASSUME NEW new, NEW n, ConvertedTo(g, h, x, level, new, n) PROVE InPass(h)
  <2>1. Moved(g, h, x, new, n)
      BY <1>2 DEF ConvertedTo
  <2> HIDE DEF h
  <2>2. \A y \in DOMAIN h.inits : IsList(y)
    <3>1. \A y \in DOMAIN new : IsList(y)
        BY <2>1 DEF Moved
    <3>2. \A y \in DOMAIN g.inits : IsList(y)
        BY DEF InPass, ListNamed
    <3>3. DOMAIN h.inits = (DOMAIN g.inits \ {x}) \cup DOMAIN new
        BY <2>1, MovedTo
    <3> QED BY <3>1, <3>2, <3>3
  <2>3. NamedNode(n)
    <3>0. n.out = <<x>> /\ IsList(n.name)
        BY <2>1 DEF Moved
    <3>1. IsList(<<x>>) /\ ToSet(<<x>>) = {x} /\ Len(<<x>>) = 1
        BY OneList
    <3>2. \A y \in ToSet(n.in) : IsList(y)
        BY <2>1 DEF Moved
    <3> QED BY <3>0, <3>1, <3>2 DEF NamedNode
  <2>4. ListNamed(h)
      BY <2>1, <2>2, <2>3, MovedTo DEF InPass, ListNamed
  <2>5. DOMAIN h = DOMAIN g
      BY <2>1 DEF Moved, Fronted, SameElse
  <2> QED BY <1>1, <2>4, <2>5 DEF InPass, h
<1> QED BY <1>2, ConvertIs

\* _find_node returns a node of the name.
LEMMA FindsNamed ==
    ASSUME NEW g, NEW name, WellFormed(g), NEW i, i = FindNode(g, name), i # 0
    PROVE  i \in DOMAIN g.nodes /\ g.nodes[i] \in ToSet(g.nodes) /\ g.nodes[i].name = name
<1> DEFINE I == {k \in 1 .. Len(g.nodes) : g.nodes[k].name = name}
<1>1. i = IF I # {} THEN Min(I) ELSE 0
    BY DEF FindNode, SelectInSeq
<1>2. IsList(g.nodes) /\ I \subseteq 1 .. Len(g.nodes)
    BY DEF WellFormed
<1> HIDE DEF I
<1>3. i \in I /\ i \in DOMAIN g.nodes
    BY <1>1, <1>2, Found
<1> QED BY <1>3 DEF I, ToSet

\* What is written into a graph's weights, and nothing else.
Written(g, h, new) ==
    /\ SameElse(g, h) /\ h.conv = g.conv /\ h.ins = g.ins
    /\ h.inits = Overlaid(g.inits, new)

Fields == {"nodes", "inits", "ins", "outs", "opset", "conv", "noint8", "err", "hung"}

LEMMA FieldsOf == ASSUME NEW g, InPass(g) PROVE Fields \subseteq DOMAIN g
BY DEF InPass, WellFormed, Fields

LEMMA WithInitsIs ==
    ASSUME NEW g, Fields \subseteq DOMAIN g, NEW new
    PROVE  Written(g, WithInits(g, new), new) /\ WithInits(g, new).nodes = g.nodes
<1> DEFINE o == Overlaid(g.inits, new)
           h == WithInits(g, new)
<1>1. {"nodes", "inits", "ins", "outs", "opset", "conv", "noint8", "err", "hung"} \subseteq DOMAIN g
    BY DEF Fields
<1>2. h = [g EXCEPT !.inits = o]
    BY DEF WithInits
<1> HIDE DEF o, h
<1>3. /\ DOMAIN h = DOMAIN g /\ h.ins = g.ins /\ h.nodes = g.nodes /\ h.inits = o
      /\ h.outs = g.outs /\ h.opset = g.opset /\ h.noint8 = g.noint8 /\ h.err = g.err
      /\ h.hung = g.hung /\ h.conv = g.conv
    BY <1>1, <1>2
<1> QED BY <1>3 DEF Written, SameElse, o, h

LEMMA WrittenTwice ==
    ASSUME NEW g, NEW f, NEW h, NEW one, NEW two, Written(g, f, one), Written(f, h, two)
    PROVE  Written(g, h, Overlaid(one, two)) /\ DOMAIN Overlaid(one, two) = DOMAIN one \cup DOMAIN two
<1>1. Overlaid(Overlaid(g.inits, one), two) = Overlaid(g.inits, Overlaid(one, two))
    BY DEF Overlaid
<1>2. DOMAIN Overlaid(one, two) = DOMAIN one \cup DOMAIN two
    BY DEF Overlaid
<1> QED BY <1>1, <1>2 DEF Written, SameElse

\* A pruned node keeps its weights' names; no other node's weights change.
LEMMA PruneIs ==
    ASSUME NEW g, InPass(g), NEW a
    PROVE  \/ PruneChannels(g, a) = g
           \/ \E n \in ToSet(g.nodes) : \E new :
                /\ n.name = a.name /\ DOMAIN new \subseteq ToSet(n.in) \cap DOMAIN g.inits
                /\ Written(g, PruneChannels(g, a), new) /\ PruneChannels(g, a).nodes = g.nodes
<1> DEFINE i == FindNode(g, a.name)
           n == g.nodes[i]
           w == Weight(g, n)
           t == g.inits[w]
           axis == IF n.op = "MatMul" /\ Len(t.dims) = 2 THEN 2 ELSE 1
           kept == Keep(t.dims[axis], a.arg)
           u == Tagged([t EXCEPT !.dims[axis] = kept], "pruned")
           slim == WithInit(g, w, u)
           bias == n.in[3]
           z == Tagged([g.inits[bias] EXCEPT !.dims[1] = kept], "pruned")
           both == WithInit(slim, bias, z)
           h == PruneChannels(g, a)
           Short == Len(n.in) < 3
           Other == g.inits[bias].dims[1] # t.dims[axis]
<1>0. h = IF i = 0 \/ a.arg <= 0 THEN g
          ELSE IF w = NoName THEN g
          ELSE IF Short THEN slim
          ELSE IF bias \notin DOMAIN g.inits THEN slim
          ELSE IF Other THEN slim ELSE both
    BY DEF PruneChannels
<1>1. \/ h = g
      \/ i # 0 /\ w # NoName /\ h = slim
      \/ /\ i # 0 /\ w # NoName /\ ~Short /\ bias \in DOMAIN g.inits /\ h = both
  <2> HIDE DEF h, i, w, Short, Other, slim, both, bias
  <2> QED BY <1>0
<1> HIDE DEF h, u, z
<1>2. ASSUME i # 0 PROVE n \in ToSet(g.nodes) /\ n.name = a.name /\ IsList(n.in)
  <2>1. WellFormed(g)
      BY DEF InPass
  <2>2. n \in ToSet(g.nodes) /\ n.name = a.name
    <3> HIDE DEF i
    <3> QED BY <1>2, <2>1, FindsNamed DEF i
  <2> HIDE DEF n
  <2> QED BY <2>1, <2>2 DEF WellFormed, WellFormedNode
<1>3. ASSUME i # 0, w # NoName PROVE w \in ToSet(n.in) \cap DOMAIN g.inits
  <2>1. Len(n.in) >= 2 /\ n.in[2] \in DOMAIN g.inits /\ w = n.in[2]
      BY <1>3 DEF Weight
  <2>2. IsList(n.in)
      BY <1>2, <1>3
  <2> HIDE DEF n, w
  <2>3. 2 \in 1 .. Len(n.in)
      BY <2>1, <2>2, ListFacts
  <2> QED BY <2>1, <2>2, <2>3, ListFacts
<1> HIDE DEF i, w
<1>4. Written(g, slim, [y \in {w} |-> u]) /\ slim.nodes = g.nodes
    BY FieldsOf, WithInitsIs DEF WithInit
<1>5. CASE i # 0 /\ w # NoName /\ h = slim
  <2> DEFINE new == [y \in {w} |-> u]
  <2>1. Written(g, h, new) /\ h.nodes = g.nodes
      BY <1>4, <1>5
  <2>2. DOMAIN new = {w}
      OBVIOUS
  <2> HIDE DEF new, n
  <2>3. n \in ToSet(g.nodes) /\ n.name = a.name /\ DOMAIN new \subseteq ToSet(n.in) \cap DOMAIN g.inits
      BY <1>2, <1>3, <1>5, <2>2
  <2> QED BY <2>1, <2>3 DEF h
<1>6. CASE /\ i # 0 /\ w # NoName /\ ~Short /\ bias \in DOMAIN g.inits /\ h = both
  <2> DEFINE one == [y \in {w} |-> u]
             two == [y \in {bias} |-> z]
             new == Overlaid(one, two)
  <2>1. Fields \subseteq DOMAIN slim
      BY <1>4, FieldsOf DEF Written, SameElse
  <2>2. Written(slim, both, two) /\ both.nodes = slim.nodes
    <3> HIDE DEF slim, bias
    <3> QED BY <2>1, WithInitsIs DEF WithInit
  <2>3. Written(g, h, new) /\ h.nodes = g.nodes /\ DOMAIN new = DOMAIN one \cup DOMAIN two
    <3>1. Written(g, slim, one) /\ slim.nodes = g.nodes
        BY <1>4
    <3> HIDE DEF slim, both, bias, one, two
    <3>2. Written(g, both, Overlaid(one, two)) /\ DOMAIN Overlaid(one, two) = DOMAIN one \cup DOMAIN two
        BY <2>2, <3>1, WrittenTwice
    <3>3. h = both
        BY <1>6
    <3> QED BY <2>2, <3>1, <3>2, <3>3
  <2>4. bias \in ToSet(n.in)
    <3>1. IsList(n.in)
        BY <1>2, <1>6
    <3> HIDE DEF n
    <3>2. Len(n.in) >= 3 /\ Len(n.in) \in Nat
        BY <1>6, <3>1, ListFacts
    <3>3. 3 \in 1 .. Len(n.in)
        BY <3>2
    <3> QED BY <3>1, <3>3, ListFacts
  <2>5. DOMAIN one = {w} /\ DOMAIN two = {bias}
      OBVIOUS
  <2> HIDE DEF new, n, bias, both, one, two, Short
  <2>6. n \in ToSet(g.nodes) /\ n.name = a.name /\ DOMAIN new \subseteq ToSet(n.in) \cap DOMAIN g.inits
      BY <1>2, <1>3, <1>6, <2>3, <2>4, <2>5
  <2> QED BY <2>3, <2>6 DEF h
<1> QED BY <1>1, <1>5, <1>6 DEF h

\* Node i of the graph split in two for a low rank, its weight w in two factors.
Middle(n) == Append(n.out[1], "svd_mid")
Factor(w) == Append(w, "svd_v")
Half(n) == [n EXCEPT !.out[1] = Middle(n)]
SecondNode(name, n, w) ==
    NewNode(Append(name, "svd_v"), "MatMul", <<Middle(n), Factor(w)>>, <<n.out[1]>>)

SplitAt(g, h, name, i, w, new) ==
    /\ i \in DOMAIN g.nodes /\ g.nodes[i].name = name
    /\ w \in ToSet(g.nodes[i].in) \cap DOMAIN g.inits
    /\ Written(g, h, new) /\ DOMAIN new = {w, Factor(w)}
    /\ new[w].dtype = g.inits[w].dtype
    /\ h.nodes = InsertAt([g.nodes EXCEPT ![i] = Half(g.nodes[i])], i + 1,
                          SecondNode(name, g.nodes[i], w))

\* The weight a node with one has.
LEMMA WeightIs ==
    ASSUME NEW g, NEW n, IsList(n.in), Weight(g, n) # NoName
    PROVE  /\ Weight(g, n) \in ToSet(n.in) \cap DOMAIN g.inits
           /\ Len(n.in) >= 2 /\ Weight(g, n) = n.in[2]
<1>1. Len(n.in) >= 2 /\ n.in[2] \in DOMAIN g.inits /\ Weight(g, n) = n.in[2]
    BY DEF Weight
<1>2. 2 \in 1 .. Len(n.in)
    BY <1>1, ListFacts
<1> QED BY <1>1, <1>2, ListFacts

LEMMA NodeOf ==
    ASSUME NEW g, InPass(g), NEW n \in ToSet(g.nodes)
    PROVE  WellFormedNode(n) /\ NamedNode(n) /\ IsList(n.in)
BY DEF InPass, WellFormed, ListNamed, WellFormedNode

LEMMA LowRankIs ==
    ASSUME NEW g, InPass(g), NEW a
    PROVE  \/ LowRank(g, a) = g
           \/ \E i, w, new : SplitAt(g, LowRank(g, a), a.name, i, w, new)
<1> DEFINE i == FindNode(g, a.name)
           n == g.nodes[i]
           w == Weight(g, n)
           t == g.inits[w]
           r == Min({a.arg, t.dims[1], t.dims[2]})
           v == Append(w, "svd_v")
           mid == Append(n.out[1], "svd_mid")
           new == [y \in {w, v} |-> Tagged([t EXCEPT !.dims[IF y = w THEN 2 ELSE 1] = r], "svd")]
           f == WithInits(g, new)
           halved == [f EXCEPT !.nodes[i].out[1] = mid]
           second == NewNode(Append(a.name, "svd_v"), "MatMul", <<mid, v>>, <<n.out[1]>>)
           done == [halved EXCEPT !.nodes = InsertAt(@, i + 1, second)]
           h == LowRank(g, a)
<1>1. \/ h = g
      \/ i # 0 /\ w # NoName /\ h = done
    BY DEF LowRank
<1>2. ASSUME i # 0, w # NoName, h = done PROVE SplitAt(g, h, a.name, i, w, new)
  <2>1. i \in DOMAIN g.nodes /\ n \in ToSet(g.nodes) /\ n.name = a.name
    <3> HIDE DEF i
    <3> QED BY <1>2, FindsNamed DEF InPass, i
  <2>2. w \in ToSet(n.in) \cap DOMAIN g.inits
    <3>1. IsList(n.in)
        BY <2>1, NodeOf
    <3> HIDE DEF n
    <3> QED BY <1>2, <3>1, WeightIs
  <2>3. Written(g, f, new) /\ f.nodes = g.nodes
    <3> HIDE DEF new
    <3> QED BY FieldsOf, WithInitsIs
  <2>4. DOMAIN new = {w, v} /\ new[w].dtype = t.dtype
    <3>1. WellFormedTensor(t)
        BY <2>2 DEF InPass, WellFormed
    <3> HIDE DEF t, r, w, v
    <3> QED BY <3>1 DEF Tagged, WellFormedTensor
  <2> DEFINE first == [g.nodes EXCEPT ![i] = Half(n)]
             all == InsertAt(first, i + 1, second)
  <2>5. Fields \subseteq DOMAIN f
      BY <2>3, FieldsOf DEF Written, SameElse
  <2> HIDE DEF f, new
  <2>6. done = [f EXCEPT !.nodes = all]
    <3> HIDE DEF i
    <3>1. halved = [f EXCEPT !.nodes = first]
        BY <2>3 DEF Half, Middle
    <3>2. halved.nodes = first
        BY <2>5, <3>1 DEF Fields
    <3> HIDE DEF first, second, halved
    <3>3. done = [halved EXCEPT !.nodes = all]
        BY <3>2
    <3> HIDE DEF all
    <3> QED BY <3>1, <3>3
  <2>7. second = SecondNode(a.name, n, w)
      BY DEF SecondNode, Middle, Factor
  <2> HIDE DEF done, all
  <2>8. Written(g, h, new) /\ h.nodes = all
    <3>1. /\ DOMAIN h = DOMAIN f /\ h.nodes = all /\ h.inits = f.inits /\ h.ins = f.ins
          /\ h.outs = f.outs /\ h.opset = f.opset /\ h.conv = f.conv /\ h.noint8 = f.noint8
          /\ h.err = f.err /\ h.hung = f.hung
        BY <1>2, <2>5, <2>6 DEF Fields
    <3> HIDE DEF h
    <3> QED BY <2>3, <3>1 DEF Written, SameElse
  <2>9. all = InsertAt(first, i + 1, SecondNode(a.name, n, w))
      BY <2>7 DEF all
  <2> HIDE DEF second
  <2>10. i \in DOMAIN g.nodes /\ g.nodes[i].name = a.name
      BY <2>1
  <2> QED BY <2>2, <2>4, <2>8, <2>9, <2>10 DEF SplitAt, Factor
<1> QED BY <1>1, <1>2

\* A normalization b folded into its producer p.
Heir(bn, prev) ==
    [prev EXCEPT !.in = IF Len(@) > 2 THEN @ ELSE Append(@, Append(prev.name, "fused_bias")),
                 !.out[1] = bn.out[1]]

FoldedAt(g, h, name, b, p, new) ==
    /\ b \in DOMAIN g.nodes /\ p \in DOMAIN g.nodes /\ g.nodes[b].name = name
    /\ g.nodes[b].op = "BatchNormalization" /\ g.nodes[p].op \in {"Conv", "Gemm"}
    /\ g.nodes[b].in[1] \in ToSet(g.nodes[p].out)
    /\ Len(g.nodes[p].in) >= 2
    /\ Written(g, h, new)
    /\ \A y \in DOMAIN new :
          \/ y \in ToSet(g.nodes[p].in) \cap DOMAIN g.inits
          \/ y = Append(g.nodes[p].name, "fused_bias")
    /\ Len(g.nodes[p].in) <= 2 => Append(g.nodes[p].name, "fused_bias") \in DOMAIN new
    /\ h.nodes = RemoveAt([g.nodes EXCEPT ![p] = Heir(g.nodes[b], g.nodes[p])], b)

\* The writer of a tensor writes it.
LEMMA Writes ==
    ASSUME NEW g, NEW x, InPass(g), NEW p, p = Writer(g, x), p # 0
    PROVE  p \in DOMAIN g.nodes /\ g.nodes[p] \in ToSet(g.nodes) /\ x \in ToSet(g.nodes[p].out)
<1> DEFINE I == {i \in 1 .. Len(g.nodes) : Contains(g.nodes[i].out, x)}
<1>1. p = IF I # {} THEN Min(I) ELSE 0
    BY DEF Writer, SelectInSeq
<1>2. IsList(g.nodes) /\ I \subseteq 1 .. Len(g.nodes)
    BY DEF InPass, WellFormed
<1> HIDE DEF I
<1>3. p \in I /\ p \in DOMAIN g.nodes
    BY <1>1, <1>2, Found
<1>4. g.nodes[p] \in ToSet(g.nodes)
    BY <1>3 DEF ToSet
<1>5. Contains(g.nodes[p].out, x) /\ IsList(g.nodes[p].out)
    BY <1>3, <1>4 DEF I, InPass, ListNamed, NamedNode
<1>6. x \in ToSet(g.nodes[p].out)
    BY <1>5, ListFacts DEF Contains
<1> QED BY <1>3, <1>4, <1>6

LEMMA FuseIs ==
    ASSUME NEW g, InPass(g), NEW a
    PROVE  \/ FuseBatchNorm(g, a) = g \/ FuseBatchNorm(g, a) = [g EXCEPT !.err = TRUE]
           \/ \E b, p, new : FoldedAt(g, FuseBatchNorm(g, a), a.name, b, p, new)
<1> DEFINE b == FindNode(g, a.name)
           bn == g.nodes[b]
           p == Writer(g, bn.in[1])
           prev == g.nodes[p]
           w == Weight(g, prev)
           bias == IF Len(prev.in) > 2 THEN prev.in[3] ELSE Append(prev.name, "fused_bias")
           biases == IF Len(prev.in) <= 2 \/ bias \in DOMAIN g.inits THEN {bias} ELSE {}
           fresh == [dtype |-> "f32", dims |-> g.inits[bn.in[2]].dims, tags |-> {"bn"}]
           new == [y \in {w} \cup biases |->
                         IF y = bias /\ Len(prev.in) <= 2 THEN fresh
                         ELSE Tagged(g.inits[y], "bn")]
           f == WithInits(g, new)
           heir == [prev EXCEPT !.in = IF Len(@) > 2 THEN @ ELSE Append(@, bias),
                                !.out[1] = bn.out[1]]
           fused == [f EXCEPT !.nodes[p] = heir]
           done == [fused EXCEPT !.nodes = RemoveAt(@, b)]
           h == FuseBatchNorm(g, a)
           Fusable == /\ b # 0 /\ bn.op = "BatchNormalization" /\ p # 0
                      /\ prev.op \in {"Conv", "Gemm"} /\ w # NoName
<1>1. \/ h = g \/ h = [g EXCEPT !.err = TRUE]
      \/ Fusable /\ h = done
    BY DEF FuseBatchNorm
<1>2. ASSUME Fusable, h = done PROVE FoldedAt(g, h, a.name, b, p, new)
  <2>1. b \in DOMAIN g.nodes /\ bn \in ToSet(g.nodes) /\ bn.name = a.name
    <3>1. b # 0
        BY <1>2
    <3> HIDE DEF b
    <3> QED BY <3>1, FindsNamed DEF InPass, b
  <2>2. p \in DOMAIN g.nodes /\ prev \in ToSet(g.nodes) /\ bn.in[1] \in ToSet(prev.out)
    <3>1. p # 0
        BY <1>2
    <3> HIDE DEF bn, p
    <3> QED BY <3>1, Writes DEF p
  <2>3. IsList(prev.in) /\ Len(prev.in) \in Nat
      BY <2>2, NodeOf, ListFacts
  <2>4. w \in ToSet(prev.in) \cap DOMAIN g.inits /\ Len(prev.in) >= 2
    <3>1. w # NoName
        BY <1>2
    <3> HIDE DEF prev
    <3> QED BY <2>3, <3>1, WeightIs
  <2>5. Written(g, f, new) /\ f.nodes = g.nodes
    <3> HIDE DEF new
    <3> QED BY FieldsOf, WithInitsIs
  <2>6. DOMAIN new = {w} \cup biases
      BY DEF new
  <2>7. /\ \A y \in DOMAIN new : \/ y \in ToSet(prev.in) \cap DOMAIN g.inits
                                 \/ y = Append(prev.name, "fused_bias")
        /\ Len(prev.in) <= 2 => Append(prev.name, "fused_bias") \in DOMAIN new
    <3> HIDE DEF prev, w, new
    <3>1. CASE Len(prev.in) > 2
      <4>1. bias = prev.in[3] /\ 3 \in 1 .. Len(prev.in)
          BY <2>3, <3>1
      <4>2. bias \in ToSet(prev.in)
          BY <2>3, <4>1, ListFacts
      <4>3. bias \in DOMAIN g.inits \/ biases = {}
          BY <2>3, <3>1
      <4> HIDE DEF bias, biases
      <4>4. biases \subseteq {bias}
          BY DEF biases
      <4> QED BY <2>3, <2>4, <2>6, <3>1, <4>2, <4>3, <4>4
    <3>2. CASE ~(Len(prev.in) > 2)
      <4>1. bias = Append(prev.name, "fused_bias")
          BY <3>2
      <4>2. biases = {bias}
        <5>1. Len(prev.in) <= 2
            BY <2>3, <3>2
        <5> HIDE DEF bias
        <5> QED BY <5>1
      <4> HIDE DEF bias, biases
      <4> QED BY <2>4, <2>6, <4>1, <4>2
    <3> QED BY <3>1, <3>2
  <2>8. heir = Heir(bn, prev)
    <3>1. heir.in = heir.in
        OBVIOUS
    <3> DEFINE named == Append(prev.name, "fused_bias")
               in == IF Len(prev.in) > 2 THEN prev.in ELSE Append(prev.in, bias)
               also == IF Len(prev.in) > 2 THEN prev.in ELSE Append(prev.in, named)
    <3>2. heir = [prev EXCEPT !.in = in, !.out[1] = bn.out[1]]
      <4> HIDE DEF prev, bn, bias
      <4> QED OBVIOUS
    <3>3. Heir(bn, prev) = [prev EXCEPT !.in = also, !.out[1] = bn.out[1]]
      <4> HIDE DEF prev, bn
      <4> QED BY DEF Heir
    <3>4. in = also
      <4> HIDE DEF prev
      <4> QED OBVIOUS
    <3> HIDE DEF in, also, heir
    <3> QED BY <3>2, <3>3, <3>4
  <2> DEFINE first == [g.nodes EXCEPT ![p] = heir]
             all == RemoveAt(first, b)
  <2>9. Fields \subseteq DOMAIN f
      BY <2>5, FieldsOf DEF Written, SameElse
  <2> HIDE DEF f, new
  <2>10. done = [f EXCEPT !.nodes = all]
    <3> HIDE DEF heir, p, b
    <3>1. fused = [f EXCEPT !.nodes = first]
        BY <2>5
    <3>2. fused.nodes = first
        BY <2>9, <3>1 DEF Fields
    <3> HIDE DEF first, fused
    <3>3. done = [fused EXCEPT !.nodes = all]
        BY <3>2
    <3> HIDE DEF all
    <3> QED BY <3>1, <3>3
  <2> HIDE DEF done, all
  <2>11. Written(g, h, new) /\ h.nodes = all
    <3>0. h = [f EXCEPT !.nodes = all]
        BY <1>2, <2>10
    <3> HIDE DEF h
    <3>1. /\ DOMAIN h = DOMAIN f /\ h.nodes = all /\ h.inits = f.inits /\ h.ins = f.ins
          /\ h.outs = f.outs /\ h.opset = f.opset /\ h.conv = f.conv /\ h.noint8 = f.noint8
          /\ h.err = f.err /\ h.hung = f.hung
        BY <3>0, <2>9 DEF Fields
    <3> QED BY <2>5, <3>1 DEF Written, SameElse
  <2>12. all = RemoveAt([g.nodes EXCEPT ![p] = Heir(bn, prev)], b)
      BY <2>8 DEF all
  <2>13. bn.op = "BatchNormalization" /\ prev.op \in {"Conv", "Gemm"}
      BY <1>2
  <2> HIDE DEF b, p, Fusable, w, biases, bias, h
  <2> QED BY <2>1, <2>2, <2>4, <2>7, <2>11, <2>12, <2>13 DEF FoldedAt
<1> HIDE DEF h, done, Fusable, new
<1> QED BY <1>1, <1>2 DEF h

\* A handler of ai.onnx.ml nodes replaces the attributes of one node, or gives up.
Attributed(g, h, i, at) ==
    /\ i \in DOMAIN g.nodes /\ g.nodes[i].attr # <<>>
    /\ SameElse(g, h) /\ h.conv = g.conv /\ h.ins = g.ins /\ h.inits = g.inits
    /\ h.nodes = [g.nodes EXCEPT ![i] = [g.nodes[i] EXCEPT !.attr = at]]

LEMMA WithAttrIs ==
    ASSUME NEW g, InPass(g), NEW a, NEW at
    PROVE  \/ WithAttr(g, a, at) = g
           \/ Attributed(g, WithAttr(g, a, at), FindNodeByType(g, a), at)
<1> DEFINE i == FindNodeByType(g, a)
           ns == [g.nodes EXCEPT ![i] = [g.nodes[i] EXCEPT !.attr = at]]
           h == WithAttr(g, a, at)
<1>1. CASE MlAttr(g, a) = <<>>
    BY <1>1 DEF WithAttr
<1>2. CASE MlAttr(g, a) # <<>>
  <2>1. i # 0 /\ g.nodes[i].attr # <<>>
      BY <1>2 DEF MlAttr
  <2>2. i \in DOMAIN g.nodes
      BY <2>1, FindsByType DEF InPass
  <2>3. h = [g EXCEPT !.nodes = ns]
    <3>1. h = [g EXCEPT !.nodes[i].attr = at]
        BY <1>2 DEF WithAttr
    <3> HIDE DEF i, h
    <3> QED BY <3>1
  <2> HIDE DEF ns, h
  <2>4. /\ DOMAIN h = DOMAIN g /\ h.nodes = ns /\ h.inits = g.inits /\ h.ins = g.ins
        /\ h.outs = g.outs /\ h.opset = g.opset /\ h.conv = g.conv /\ h.noint8 = g.noint8
        /\ h.err = g.err /\ h.hung = g.hung
      BY <2>3, FieldsOf DEF Fields
  <2> HIDE DEF i
  <2>5. Attributed(g, h, i, at)
      BY <2>1, <2>2, <2>4 DEF Attributed, SameElse, ns
  <2> QED BY <2>5 DEF h, i
<1> QED BY <1>1, <1>2
-----------------------------------------------------------------------------
(* Lists of nodes changed at one place.                                     *)

LEMMA ReplacedAt ==
    ASSUME NEW s, IsList(s), NEW i \in 1 .. Len(s), NEW m, NEW u, u = [s EXCEPT ![i] = m]
    PROVE  /\ IsList(u) /\ Len(u) = Len(s) /\ Len(s) \in Nat
           /\ u[i] = m /\ \A k \in 1 .. Len(s) : k # i => u[k] = s[k]
           /\ ToSet(u) \subseteq ToSet(s) \cup {m}
<1> DEFINE T == ToSet(s) \cup {m}
<1>1. s \in Seq(T) /\ m \in T
    BY DEF IsList
<1> HIDE DEF T
<1>2. /\ u \in Seq(T) /\ Len(u) = Len(s) /\ Len(s) \in Nat
      /\ u[i] = m /\ \A k \in 1 .. Len(s) : k # i => u[k] = s[k]
    BY <1>1
<1> QED BY <1>2, ListOf DEF T

LEMMA JoinedSeqs ==
    ASSUME NEW T, NEW s \in Seq(T), NEW t \in Seq(T)
    PROVE  /\ s \o t \in Seq(T) /\ Len(s \o t) = Len(s) + Len(t)
           /\ \A k \in 1 .. Len(s) : (s \o t)[k] = s[k]
           /\ \A k \in 1 .. Len(t) : (s \o t)[Len(s) + k] = t[k]
OBVIOUS

Inserted(s, u, i, m) ==
    /\ IsList(u) /\ Len(u) = Len(s) + 1 /\ Len(s) \in Nat
    /\ \A k \in 1 .. i : u[k] = s[k]
    /\ u[i + 1] = m
    /\ \A k \in i + 1 .. Len(s) : u[k + 1] = s[k]
    /\ ToSet(u) \subseteq ToSet(s) \cup {m}

LEMMA InsertedAt ==
    ASSUME NEW s, IsList(s), NEW i \in 1 .. Len(s), NEW m, NEW u, u = InsertAt(s, i + 1, m)
    PROVE  Inserted(s, u, i, m)
<1> DEFINE T == ToSet(s) \cup {m}
           before == SubSeq(s, 1, i)
           after == SubSeq(s, i + 1, Len(s))
<1>1. s \in Seq(T) /\ m \in T /\ Len(s) \in Nat
    BY ListFacts DEF IsList
<1>2. u = before \o <<m>> \o after
  <2>1. (i + 1) - 1 = i
      OBVIOUS
  <2> QED BY <2>1 DEF InsertAt
<1> HIDE DEF T
<1>3. /\ before \in Seq(T) /\ Len(before) = i /\ \A k \in 1 .. i : before[k] = s[k]
    BY <1>1
<1>4. /\ after \in Seq(T) /\ Len(after) = Len(s) - i
      /\ \A k \in 1 .. Len(s) - i : after[k] = s[k + i]
    BY <1>1
<1> HIDE DEF before, after
<1> DEFINE front == before \o <<m>>
<1>5. /\ front \in Seq(T) /\ Len(front) = i + 1 /\ front[i + 1] = m
      /\ \A k \in 1 .. i : front[k] = s[k]
    BY <1>1, <1>3
<1> HIDE DEF front
<1>6. u = front \o after
    BY <1>2 DEF front
<1>7. /\ u \in Seq(T) /\ Len(u) = Len(s) + 1 /\ u[i + 1] = m
      /\ \A k \in 1 .. i : u[k] = s[k]
      /\ \A k \in 1 .. Len(s) - i : u[k + (i + 1)] = s[k + i]
  <2>1. /\ u \in Seq(T) /\ Len(u) = Len(front) + Len(after)
        /\ \A k \in 1 .. Len(front) : u[k] = front[k]
        /\ \A k \in 1 .. Len(after) : u[Len(front) + k] = after[k]
    <3>1. front \in Seq(T) /\ after \in Seq(T)
        BY <1>4, <1>5
    <3> HIDE DEF front, after
    <3>2. /\ front \o after \in Seq(T) /\ Len(front \o after) = Len(front) + Len(after)
          /\ \A k \in 1 .. Len(front) : (front \o after)[k] = front[k]
          /\ \A k \in 1 .. Len(after) : (front \o after)[Len(front) + k] = after[k]
        BY <3>1, JoinedSeqs
    <3> QED BY <1>6, <3>2, Zenon
  <2>2. \A k \in 1 .. i + 1 : u[k] = front[k]
      BY <1>5, <2>1
  <2>3. ASSUME NEW k \in 1 .. Len(s) - i
        PROVE  u[k + (i + 1)] = s[k + i]
    <3>1. k \in 1 .. Len(after) /\ Len(front) + k = k + (i + 1)
        BY <1>1, <1>4, <1>5
    <3>2. u[Len(front) + k] = after[k] /\ after[k] = s[k + i]
        BY <1>4, <2>1, <3>1
    <3> QED BY <3>1, <3>2
  <2> QED BY <1>1, <1>4, <1>5, <2>1, <2>2, <2>3
<1>8. ASSUME NEW k \in i + 1 .. Len(s) PROVE u[k + 1] = s[k]
  <2>1. k - i \in 1 .. Len(s) - i /\ (k - i) + (i + 1) = k + 1 /\ (k - i) + i = k
      BY <1>1
  <2> QED BY <1>7, <2>1
<1>9. ToSet(u) \subseteq ToSet(s) \cup {m} /\ IsList(u)
    BY <1>7, ListOf DEF T
<1> QED BY <1>1, <1>7, <1>8, <1>9 DEF Inserted

LEMMA RemovedAt ==
    ASSUME NEW s, IsList(s), NEW i \in 1 .. Len(s), NEW u, u = RemoveAt(s, i)
    PROVE  /\ IsList(u) /\ Len(u) = Len(s) - 1 /\ Len(s) \in Nat
           /\ \A k \in 1 .. i - 1 : u[k] = s[k]
           /\ \A k \in i .. Len(s) - 1 : u[k] = s[k + 1]
           /\ ToSet(u) \subseteq ToSet(s)
<1> DEFINE T == ToSet(s)
           before == SubSeq(s, 1, i - 1)
           after == SubSeq(s, i + 1, Len(s))
<1>1. s \in Seq(T) /\ Len(s) \in Nat
    BY ListFacts DEF IsList
<1>2. u = before \o after
    BY DEF RemoveAt
<1> HIDE DEF T
<1>3. /\ before \in Seq(T) /\ Len(before) = i - 1 /\ \A k \in 1 .. i - 1 : before[k] = s[k]
    BY <1>1
<1>4. /\ after \in Seq(T) /\ Len(after) = Len(s) - i
      /\ \A k \in 1 .. Len(s) - i : after[k] = s[k + i]
    BY <1>1
<1> HIDE DEF before, after
<1>5. /\ u \in Seq(T) /\ Len(u) = Len(s) - 1
      /\ \A k \in 1 .. i - 1 : u[k] = s[k]
      /\ \A k \in 1 .. Len(s) - i : u[k + (i - 1)] = s[k + i]
  <2>1. /\ u \in Seq(T) /\ Len(u) = Len(before) + Len(after)
        /\ \A k \in 1 .. Len(before) : u[k] = before[k]
        /\ \A k \in 1 .. Len(after) : u[Len(before) + k] = after[k]
    <3>1. before \in Seq(T) /\ after \in Seq(T)
        BY <1>3, <1>4
    <3>2. /\ before \o after \in Seq(T) /\ Len(before \o after) = Len(before) + Len(after)
          /\ \A k \in 1 .. Len(before) : (before \o after)[k] = before[k]
          /\ \A k \in 1 .. Len(after) : (before \o after)[Len(before) + k] = after[k]
        BY <3>1, JoinedSeqs
    <3> QED BY <1>2, <3>2, Zenon
  <2>2. Len(u) = Len(s) - 1 /\ \A k \in 1 .. i - 1 : u[k] = s[k]
      BY <1>1, <1>3, <1>4, <2>1
  <2>3. ASSUME NEW k \in 1 .. Len(s) - i
        PROVE  u[k + (i - 1)] = s[k + i]
    <3>1. k \in 1 .. Len(after) /\ Len(before) + k = k + (i - 1)
        BY <1>1, <1>3, <1>4
    <3>2. u[Len(before) + k] = after[k] /\ after[k] = s[k + i]
        BY <1>4, <2>1, <3>1
    <3> QED BY <3>1, <3>2
  <2> QED BY <2>1, <2>2, <2>3
<1>6. ASSUME NEW k \in i .. Len(s) - 1 PROVE u[k] = s[k + 1]
  <2>1. k - (i - 1) \in 1 .. Len(s) - i /\ (k - (i - 1)) + (i - 1) = k /\ (k - (i - 1)) + i = k + 1
      BY <1>1
  <2> QED BY <1>5, <2>1
<1> QED BY <1>1, <1>5, <1>6, ListOf DEF T

\* What the three rewritings make of the nodes of a graph.
LEMMA SplitNodes ==
    ASSUME NEW g, InPass(g), NEW h, NEW name, NEW i, NEW w, NEW new,
           SplitAt(g, h, name, i, w, new)
    PROVE  ToSet(h.nodes) \subseteq ToSet(g.nodes)
                                     \cup {Half(g.nodes[i]), SecondNode(name, g.nodes[i], w)}
<1> DEFINE first == [g.nodes EXCEPT ![i] = Half(g.nodes[i])]
<1>1. IsList(g.nodes) /\ i \in 1 .. Len(g.nodes)
    BY ListFacts DEF InPass, WellFormed, SplitAt
<1>2. /\ IsList(first) /\ i \in 1 .. Len(first)
      /\ ToSet(first) \subseteq ToSet(g.nodes) \cup {Half(g.nodes[i])}
    BY <1>1, ReplacedAt
<1>3. h.nodes = InsertAt(first, i + 1, SecondNode(name, g.nodes[i], w))
    BY DEF SplitAt
<1> HIDE DEF first
<1>4. Inserted(first, h.nodes, i, SecondNode(name, g.nodes[i], w))
    BY <1>2, <1>3, InsertedAt
<1> QED BY <1>2, <1>4 DEF Inserted

LEMMA FoldedNodes ==
    ASSUME NEW g, InPass(g), NEW h, NEW name, NEW b, NEW p, NEW new,
           FoldedAt(g, h, name, b, p, new)
    PROVE  ToSet(h.nodes) \subseteq ToSet(g.nodes) \cup {Heir(g.nodes[b], g.nodes[p])}
<1> DEFINE first == [g.nodes EXCEPT ![p] = Heir(g.nodes[b], g.nodes[p])]
<1>1. IsList(g.nodes) /\ p \in 1 .. Len(g.nodes) /\ b \in 1 .. Len(g.nodes)
    BY ListFacts DEF InPass, WellFormed, FoldedAt
<1>2. /\ IsList(first) /\ b \in 1 .. Len(first)
      /\ ToSet(first) \subseteq ToSet(g.nodes) \cup {Heir(g.nodes[b], g.nodes[p])}
    BY <1>1, ReplacedAt
<1>3. h.nodes = RemoveAt(first, b)
    BY DEF FoldedAt
<1> HIDE DEF first
<1> QED BY <1>2, <1>3, RemovedAt

LEMMA AttributedNodes ==
    ASSUME NEW g, InPass(g), NEW h, NEW i, NEW at, Attributed(g, h, i, at)
    PROVE  ToSet(h.nodes) \subseteq ToSet(g.nodes) \cup {[g.nodes[i] EXCEPT !.attr = at]}
<1>1. IsList(g.nodes) /\ i \in 1 .. Len(g.nodes)
    BY ListFacts DEF InPass, WellFormed, Attributed
<1> QED BY <1>1, ReplacedAt DEF Attributed

\* The fields of the nodes they make.
LEMMA HalfIs ==
    ASSUME NEW n, NEW m, m = Half(n), NamedNode(n), WellFormedNode(n)
    PROVE  /\ m.name = n.name /\ m.op = n.op /\ m.in = n.in /\ m.attr = n.attr
           /\ IsList(m.out) /\ Len(m.out) = Len(n.out) /\ m.out[1] = Middle(n)
           /\ \A k \in 1 .. Len(n.out) : k # 1 => m.out[k] = n.out[k]
           /\ ToSet(m.out) \subseteq ToSet(n.out) \cup {Middle(n)}
           /\ IsList(n.out[1]) /\ IsList(Middle(n)) /\ n.out[1] \in ToSet(n.out)
           /\ NamedNode(m)
<1> DEFINE o == [n.out EXCEPT ![1] = Middle(n)]
<1>0. {"name", "op", "in", "out", "attr"} \subseteq DOMAIN n
    BY DEF WellFormedNode
<1>1. /\ m.name = n.name /\ m.op = n.op /\ m.in = n.in /\ m.attr = n.attr
      /\ m.out = o
    BY <1>0 DEF Half
<1>2. 1 \in 1 .. Len(n.out) /\ IsList(n.out)
    BY ListFacts DEF NamedNode
<1>3. n.out[1] \in ToSet(n.out)
    BY <1>2, ListFacts
<1>4. IsList(n.out[1])
    BY <1>3 DEF NamedNode
<1>5. IsList(Middle(n))
    BY <1>4, PartAppended DEF Middle
<1>6. /\ IsList(o) /\ Len(o) = Len(n.out) /\ o[1] = Middle(n)
      /\ \A k \in 1 .. Len(n.out) : k # 1 => o[k] = n.out[k]
      /\ ToSet(o) \subseteq ToSet(n.out) \cup {Middle(n)}
    BY <1>2, ReplacedAt, SMTT(40)
<1> HIDE DEF o
<1>7. NamedNode(m)
    BY <1>1, <1>5, <1>6 DEF NamedNode
<1> QED BY <1>1, <1>3, <1>4, <1>5, <1>6, <1>7 DEF o

SecondHas(m, n, w, name) ==
    /\ m.name = Append(name, "svd_v") /\ m.op = "MatMul" /\ m.attr = <<>>
    /\ IsList(m.in) /\ m.out = <<n.out[1]>>
    /\ Middle(n) \in ToSet(m.in) /\ Factor(w) \in ToSet(m.in)
    /\ \A y \in ToSet(m.in) : y = Middle(n) \/ y = Factor(w)

LEMMA SecondIs ==
    ASSUME NEW n, NEW w, NEW name, NEW m, m = SecondNode(name, n, w), NamedNode(n),
           IsList(w), IsList(name)
    PROVE  SecondHas(m, n, w, name) /\ NamedNode(m)
<1> DEFINE in == <<Middle(n), Factor(w)>>
<1>1. /\ m.name = Append(name, "svd_v") /\ m.op = "MatMul" /\ m.attr = <<>>
      /\ m.in = in /\ m.out = <<n.out[1]>>
  <2>1. m = NewNode(Append(name, "svd_v"), "MatMul", in, <<n.out[1]>>)
      BY DEF SecondNode
  <2> HIDE DEF in
  <2> QED BY <2>1 DEF NewNode
<1>2. IsList(in) /\ ToSet(in) = {Middle(n), Factor(w)}
  <2>1. in \in Seq({Middle(n), Factor(w)}) /\ DOMAIN in = 1 .. 2
      OBVIOUS
  <2>2. in[1] = Middle(n) /\ in[2] = Factor(w) /\ 1 .. 2 = {1, 2}
      OBVIOUS
  <2> HIDE DEF in
  <2> QED BY <2>1, <2>2, ListOf DEF ToSet
<1> HIDE DEF in
<1>3. IsList(m.name)
    BY <1>1, PartAppended
<1>4. n.out[1] \in ToSet(n.out)
  <2>1. 1 \in 1 .. Len(n.out) /\ IsList(n.out)
      BY ListFacts DEF NamedNode
  <2> QED BY <2>1, ListFacts
<1>5. IsList(n.out[1])
    BY <1>4 DEF NamedNode
<1>6. IsList(Middle(n)) /\ IsList(Factor(w))
    BY <1>5, PartAppended DEF Middle, Factor
<1>7. IsList(m.out) /\ ToSet(m.out) = {n.out[1]} /\ Len(m.out) = 1
    BY <1>1, OneList
<1>8. SecondHas(m, n, w, name)
    BY <1>1, <1>2 DEF SecondHas
<1> QED BY <1>1, <1>2, <1>3, <1>5, <1>6, <1>7, <1>8 DEF NamedNode

LEMMA HeirIs ==
    ASSUME NEW bn, NEW n, NEW m, m = Heir(bn, n), NamedNode(n), WellFormedNode(n),
           WellFormedNode(bn), NamedNode(bn)
    PROVE  /\ m.name = n.name /\ m.op = n.op /\ m.attr = n.attr
           /\ IsList(m.in) /\ ToSet(m.in) \subseteq ToSet(n.in) \cup {Append(n.name, "fused_bias")}
           /\ Len(n.in) > 2 => m.in = n.in
           /\ IsList(m.out) /\ Len(m.out) = Len(n.out) /\ m.out[1] = bn.out[1]
           /\ \A k \in 1 .. Len(n.out) : k # 1 => m.out[k] = n.out[k]
           /\ bn.out[1] \in ToSet(bn.out)
           /\ NamedNode(m)
<1> DEFINE o == [n.out EXCEPT ![1] = bn.out[1]]
           v == IF Len(n.in) > 2 THEN n.in ELSE Append(n.in, Append(n.name, "fused_bias"))
<1>0. {"name", "op", "in", "out", "attr"} \subseteq DOMAIN n
    BY DEF WellFormedNode
<1>1. m = [n EXCEPT !.in = v, !.out = o]
  <2>1. m = [n EXCEPT !.in = v, !.out[1] = bn.out[1]]
      BY <1>0 DEF Heir
  <2> HIDE DEF v
  <2> QED BY <1>0, <2>1
<1> HIDE DEF o, v
<1>2. /\ m.name = n.name /\ m.op = n.op /\ m.attr = n.attr /\ m.in = v /\ m.out = o
    BY <1>0, <1>1
<1>3. /\ 1 \in 1 .. Len(n.out) /\ IsList(n.out) /\ 1 \in 1 .. Len(bn.out) /\ IsList(bn.out)
      /\ IsList(n.in)
    BY ListFacts DEF NamedNode, WellFormedNode
<1>4. bn.out[1] \in ToSet(bn.out)
    BY <1>3, ListFacts
<1>5. IsList(bn.out[1]) /\ IsList(Append(n.name, "fused_bias"))
    BY <1>4, PartAppended DEF NamedNode
<1>6. /\ IsList(o) /\ Len(o) = Len(n.out) /\ o[1] = bn.out[1]
      /\ \A k \in 1 .. Len(n.out) : k # 1 => o[k] = n.out[k]
      /\ ToSet(o) \subseteq ToSet(n.out) \cup {bn.out[1]}
  <2> DEFINE s == n.out
             y == bn.out[1]
             i == 1
             t == [s EXCEPT ![i] = y]
  <2>1. IsList(s) /\ i \in 1 .. Len(s)
      BY <1>3
  <2> HIDE DEF s, y, i
  <2>2. IsList(t) /\ Len(t) = Len(s)
      BY <2>1, ReplacedAt
  <2>3. t[i] = y
      BY <2>1, ReplacedAt
  <2>4. \A k \in 1 .. Len(s) : k # i => t[k] = s[k]
      BY <2>1, ReplacedAt
  <2>5. ToSet(t) \subseteq ToSet(s) \cup {y}
      BY <2>1, ReplacedAt
  <2>6. o = t
      BY DEF o, s, y, i
  <2> HIDE DEF t
  <2> QED BY <2>2, <2>3, <2>4, <2>5, <2>6 DEF s, y, i
<1>7. /\ IsList(v) /\ ToSet(v) \subseteq ToSet(n.in) \cup {Append(n.name, "fused_bias")}
      /\ Len(n.in) > 2 => v = n.in
  <2>1. CASE Len(n.in) > 2
      BY <1>3, <2>1 DEF v
  <2>2. CASE ~(Len(n.in) > 2)
    <3> DEFINE y == Append(n.name, "fused_bias")
               T == ToSet(n.in) \cup {y}
    <3>1. n.in \in Seq(T) /\ y \in T
        BY <1>3 DEF IsList
    <3>2. v = Append(n.in, y)
        BY <2>2 DEF v
    <3> HIDE DEF y, T
    <3>3. v \in Seq(T)
        BY <3>1, <3>2
    <3> QED BY <2>2, <3>3, ListOf DEF T, y
  <2> QED BY <2>1, <2>2
<1>8. NamedNode(m)
  <2>1. \A y \in ToSet(m.in) \cup ToSet(m.out) : IsList(y)
      BY <1>2, <1>5, <1>6, <1>7 DEF NamedNode
  <2> QED BY <1>2, <1>6, <2>1 DEF NamedNode
<1> QED BY <1>2, <1>4, <1>6, <1>7, <1>8
-----------------------------------------------------------------------------
(* What one action does to a graph in a pass.                               *)

\* The weights a node reads, converted one after the other: f are the graphs on the way.
Conversions(f, g, h, n, level) ==
    /\ f[0] = g /\ f[Len(n.in)] = h
    /\ \A k \in 1 .. Len(n.in) : f[k] = Convert(f[k - 1], n.in[k], level, n)

LEMMA QuantizeIs ==
    ASSUME NEW g, InPass(g), NEW a
    PROVE  \/ QuantizeWeights(g, a) = g
           \/ \E n \in ToSet(g.nodes) : \E f :
                 n.name = a.name /\ Conversions(f, g, QuantizeWeights(g, a), n, a.arg)
<1> DEFINE i == FindNode(g, a.name)
           n == g.nodes[i]
           c == [level |-> a.arg, consumer |-> n]
           h == QuantizeWeights(g, a)
<1>1. CASE i = 0
    BY <1>1 DEF QuantizeWeights
<1>2. CASE i # 0
  <2>1. h = FoldLeft(LAMBDA u, x : Convert(u, x, a.arg, n), g, n.in)
      BY <1>2 DEF QuantizeWeights
  <2>2. c.level = a.arg /\ c.consumer = n
      OBVIOUS
  <2>3. n \in ToSet(g.nodes) /\ n.name = a.name
    <3>1. WellFormed(g)
        BY DEF InPass
    <3> HIDE DEF i
    <3> QED BY <1>2, <3>1, FindsNamed DEF i
  <2> HIDE DEF c, n, h
  <2>4. h = Conversion!Folded(c, g, n.in)
      BY <2>1, <2>2 DEF Conversion!Folded, FoldLeft, MapThenFoldSet, ConvertOne, Max,
             Conversion!FoldLeft, Conversion!MapThenFoldSet, Conversion!Max
  <2>5. IsList(n.in) /\ Len(n.in) \in Nat /\ DOMAIN n.in = 1 .. Len(n.in)
    <3>1. IsList(n.in)
        BY <2>3, NodeOf
    <3> QED BY <3>1, ListFacts
  <2> DEFINE m == Len(n.in)
  <2>6. PICK F : /\ Conversion!Unfolds(F, c, g, n.in, SUBSET (1 .. m))
                 /\ h = F[1 .. m]
    <3>1. Conversion!Unfolded(c, g, n.in)
        BY <2>5, Conversion!FoldIs
    <3> QED BY <2>4, <2>5, <3>1 DEF Conversion!Unfolded
  <2> DEFINE f == [k \in 0 .. m |-> F[1 .. k]]
  <2>7. f[0] = g
    <3>1. 1 .. 0 = {} /\ {} \in SUBSET (1 .. m) /\ 0 \in 0 .. m
        BY <2>5
    <3> QED BY <2>6, <3>1 DEF Conversion!Unfolds
  <2>8. f[m] = h
      BY <2>5, <2>6
  <2>9. ASSUME NEW k \in 1 .. m PROVE f[k] = Convert(f[k - 1], n.in[k], a.arg, n)
    <3> DEFINE T == 1 .. k
    <3>1. T \in SUBSET (1 .. m) /\ T # {} /\ k \in 0 .. m /\ k - 1 \in 0 .. m
        BY <2>5
    <3>2. Conversion!Max(T) = k /\ T \ {k} = 1 .. k - 1
      <4>1. k \in T /\ \A j \in T : k >= j
          BY <2>5
      <4>2. \A j \in T : (\A l \in T : j >= l) => j = k
          BY <2>5
      <4> HIDE DEF T
      <4>3. Conversion!Max(T) = k
          BY <4>1, <4>2 DEF Conversion!Max
      <4> QED BY <2>5, <4>3 DEF T
    <3> HIDE DEF T
    <3>3. F[T] = ConvertOne(c, F[T \ {k}], n.in[k])
        BY <2>6, <3>1, <3>2 DEF Conversion!Unfolds
    <3>4. f[k] = F[T] /\ f[k - 1] = F[T \ {k}]
        BY <3>1, <3>2 DEF T
    <3> QED BY <2>2, <3>3, <3>4 DEF ConvertOne
  <2> HIDE DEF f
  <2>10. Conversions(f, g, h, n, a.arg)
      BY <2>7, <2>8, <2>9 DEF Conversions
  <2> QED BY <2>3, <2>10 DEF h
<1> QED BY <1>1, <1>2

QuantKinds == {"quantization", "param_quantization", "embedding_quantization"}

\* What becomes of g under action a.
Stopped(g, h) == h = g \/ h = [g EXCEPT !.err = TRUE] \/ h = [g EXCEPT !.hung = TRUE]
Quantized(g, h, a) ==
    /\ a.kind \in QuantKinds
    /\ \E n \in ToSet(g.nodes) : \E f : n.name = a.name /\ Conversions(f, g, h, n, a.arg)
Pruned(g, h, a) ==
    \E n \in ToSet(g.nodes) : \E new :
        /\ n.name = a.name /\ DOMAIN new \subseteq ToSet(n.in) \cap DOMAIN g.inits
        /\ Written(g, h, new) /\ h.nodes = g.nodes
Split(g, h, a) ==
    a.kind = "low_rank_svd" /\ \E i, w, new : SplitAt(g, h, a.name, i, w, new)
Fused(g, h, a) ==
    a.kind = "bn_fusion" /\ \E b, p, new : FoldedAt(g, h, a.name, b, p, new)
Reweighted(g, h) == \E i, at : Attributed(g, h, i, at)

LEMMA AttrHandlers ==
    ASSUME NEW g, InPass(g), NEW a,
           NEW h \in {RoundCoefficients(g, a), RoundLeaves(g, a), PruneTrees(g, a),
                      MergeLeaves(g, a), LimitDepth(g, a), ZeroSmall(g, a)}
    PROVE  Stopped(g, h) \/ Reweighted(g, h)
<1>1. h = g \/ h = [g EXCEPT !.hung = TRUE] \/ \E at : h = WithAttr(g, a, at)
    BY DEF RoundCoefficients, RoundLeaves, PruneTrees, MergeLeaves, LimitDepth, ZeroSmall
<1> QED BY <1>1, WithAttrIs DEF Stopped, Reweighted

LEMMA HandleIs ==
    ASSUME NEW g, InPass(g), NEW a, NEW h, h = Handle(g, a)
    PROVE  \/ Stopped(g, h) \/ Reweighted(g, h)
           \/ Quantized(g, h, a) \/ Pruned(g, h, a) \/ Split(g, h, a) \/ Fused(g, h, a)
<1>1. \/ h = g
      \/ a.kind \in QuantKinds /\ h = QuantizeWeights(g, a)
      \/ h = PruneChannels(g, a)
      \/ a.kind = "low_rank_svd" /\ h = LowRank(g, a)
      \/ a.kind = "bn_fusion" /\ h = FuseBatchNorm(g, a)
      \/ h \in {RoundCoefficients(g, a), RoundLeaves(g, a), PruneTrees(g, a),
                MergeLeaves(g, a), LimitDepth(g, a), ZeroSmall(g, a)}
    BY DEF Handle, QuantKinds
<1>2. CASE a.kind \in QuantKinds /\ h = QuantizeWeights(g, a)
    BY <1>2, QuantizeIs DEF Quantized, Stopped
<1>3. CASE h = PruneChannels(g, a)
    BY <1>3, PruneIs DEF Pruned, Stopped
<1>4. CASE a.kind = "low_rank_svd" /\ h = LowRank(g, a)
    BY <1>4, LowRankIs DEF Split, Stopped
<1>5. CASE a.kind = "bn_fusion" /\ h = FuseBatchNorm(g, a)
    BY <1>5, FuseIs DEF Fused, Stopped
<1> QED BY <1>1, <1>2, <1>3, <1>4, <1>5, AttrHandlers DEF Stopped

\* A well-formed graph with lists for names is one in a pass.
LEMMA StillInPass ==
    ASSUME NEW g, InPass(g), NEW h, WellFormed(h), DOMAIN h = DOMAIN g,
           \A y \in DOMAIN h.inits : IsList(y),
           \A n \in ToSet(h.nodes) \ ToSet(g.nodes) : NamedNode(n)
    PROVE  InPass(h)
BY DEF InPass, ListNamed

LEMMA StoppedFields ==
    ASSUME NEW g, InPass(g), NEW h, Stopped(g, h)
    PROVE  /\ DOMAIN h = DOMAIN g /\ h.nodes = g.nodes /\ h.inits = g.inits /\ h.ins = g.ins
           /\ h.outs = g.outs /\ h.opset = g.opset /\ h.conv = g.conv /\ h.noint8 = g.noint8
           /\ (h.err = g.err /\ h.hung = g.hung) \/ h.err = TRUE \/ h.hung = TRUE
<1>1. Fields \subseteq DOMAIN g
    BY FieldsOf
<1> QED BY <1>1 DEF Stopped, Fields

\* A chain of conversions keeps what each of them keeps.
LEMMA ChainKeeps ==
    ASSUME NEW f, NEW g, NEW h, NEW n, NEW level, Conversions(f, g, h, n, level), IsList(n.in),
           NEW Fine, g \in Fine,
           \A k \in 1 .. Len(n.in) : f[k - 1] \in Fine => f[k] \in Fine
    PROVE  h \in Fine
<1> DEFINE Good == {k \in Nat : k <= Len(n.in) => f[k] \in Fine}
<1>1. 0 \in Good
    BY DEF Conversions
<1>2. ASSUME NEW k \in Nat, k \in Good PROVE k + 1 \in Good
  <2>1. Len(n.in) \in Nat
      BY ListFacts
  <2>2. ASSUME k + 1 <= Len(n.in) PROVE f[k + 1] \in Fine
    <3>1. k + 1 \in 1 .. Len(n.in) /\ (k + 1) - 1 = k /\ k <= Len(n.in)
        BY <2>1, <2>2
    <3>2. f[k] \in Fine
        BY <1>2, <3>1
    <3> QED BY <3>1, <3>2
  <2> QED BY <2>2
<1>3. \A k \in Nat : k \in Good
  <2> HIDE DEF Good
  <2> QED BY <1>1, <1>2, NatSetInduction
<1>4. Len(n.in) \in Nat
    BY ListFacts
<1> QED BY <1>3, <1>4 DEF Conversions

LEMMA HandleInPass ==
    ASSUME NEW g, InPass(g), NEW a, WellFormedAction(a)
    PROVE  InPass(Handle(g, a))
<1> DEFINE h == Handle(g, a)
<1>0. WellFormed(h)
    BY HandleKeeps DEF InPass
<1> SUFFICES InPass(h)
    OBVIOUS
<1> HIDE DEF h
<1>1. CASE Stopped(g, h)
  <2>1. DOMAIN h = DOMAIN g /\ h.nodes = g.nodes /\ h.inits = g.inits
      BY <1>1, StoppedFields
  <2> QED BY <1>0, <2>1 DEF InPass, ListNamed
<1>2. CASE Quantized(g, h, a)
  <2>1. PICK n, f : n \in ToSet(g.nodes) /\ Conversions(f, g, h, n, a.arg)
      BY <1>2 DEF Quantized
  <2>2. IsList(n.in) /\ NamedNode(n)
      BY <2>1, NodeOf
  <2> DEFINE Fine == {f[k] : k \in {k \in 0 .. Len(n.in) : InPass(f[k])}}
  <2>3. Len(n.in) \in Nat /\ f[0] = g
      BY <2>1, <2>2, ListFacts DEF Conversions
  <2>4. g \in Fine
      BY <2>3
  <2>5. ASSUME NEW k \in 1 .. Len(n.in), f[k - 1] \in Fine PROVE f[k] \in Fine
    <3>1. InPass(f[k - 1])
        BY <2>5
    <3>2. IsList(n.in[k])
        BY <2>2, ListFacts DEF NamedNode
    <3>3. f[k] = Convert(f[k - 1], n.in[k], a.arg, n)
        BY <2>1 DEF Conversions
    <3>4. InPass(f[k])
        BY <3>1, <3>2, <3>3, ConvertInPass
    <3> QED BY <2>3, <3>4
  <2>6. h \in Fine
    <3> HIDE DEF Fine
    <3> QED BY <2>1, <2>2, <2>4, <2>5, ChainKeeps
  <2> QED BY <2>6
<1>3. CASE Pruned(g, h, a)
  <2>1. PICK n, new : /\ n \in ToSet(g.nodes) /\ DOMAIN new \subseteq DOMAIN g.inits
                          /\ Written(g, h, new) /\ h.nodes = g.nodes
      BY <1>3 DEF Pruned
  <2>2. DOMAIN h.inits = DOMAIN g.inits \cup DOMAIN new /\ DOMAIN h = DOMAIN g
      BY <2>1 DEF Written, SameElse, Overlaid
  <2> QED BY <1>0, <2>1, <2>2, StillInPass DEF InPass, ListNamed
<1>4. CASE Split(g, h, a)
  <2>1. PICK i, w, new : SplitAt(g, h, a.name, i, w, new)
      BY <1>4 DEF Split
  <2>2. /\ g.nodes[i] \in ToSet(g.nodes) /\ g.nodes[i].name = a.name /\ w \in DOMAIN g.inits
        /\ DOMAIN h = DOMAIN g /\ DOMAIN h.inits = DOMAIN g.inits \cup {w, Factor(w)}
      BY <2>1 DEF SplitAt, Written, SameElse, Overlaid, ToSet
  <2>3. IsList(w) /\ NamedNode(g.nodes[i]) /\ WellFormedNode(g.nodes[i]) /\ IsList(a.name)
      BY <2>2, NodeOf DEF InPass, ListNamed, NamedNode
  <2>4. IsList(Factor(w))
      BY <2>3, PartAppended DEF Factor
  <2>5. NamedNode(Half(g.nodes[i])) /\ NamedNode(SecondNode(a.name, g.nodes[i], w))
    <3>1. NamedNode(Half(g.nodes[i]))
        BY <2>3, HalfIs
    <3>2. NamedNode(SecondNode(a.name, g.nodes[i], w))
        BY <2>3, SecondIs
    <3> QED BY <3>1, <3>2
  <2>6. \A n \in ToSet(h.nodes) \ ToSet(g.nodes) : NamedNode(n)
      BY <2>1, <2>5, SplitNodes
  <2>7. \A y \in DOMAIN h.inits : IsList(y)
      BY <2>2, <2>3, <2>4 DEF InPass, ListNamed
  <2> QED BY <1>0, <2>2, <2>6, <2>7, StillInPass
<1>5. CASE Fused(g, h, a)
  <2>1. PICK b, p, new : FoldedAt(g, h, a.name, b, p, new)
      BY <1>5 DEF Fused
  <2>2. /\ g.nodes[b] \in ToSet(g.nodes) /\ g.nodes[p] \in ToSet(g.nodes)
        /\ DOMAIN h = DOMAIN g /\ DOMAIN h.inits = DOMAIN g.inits \cup DOMAIN new
      BY <2>1 DEF FoldedAt, Written, SameElse, Overlaid, ToSet
  <2>3. /\ NamedNode(g.nodes[p]) /\ WellFormedNode(g.nodes[p])
        /\ NamedNode(g.nodes[b]) /\ WellFormedNode(g.nodes[b])
      BY <2>2, NodeOf
  <2>4. IsList(Append(g.nodes[p].name, "fused_bias"))
      BY <2>3, PartAppended DEF NamedNode
  <2>5. NamedNode(Heir(g.nodes[b], g.nodes[p]))
      BY <2>3, HeirIs
  <2>6. \A n \in ToSet(h.nodes) \ ToSet(g.nodes) : NamedNode(n)
      BY <2>1, <2>5, FoldedNodes
  <2>7. \A y \in DOMAIN new : y \in DOMAIN g.inits \/ y = Append(g.nodes[p].name, "fused_bias")
      BY <2>1 DEF FoldedAt
  <2>8. \A y \in DOMAIN h.inits : IsList(y)
      BY <2>2, <2>4, <2>7 DEF InPass, ListNamed
  <2> QED BY <1>0, <2>2, <2>6, <2>8, StillInPass
<1>6. CASE Reweighted(g, h)
  <2>1. PICK i, at : Attributed(g, h, i, at)
      BY <1>6 DEF Reweighted
  <2>2. g.nodes[i] \in ToSet(g.nodes) /\ DOMAIN h = DOMAIN g /\ h.inits = g.inits
      BY <2>1 DEF Attributed, SameElse, ToSet
  <2>3. NamedNode(g.nodes[i]) /\ WellFormedNode(g.nodes[i])
      BY <2>2, NodeOf
  <2> DEFINE m == [g.nodes[i] EXCEPT !.attr = at]
  <2>4. m.name = g.nodes[i].name /\ m.in = g.nodes[i].in /\ m.out = g.nodes[i].out
      BY <2>3 DEF WellFormedNode
  <2>5. ToSet(h.nodes) \subseteq ToSet(g.nodes) \cup {m}
      BY <2>1, AttributedNodes
  <2> HIDE DEF m
  <2>6. NamedNode(m)
      BY <2>3, <2>4 DEF NamedNode
  <2> QED BY <1>0, <2>2, <2>5, <2>6, StillInPass DEF InPass, ListNamed
<1> QED BY <1>1, <1>2, <1>3, <1>4, <1>5, <1>6, HandleIs DEF h
-----------------------------------------------------------------------------
(* A weight nobody asked to change.                                         *)

\* What the low rank and the fusion name after the part they are made from, without
\* looking whether the name is taken.
Reserved == {"svd_v", "svd_mid", "fused_bias"}
Ends(x, parts) == x # <<>> /\ x[Len(x)] \in parts

\* A file whose names are lists and tell its nodes apart, none of its weights being
\* called as the transformer calls its own.
ToldApart(g) ==
    /\ ListNamed(g)
    /\ \A i, j \in Nodes(g) : g.nodes[i].name = g.nodes[j].name /\ i # j => g.nodes[i].name = NoName
    /\ \A x \in DOMAIN g.inits : ~Ends(x, Reserved)

\* u.keep are the weights nobody asked to change and u.base what they were, u.own the
\* names of the nodes to be changed, u.fused those of them to be fused.
Untouched(u, g) ==
    /\ InPass(g)
    /\ \A x \in u.keep : x \in DOMAIN g.inits /\ g.inits[x] = u.base[x]
    /\ \A n \in ToSet(g.nodes) : n.name \in u.own => ToSet(n.in) \cap u.keep = {}
    /\ \A b, p \in ToSet(g.nodes) :
          b.name \in u.fused /\ b.op = "BatchNormalization" /\ b.in[1] \in ToSet(p.out)
              => ToSet(p.in) \cap u.keep = {}

NoneReserved(u) == \A x \in u.keep : ~Ends(x, Reserved)

LEMMA EndsIs ==
    ASSUME NEW x, IsList(x), NEW p, NEW parts, p \in parts
    PROVE  Ends(Append(x, p), parts)
<1>1. /\ IsList(Append(x, p)) /\ Len(Append(x, p)) = Len(x) + 1 /\ Len(x) \in Nat
      /\ Append(x, p)[Len(x) + 1] = p
    BY PartAppended
<1>2. Append(x, p) # <<>>
  <2>1. Len(<<>>) = 0
      OBVIOUS
  <2> DEFINE y == Append(x, p)
  <2>2. Len(y) # 0
      BY <1>1
  <2> HIDE DEF y
  <2>3. y # <<>>
      BY <2>1, <2>2
  <2> QED BY <2>3 DEF y
<1> QED BY <1>1, <1>2 DEF Ends

LEMMA ReservedApart ==
    ASSUME NEW u, NoneReserved(u), NEW x, IsList(x)
    PROVE  \A p \in Reserved : Append(x, p) \notin u.keep
BY EndsIs DEF NoneReserved

\* A node that reads nothing kept may be added or changed as long as a normalization
\* to be fused keeps its input.
LEMMA NodesUntouched ==
    ASSUME NEW u, NEW g, Untouched(u, g), NEW h, InPass(h),
           \A x \in u.keep : x \in DOMAIN h.inits /\ h.inits[x] = g.inits[x],
           \A n \in ToSet(h.nodes) \ ToSet(g.nodes) : ToSet(n.in) \cap u.keep = {},
           \A n \in ToSet(h.nodes) \ ToSet(g.nodes) :
              n.op = "BatchNormalization" => \E m \in ToSet(g.nodes) :
                                                m.name = n.name /\ m.op = n.op /\ m.in = n.in
    PROVE  Untouched(u, h)
<1>1. ASSUME NEW b \in ToSet(h.nodes), NEW p \in ToSet(h.nodes),
             b.name \in u.fused, b.op = "BatchNormalization", b.in[1] \in ToSet(p.out)
      PROVE  ToSet(p.in) \cap u.keep = {}
  <2>1. CASE p \in ToSet(g.nodes)
    <3>1. PICK m \in ToSet(g.nodes) : m.name = b.name /\ m.op = b.op /\ m.in = b.in
        BY <1>1
    <3> QED BY <1>1, <2>1, <3>1 DEF Untouched
  <2> QED BY <2>1
<1> QED BY <1>1 DEF Untouched

LEMMA ConvertUntouched ==
    ASSUME NEW u, NEW g, Untouched(u, g), NEW x, IsList(x), x \notin u.keep,
           NEW level, NEW consumer
    PROVE  Untouched(u, Convert(g, x, level, consumer))
<1> DEFINE h == Convert(g, x, level, consumer)
<1> SUFFICES Untouched(u, h)
    OBVIOUS
<1>0. InPass(h) /\ InPass(g)
    BY ConvertInPass DEF Untouched
<1>1. h = g \/ \E new, n : ConvertedTo(g, h, x, level, new, n)
    BY <1>0, ConvertIs
<1> HIDE DEF h
<1>2. ASSUME NEW new, NEW n, ConvertedTo(g, h, x, level, new, n) PROVE Untouched(u, h)
  <2>1. Moved(g, h, x, new, n)
      BY <1>2 DEF ConvertedTo
  <2>2. /\ ToSet(h.nodes) = {n} \cup ToSet(g.nodes)
        /\ \A y \in DOMAIN g.inits \ {x} : y \in DOMAIN h.inits /\ h.inits[y] = g.inits[y]
        /\ \A y \in ToSet(n.in) : y \notin DOMAIN g.inits
      BY <1>0, <2>1, MovedTo
  <2>3. \A y \in u.keep : y \in DOMAIN g.inits \ {x}
      BY DEF Untouched
  <2>4. n.op # "BatchNormalization"
      BY <2>1 DEF Moved
  <2> QED BY <1>0, <2>2, <2>3, <2>4, NodesUntouched
<1> QED BY <1>1, <1>2

\* An action changes no weight that is kept: those its node reads are not, nor those of
\* the producer a fusion folds into, and what it makes has a name of its own.
LEMMA HandleUntouched ==
    ASSUME NEW u, NEW g, Untouched(u, g), NoneReserved(u), NEW a, WellFormedAction(a),
           a.name \in u.own, a.kind = "bn_fusion" => a.name \in u.fused
    PROVE  Untouched(u, Handle(g, a))
<1> DEFINE h == Handle(g, a)
<1> SUFFICES Untouched(u, h)
    OBVIOUS
<1>0. InPass(h) /\ InPass(g)
    BY HandleInPass DEF Untouched
<1> HIDE DEF h
<1>1. CASE Stopped(g, h)
  <2>1. h.nodes = g.nodes /\ h.inits = g.inits
      BY <1>0, <1>1, StoppedFields
  <2> QED BY <1>0, <2>1 DEF Untouched
<1>2. CASE Quantized(g, h, a)
  <2>1. PICK n, f : n \in ToSet(g.nodes) /\ n.name = a.name /\ Conversions(f, g, h, n, a.arg)
      BY <1>2 DEF Quantized
  <2>2. IsList(n.in) /\ NamedNode(n) /\ ToSet(n.in) \cap u.keep = {}
      BY <1>0, <2>1, NodeOf DEF Untouched
  <2> DEFINE Fine == {f[k] : k \in {k \in 0 .. Len(n.in) : Untouched(u, f[k])}}
  <2>3. Len(n.in) \in Nat /\ f[0] = g
      BY <2>1, <2>2, ListFacts DEF Conversions
  <2>4. g \in Fine
      BY <2>3
  <2>5. ASSUME NEW k \in 1 .. Len(n.in), f[k - 1] \in Fine PROVE f[k] \in Fine
    <3>1. Untouched(u, f[k - 1])
        BY <2>5
    <3>2. n.in[k] \in ToSet(n.in)
        BY <2>2, ListFacts
    <3>3. IsList(n.in[k]) /\ n.in[k] \notin u.keep
        BY <2>2, <3>2 DEF NamedNode
    <3>4. f[k] = Convert(f[k - 1], n.in[k], a.arg, n)
        BY <2>1 DEF Conversions
    <3>5. Untouched(u, f[k])
        BY <3>1, <3>3, <3>4, ConvertUntouched
    <3> QED BY <2>3, <3>5
  <2>6. h \in Fine
    <3> HIDE DEF Fine
    <3> QED BY <2>1, <2>2, <2>4, <2>5, ChainKeeps
  <2> QED BY <2>6
<1>3. CASE Pruned(g, h, a)
  <2>1. PICK n, new : /\ n \in ToSet(g.nodes) /\ n.name = a.name
                          /\ DOMAIN new \subseteq ToSet(n.in)
                          /\ Written(g, h, new) /\ h.nodes = g.nodes
      BY <1>3 DEF Pruned
  <2>2. DOMAIN new \cap u.keep = {}
      BY <2>1 DEF Untouched
  <2>3. \A x \in u.keep : x \in DOMAIN h.inits /\ h.inits[x] = g.inits[x]
      BY <2>1, <2>2 DEF Untouched, Written, Overlaid
  <2> QED BY <1>0, <2>1, <2>3, NodesUntouched
<1>4. CASE Split(g, h, a)
  <2>1. PICK i, w, new : SplitAt(g, h, a.name, i, w, new)
      BY <1>4 DEF Split
  <2> DEFINE n == g.nodes[i]
  <2>2. /\ n \in ToSet(g.nodes) /\ n.name = a.name /\ w \in ToSet(n.in) \cap DOMAIN g.inits
        /\ Written(g, h, new) /\ DOMAIN new = {w, Factor(w)}
      BY <2>1 DEF SplitAt, ToSet
  <2> HIDE DEF n
  <2>3. ToSet(h.nodes) \subseteq ToSet(g.nodes) \cup {Half(n), SecondNode(a.name, n, w)}
      BY <1>0, <2>1, SplitNodes DEF n
  <2>4. IsList(w) /\ NamedNode(n) /\ WellFormedNode(n) /\ IsList(a.name)
      BY <1>0, <2>2, NodeOf DEF InPass, ListNamed, NamedNode
  <2>5. Half(n).name = n.name /\ Half(n).op = n.op /\ Half(n).in = n.in /\ IsList(n.out[1])
      BY <2>4, HalfIs
  <2> DEFINE second == SecondNode(a.name, n, w)
  <2>6. /\ second.op = "MatMul"
        /\ \A y \in ToSet(second.in) : y = Middle(n) \/ y = Factor(w)
    <3>1. second = SecondNode(a.name, n, w) /\ NamedNode(n) /\ IsList(w) /\ IsList(a.name)
        BY <2>4
    <3> HIDE DEF second
    <3>2. SecondHas(second, n, w, a.name)
        BY <3>1, SecondIs
    <3> QED BY <3>2 DEF SecondHas
  <2>7. Middle(n) \notin u.keep /\ Factor(w) \notin u.keep
      BY <2>4, <2>5, ReservedApart DEF Middle, Factor, Reserved
  <2>8. ToSet(n.in) \cap u.keep = {}
      BY <2>2 DEF Untouched
  <2>9. \A x \in u.keep : x \in DOMAIN h.inits /\ h.inits[x] = g.inits[x]
      BY <2>2, <2>7, <2>8 DEF Untouched, Written, Overlaid
  <2>10. second.op # "BatchNormalization"
      BY <2>6
  <2>11. ToSet(second.in) \cap u.keep = {}
      BY <2>6, <2>7
  <2> HIDE DEF second
  <2>12. \A m \in ToSet(h.nodes) \ ToSet(g.nodes) : m = Half(n) \/ m = second
      BY <2>3 DEF second
  <2> QED BY <1>0, <2>2, <2>5, <2>8, <2>9, <2>10, <2>11, <2>12, NodesUntouched
<1>5. CASE Fused(g, h, a)
  <2>1. PICK b, p, new : FoldedAt(g, h, a.name, b, p, new)
      BY <1>5 DEF Fused
  <2> DEFINE bn == g.nodes[b]
             n == g.nodes[p]
             bias == Append(n.name, "fused_bias")
  <2>2. /\ bn \in ToSet(g.nodes) /\ bn.name = a.name /\ bn.op = "BatchNormalization"
        /\ n \in ToSet(g.nodes) /\ n.op \in {"Conv", "Gemm"} /\ bn.in[1] \in ToSet(n.out)
        /\ Written(g, h, new) /\ \A y \in DOMAIN new : y \in ToSet(n.in) \/ y = bias
      BY <2>1 DEF FoldedAt, ToSet
  <2>3. ToSet(h.nodes) \subseteq ToSet(g.nodes) \cup {Heir(bn, n)}
      BY <1>0, <2>1, FoldedNodes
  <2> HIDE DEF bn, n
  <2>4. NamedNode(n) /\ WellFormedNode(n) /\ NamedNode(bn) /\ WellFormedNode(bn)
      BY <1>0, <2>2, NodeOf
  <2>5. bias \notin u.keep
      BY <2>4, ReservedApart DEF NamedNode, Reserved
  <2>6. a.name \in u.fused
      BY <1>5 DEF Fused
  <2>7. ToSet(n.in) \cap u.keep = {}
      BY <2>2, <2>6 DEF Untouched
  <2> HIDE DEF bias
  <2>8. Heir(bn, n).op = n.op /\ ToSet(Heir(bn, n).in) \subseteq ToSet(n.in) \cup {bias}
      BY <2>4, HeirIs DEF bias
  <2>9. \A x \in u.keep : x \in DOMAIN h.inits /\ h.inits[x] = g.inits[x]
      BY <2>2, <2>5, <2>7 DEF Untouched, Written, Overlaid
  <2> DEFINE heir == Heir(bn, n)
  <2>10. heir.op # "BatchNormalization" /\ ToSet(heir.in) \cap u.keep = {}
      BY <2>2, <2>5, <2>7, <2>8
  <2> HIDE DEF heir
  <2>11. \A m \in ToSet(h.nodes) \ ToSet(g.nodes) : m = heir
      BY <2>3 DEF heir
  <2> QED BY <1>0, <2>9, <2>10, <2>11, NodesUntouched
<1>6. CASE Reweighted(g, h)
  <2>1. PICK i, at : Attributed(g, h, i, at)
      BY <1>6 DEF Reweighted
  <2> DEFINE n == g.nodes[i]
             m == [n EXCEPT !.attr = at]
  <2>2. n \in ToSet(g.nodes) /\ h.inits = g.inits
      BY <2>1 DEF Attributed, ToSet
  <2>3. ToSet(h.nodes) \subseteq ToSet(g.nodes) \cup {m}
      BY <1>0, <2>1, AttributedNodes
  <2> HIDE DEF n
  <2>4. WellFormedNode(n)
      BY <1>0, <2>2, NodeOf
  <2>5. m.name = n.name /\ m.op = n.op /\ m.in = n.in /\ m.out = n.out
      BY <2>4 DEF WellFormedNode
  <2> HIDE DEF m
  <2>6. ASSUME NEW q \in ToSet(h.nodes)
        PROVE  \E r \in ToSet(g.nodes) : r.name = q.name /\ r.op = q.op /\ r.in = q.in
                                         /\ r.out = q.out
      BY <2>2, <2>3, <2>5
  <2>7. ASSUME NEW q \in ToSet(h.nodes), q.name \in u.own PROVE ToSet(q.in) \cap u.keep = {}
      BY <2>6, <2>7 DEF Untouched
  <2>8. ASSUME NEW bn \in ToSet(h.nodes), NEW p \in ToSet(h.nodes),
               bn.name \in u.fused, bn.op = "BatchNormalization", bn.in[1] \in ToSet(p.out)
        PROVE  ToSet(p.in) \cap u.keep = {}
    <3>1. PICK r \in ToSet(g.nodes) : r.name = bn.name /\ r.op = bn.op /\ r.in = bn.in
        BY <2>6
    <3>2. PICK q \in ToSet(g.nodes) : q.in = p.in /\ q.out = p.out
        BY <2>6
    <3> QED BY <2>8, <3>1, <3>2 DEF Untouched
  <2> QED BY <1>0, <2>2, <2>7, <2>8 DEF Untouched
<1> QED BY <1>1, <1>2, <1>3, <1>4, <1>5, <1>6, <1>0, HandleIs DEF h
-----------------------------------------------------------------------------
(* The actions a configuration asks for.                                    *)

\* An action asks of an operator what its configuration does.
AsksFor(c, a) ==
    /\ a.name \in DOMAIN c
    /\ a.kind \in QuantKinds => a.arg = c[a.name].prec /\ c[a.name].prec > FP32

CollectOne(c, s, o) == s \o Translate(o, c[o.name])
ListedActions(c, s) == ActionList(s) /\ \A a \in ToSet(s) : AsksFor(c, a)
Collection == INSTANCE Folding WITH Op <- CollectOne, Good <- ListedActions

LEMMA NothingListed == \A c : ListedActions(c, <<>>)
<1>1. ToSet(<<>>) = {} /\ <<>> \in Seq(ToSet(<<>>))
    BY DEF ToSet
<1> QED BY <1>1 DEF ListedActions, ActionList, IsList

LEMMA JoinedActions ==
    ASSUME NEW c, NEW s, NEW t, ListedActions(c, s), ListedActions(c, t)
    PROVE  ListedActions(c, s \o t)
BY ConcatList DEF ListedActions, ActionList

\* One operator's actions.
LEMMA TranslateList ==
    ASSUME NEW o, NEW c, o.name \in DOMAIN c, c[o.name].prune \in Nat, c[o.name].rank \in Nat
    PROVE  ListedActions(c, Translate(o, c[o.name]))
<1> DEFINE cfg == c[o.name]
           Asked(cond, kinds, arg) ==
               IF cond /\ o.cat \in DOMAIN kinds
               THEN <<[name |-> o.name, op |-> o.op, kind |-> kinds[o.cat], arg |-> arg]>>
               ELSE <<>>
           quant == Asked(cfg.prec > FP32, QuantKind, cfg.prec)
           prune == Asked(cfg.prune > 0, PruneKind, cfg.prune)
           fuse  == Asked(cfg.fuse, FuseKind, 0)
           rank  == Asked(cfg.rank # NoRank, RankKind, cfg.rank)
<1>1. ListedActions(c, <<>>)
    BY NothingListed
<1>2. ASSUME NEW kind, NEW arg,
             kind \in {"channel_pruning", "tree_pruning", "low_rank_svd"} => arg \in Nat,
             kind \in QuantKinds => arg = cfg.prec /\ cfg.prec > FP32
      PROVE  ListedActions(c, <<[name |-> o.name, op |-> o.op, kind |-> kind, arg |-> arg]>>)
  <2> DEFINE a == [name |-> o.name, op |-> o.op, kind |-> kind, arg |-> arg]
  <2>1. a.name = o.name /\ a.kind = kind /\ a.arg = arg
      OBVIOUS
  <2> HIDE DEF a
  <2>2. WellFormedAction(a) /\ AsksFor(c, a)
      BY <1>2, <2>1 DEF WellFormedAction, AsksFor
  <2>3. ListedActions(c, <<a>>)
      BY <2>2, OneList DEF ListedActions, ActionList
  <2> QED BY <2>3 DEF a
<1>3. ListedActions(c, quant)
  <2>1. ASSUME o.cat \in DOMAIN QuantKind
        PROVE  QuantKind[o.cat] \notin {"channel_pruning", "tree_pruning", "low_rank_svd"}
      BY <2>1 DEF QuantKind
  <2> DEFINE p == cfg.prec
  <2>2. ASSUME p > FP32, o.cat \in DOMAIN QuantKind PROVE ListedActions(c, quant)
      BY <1>2, <2>1, <2>2
  <2> HIDE DEF cfg
  <2> QED BY <1>1, <2>2
<1>4. ListedActions(c, prune)
  <2>1. ASSUME o.cat \in DOMAIN PruneKind PROVE PruneKind[o.cat] \notin QuantKinds
      BY <2>1 DEF PruneKind, QuantKinds
  <2> QED BY <1>1, <1>2, <2>1
<1>5. ListedActions(c, fuse)
  <2>1. ASSUME o.cat \in DOMAIN FuseKind
        PROVE  FuseKind[o.cat] \notin QuantKinds
      BY <2>1 DEF FuseKind, QuantKinds
  <2> QED BY <1>1, <1>2, <2>1
<1>6. ListedActions(c, rank)
  <2>1. ASSUME o.cat \in DOMAIN RankKind PROVE RankKind[o.cat] \notin QuantKinds
      BY <2>1 DEF RankKind, QuantKinds
  <2> QED BY <1>1, <1>2, <2>1
<1>7. Translate(o, cfg) = IF o.cat = "normalization" THEN fuse \o quant
                          ELSE quant \o prune \o fuse \o rank
    BY DEF Translate
<1> HIDE DEF quant, prune, fuse, rank
<1>8. ListedActions(c, fuse \o quant) /\ ListedActions(c, quant \o prune)
    BY <1>3, <1>4, <1>5, JoinedActions
<1>9. ListedActions(c, quant \o prune \o fuse)
    BY <1>5, <1>8, JoinedActions
<1>10. ListedActions(c, quant \o prune \o fuse \o rank)
    BY <1>6, <1>9, JoinedActions
<1> QED BY <1>7, <1>8, <1>10

LEMMA AskedList ==
    ASSUME NEW s, IsList(s), NEW c,
           \A o \in ToSet(s) :
              o.name \in DOMAIN c /\ c[o.name].prune \in Nat /\ c[o.name].rank \in Nat
    PROVE  ListedActions(c, ActionsOf(s, c))
<1>1. Len(s) \in Nat /\ DOMAIN s = 1 .. Len(s) /\ \A k \in DOMAIN s : s[k] \in ToSet(s)
    BY ListFacts
<1>2. ActionsOf(s, c) = Collection!Folded(c, <<>>, s)
    BY DEF ActionsOf, Collection!Folded, FoldLeft, MapThenFoldSet, CollectOne, Max,
           Collection!FoldLeft, Collection!MapThenFoldSet, Collection!Max
<1>3. Collection!KeptBy(c, s)
  <2> SUFFICES ASSUME NEW k \in DOMAIN s, NEW u, ListedActions(c, u)
               PROVE  ListedActions(c, u \o Translate(s[k], c[s[k].name]))
      BY DEF Collection!KeptBy, CollectOne
  <2>1. ListedActions(c, Translate(s[k], c[s[k].name]))
      BY <1>1, TranslateList
  <2> QED BY <2>1, JoinedActions
<1>4. ListedActions(c, Collection!Folded(c, <<>>, s))
    BY <1>1, <1>3, NothingListed, Collection!FoldKeeps
<1> QED BY <1>2, <1>4

\* The compressible operators of a graph, and their names.
LEMMA CompressibleOf ==
    ASSUME NEW g, WellFormed(g), NEW all, all = [i \in Nodes(g) |-> all[i]],
           \A i \in Nodes(g) : all[i].name = OpName(g, i)
    PROVE  /\ IsList(Compressible(all))
           /\ \A o \in ToSet(Compressible(all)) :
                 \E i \in Nodes(g) : o.name = OpName(g, i) /\ o.name # NoName
<1> DEFINE S == {i \in DOMAIN all : all[i].compressible}
<1>1. IsList(g.nodes)
    BY DEF WellFormed
<1>2. Len(g.nodes) \in Nat /\ DOMAIN g.nodes = 1 .. Len(g.nodes)
    BY <1>1, ListFacts
<1>3. DOMAIN all = Nodes(g)
    OBVIOUS
<1>4. all = [i \in 1 .. Len(g.nodes) |-> all[i]]
    BY <1>2 DEF Nodes
<1>5. Compressible(all) = MembersAt(all, S) /\ S \in SUBSET DOMAIN all
    BY DEF Compressible
<1>6. IsList(all)
    BY <1>2, <1>4, ListOfItems
<1>7. S \in SUBSET Int /\ IsFiniteSet(S)
  <2> HIDE DEF S
  <2> QED BY <1>2, <1>3, <1>5, PlacesFinite DEF Nodes
<1> HIDE DEF S
<1>8. IsList(MembersAt(all, S))
    BY <1>5, <1>6, SelectedList
<1>9. ToSet(MembersAt(all, S)) = {all[k] : k \in S}
    BY <1>7, MembersIs
<1>10. ASSUME NEW i \in Nodes(g) PROVE OpName(g, i) # NoName
  <2>1. <<g.nodes[i].op, ToString(i - 1)>> # <<>>
      OBVIOUS
  <2> QED BY <2>1 DEF OpName, NoName
<1>11. ASSUME NEW o \in ToSet(MembersAt(all, S))
       PROVE  \E i \in Nodes(g) : o.name = OpName(g, i) /\ o.name # NoName
    BY <1>3, <1>5, <1>9, <1>10
<1> QED BY <1>5, <1>8, <1>11

LEMMA CompressibleList ==
    ASSUME NEW g, WellFormed(g)
    PROVE  /\ IsList(Compressible(Operators(g)))
           /\ \A o \in ToSet(Compressible(Operators(g))) :
                 \E i \in Nodes(g) : o.name = OpName(g, i) /\ o.name # NoName
<1> DEFINE all == Operators(g)
<1>1. all = [i \in Nodes(g) |-> all[i]] /\ \A i \in Nodes(g) : all[i].name = OpName(g, i)
    BY DEF Operators
<1> HIDE DEF all
<1>2. /\ IsList(Compressible(all))
      /\ \A o \in ToSet(Compressible(all)) :
            \E i \in Nodes(g) : o.name = OpName(g, i) /\ o.name # NoName
    BY <1>1, CompressibleOf
<1> QED BY <1>2 DEF all
-----------------------------------------------------------------------------
(* A pass from its beginning.                                               *)

LEMMA StartIs ==
    ASSUME NEW g, WellFormed(g), ListNamed(g), NEW actions, NEW h, h = Start(g, actions)
    PROVE  /\ InPass(h)
           /\ h.nodes = g.nodes /\ h.inits = g.inits /\ h.ins = g.ins /\ h.outs = g.outs
           /\ h.conv = {} /\ h.err = FALSE /\ h.hung = FALSE
<1>1. PICK v, z : h = Overlaid([g EXCEPT !.opset = v],
                               [conv |-> {}, noint8 |-> z, err |-> FALSE, hung |-> FALSE])
  <2> DEFINE wants == \E k \in DOMAIN actions :
                /\ actions[k].kind \in {"quantization", "param_quantization",
                                        "embedding_quantization"}
                /\ actions[k].arg \in {INT8, INT4}
             old == wants /\ g.opset < 10
             w == IF old /\ g.conv13 THEN 13 ELSE g.opset
             y == old /\ ~g.conv13
  <2>1. h = Overlaid([g EXCEPT !.opset = w],
                     [conv |-> {}, noint8 |-> y, err |-> FALSE, hung |-> FALSE])
      BY DEF Start
  <2> HIDE DEF w, y
  <2> QED BY <2>1
<1> DEFINE u == [g EXCEPT !.opset = v]
           new == [conv |-> {}, noint8 |-> z, err |-> FALSE, hung |-> FALSE]
<1>2. DOMAIN u = DOMAIN g /\ {"nodes", "inits", "ins", "outs", "opset"} \subseteq DOMAIN g
    BY DEF WellFormed
<1>3. u.nodes = g.nodes /\ u.inits = g.inits /\ u.ins = g.ins /\ u.outs = g.outs
    BY <1>2
<1>4. /\ DOMAIN new = {"conv", "noint8", "err", "hung"}
      /\ new.conv = {} /\ new.err = FALSE /\ new.hung = FALSE
    OBVIOUS
<1> HIDE DEF u, new
<1>5. h = Overlaid(u, new)
    BY <1>1 DEF u, new
<1>6. /\ {"conv", "noint8", "err", "hung"} \subseteq DOMAIN h
      /\ h.nodes = u.nodes /\ h.inits = u.inits /\ h.ins = u.ins /\ h.outs = u.outs
      /\ h.conv = {} /\ h.err = FALSE /\ h.hung = FALSE
    BY <1>2, <1>4, <1>5 DEF Overlaid
<1>7. WellFormed(h)
    BY StartKeeps
<1> QED BY <1>3, <1>6, <1>7 DEF InPass, ListNamed

\* A name that a node has is found.
LEMMA FindsIt ==
    ASSUME NEW g, WellFormed(g), NEW i \in Nodes(g)
    PROVE  LET j == FindNode(g, g.nodes[i].name)
           IN  j \in Nodes(g) /\ g.nodes[j].name = g.nodes[i].name
<1> DEFINE I == {k \in 1 .. Len(g.nodes) : g.nodes[k].name = g.nodes[i].name}
           j == FindNode(g, g.nodes[i].name)
<1>1. Len(g.nodes) \in Nat /\ DOMAIN g.nodes = 1 .. Len(g.nodes)
    BY ListFacts DEF WellFormed
<1>2. j = IF I # {} THEN Min(I) ELSE 0
    BY DEF FindNode, SelectInSeq
<1>3. i \in I /\ I \in SUBSET Nat
    BY <1>1 DEF Nodes
<1>4. Min(I) \in I
  <2> HIDE DEF I
  <2> QED BY <1>3, MinIs
<1> QED BY <1>1, <1>2, <1>3, <1>4 DEF Nodes

\* What no action of the run may touch.
Rest ==
    [keep |-> {x \in DOMAIN input.inits : \A k \in DOMAIN asked : x \notin Reach(asked[k])},
     base |-> input.inits,
     own |-> {asked[k].name : k \in DOMAIN asked},
     fused |-> {asked[k].name : k \in {k \in DOMAIN asked : asked[k].kind = "bn_fusion"}}]

LEMMA RestIs ==
    /\ Rest.keep = {x \in DOMAIN input.inits : \A k \in DOMAIN asked : x \notin Reach(asked[k])}
    /\ Rest.base = input.inits
    /\ Rest.own = {asked[k].name : k \in DOMAIN asked}
    /\ Rest.fused = {asked[k].name : k \in {k \in DOMAIN asked : asked[k].kind = "bn_fusion"}}
BY DEF Rest

LEMMA ReachIs ==
    ASSUME WellFormed(input), ToldApart(input), NEW i \in Nodes(input), NEW a,
           a.name = input.nodes[i].name, a.name # NoName
    PROVE  /\ ToSet(input.nodes[i].in) \cap DOMAIN input.inits \subseteq Reach(a)
           /\ a.kind = "bn_fusion" => \A j \in Nodes(input) :
                 Contains(input.nodes[j].out, input.nodes[i].in[1])
                     => ToSet(input.nodes[j].in) \cap DOMAIN input.inits \subseteq Reach(a)
<1>1. FindNode(input, a.name) = i
    BY FindsIt DEF ToldApart
<1>2. i # 0
  <2>1. DOMAIN input.nodes = 1 .. Len(input.nodes) /\ Len(input.nodes) \in Nat
      BY ListFacts DEF WellFormed
  <2> QED BY <2>1 DEF Nodes
<1> QED BY <1>1, <1>2 DEF Reach

LEMMA StartUntouched ==
    WellFormed(input) /\ ToldApart(input) /\ (\A k \in DOMAIN asked : asked[k].name # NoName)
        => Untouched(Rest, Start(input, asked)) /\ NoneReserved(Rest)
<1> SUFFICES ASSUME WellFormed(input), ToldApart(input),
                    \A k \in DOMAIN asked : asked[k].name # NoName
             PROVE  Untouched(Rest, Start(input, asked)) /\ NoneReserved(Rest)
    OBVIOUS
<1> DEFINE h == Start(input, asked)
           u == Rest
<1>1. InPass(h) /\ h.nodes = input.nodes /\ h.inits = input.inits
  <2>1. WellFormed(input) /\ ListNamed(input)
      BY DEF ToldApart
  <2> QED BY <2>1, StartIs
<1>2. /\ u.keep \subseteq DOMAIN input.inits /\ u.base = input.inits
      /\ \A x \in u.keep : \A k \in DOMAIN asked : x \notin Reach(asked[k])
      /\ \A y \in u.own : \E k \in DOMAIN asked : asked[k].name = y
      /\ \A y \in u.fused : \E k \in DOMAIN asked : asked[k].name = y /\ asked[k].kind = "bn_fusion"
    BY RestIs
<1> HIDE DEF u, h
<1>3. ASSUME NEW n \in ToSet(h.nodes), n.name \in u.own PROVE ToSet(n.in) \cap u.keep = {}
  <2>1. PICK i \in Nodes(input) : n = input.nodes[i]
      BY <1>1 DEF ToSet, Nodes
  <2>2. PICK k \in DOMAIN asked : asked[k].name = n.name
      BY <1>2, <1>3
  <2>3. ToSet(n.in) \cap DOMAIN input.inits \subseteq Reach(asked[k])
      BY <2>1, <2>2, ReachIs
  <2> QED BY <1>2, <2>3
<1>4. ASSUME NEW b \in ToSet(h.nodes), NEW p \in ToSet(h.nodes), b.name \in u.fused,
             b.in[1] \in ToSet(p.out)
      PROVE  ToSet(p.in) \cap u.keep = {}
  <2>1. PICK i \in Nodes(input) : b = input.nodes[i]
      BY <1>1 DEF ToSet, Nodes
  <2>2. PICK j \in Nodes(input) : p = input.nodes[j]
      BY <1>1 DEF ToSet, Nodes
  <2>3. PICK k \in DOMAIN asked : asked[k].name = b.name /\ asked[k].kind = "bn_fusion"
      BY <1>2, <1>4
  <2>4. IsList(p.out)
      BY <1>1, NodeOf DEF NamedNode
  <2>5. Contains(p.out, b.in[1])
    <3>1. PICK l \in DOMAIN p.out : p.out[l] = b.in[1]
        BY <1>4 DEF ToSet
    <3> QED BY <2>4, <3>1, ListFacts DEF Contains
  <2>6. ToSet(p.in) \cap DOMAIN input.inits \subseteq Reach(asked[k])
      BY <2>1, <2>2, <2>3, <2>5, ReachIs
  <2> QED BY <1>2, <2>6
<1>5. Untouched(u, h)
    BY <1>1, <1>2, <1>3, <1>4 DEF Untouched
<1>6. NoneReserved(u)
    BY <1>2 DEF ToldApart, NoneReserved
<1> QED BY <1>5, <1>6 DEF u, h

TransformSpec == TransformInit /\ [][TransformNext]_transformVars

\* A run of the pass: what was asked, and what of it is left.
InRun ==
    /\ input \in Inputs /\ WellFormed(input)
    /\ ActionList(asked) /\ \A a \in ToSet(asked) : a.name # NoName
    /\ ActionList(todo) /\ ToSet(todo) \subseteq ToSet(asked)

PassInv ==
    \/ TransformInit
    \/ InRun /\ (ToldApart(input) => Untouched(Rest, made) /\ NoneReserved(Rest))

LEMMA StartUntouchedNext ==
    (WellFormed(input) /\ ToldApart(input) /\ (\A k \in DOMAIN asked : asked[k].name # NoName)
        => Untouched(Rest, Start(input, asked)) /\ NoneReserved(Rest))'
BY StartUntouched, PTL

\* A pass begins with the actions asked of the operators, in the order of their phases.
LEMMA BeginIs ==
    ASSUME TransformBegin
    PROVE  /\ InRun' /\ made' = Start(input', asked') /\ todo' = Ordered(asked')
           /\ \A a \in ToSet(asked') : \E i \in Nodes(input') : a.name = OpName(input', i)
<1>1. PICK g \in Inputs :
          LET found == Compressible(Operators(g))
          IN  \E config \in [{o.name : o \in ToSet(found)} -> OpConfigs] :
                  /\ input' = g
                  /\ asked' = ActionsOf(found, config)
                  /\ made' = Start(g, asked')
                  /\ todo' = Ordered(asked')
    BY DEF TransformBegin
<1> DEFINE found == Compressible(Operators(g))
<1>2. PICK c \in [{o.name : o \in ToSet(found)} -> OpConfigs] :
          /\ input' = g /\ asked' = ActionsOf(found, c)
          /\ made' = Start(g, asked') /\ todo' = Ordered(asked')
    BY <1>1
<1>3. WellFormed(g) /\ \A x \in OpConfigs : x.prune \in Nat /\ x.rank \in Nat
    BY TransformAssumption
<1>4. /\ IsList(found)
      /\ \A o \in ToSet(found) : \E i \in Nodes(g) : o.name = OpName(g, i) /\ o.name # NoName
    BY <1>3, CompressibleList
<1>5. ASSUME NEW o \in ToSet(found)
      PROVE  o.name \in DOMAIN c /\ c[o.name].prune \in Nat /\ c[o.name].rank \in Nat
  <2>1. o.name \in DOMAIN c /\ c[o.name] \in OpConfigs
      OBVIOUS
  <2> QED BY <1>3, <2>1
<1>6. DOMAIN c = {o.name : o \in ToSet(found)}
    OBVIOUS
<1> HIDE DEF found
<1>7. ListedActions(c, ActionsOf(found, c))
    BY <1>4, <1>5, AskedList
<1>8. /\ ActionList(asked') /\ \A a \in ToSet(asked') : a.name # NoName
      /\ \A a \in ToSet(asked') : \E i \in Nodes(g) : a.name = OpName(g, i)
  <2>1. \A a \in ToSet(asked') : a.name \in DOMAIN c
      BY <1>2, <1>7 DEF ListedActions, AsksFor
  <2> QED BY <1>2, <1>4, <1>6, <1>7, <2>1 DEF ListedActions
<1>9. ActionList(todo') /\ ToSet(todo') \subseteq ToSet(asked')
    BY <1>2, <1>8, OrderedList
<1>10. InRun'
    BY <1>2, <1>3, <1>8, <1>9 DEF InRun
<1> QED BY <1>2, <1>8, <1>10

LEMMA PassBegins ==
    ASSUME TransformBegin
    PROVE  InRun' /\ (ToldApart(input') => Untouched(Rest', made') /\ NoneReserved(Rest'))
<1>1. /\ InRun' /\ made' = Start(input', asked')
    BY BeginIs
<1>2. ASSUME ToldApart(input') PROVE Untouched(Rest', made') /\ NoneReserved(Rest')
  <2>1. \A k \in DOMAIN asked' : asked'[k].name # NoName
      BY <1>1 DEF InRun, ToSet
  <2>2. WellFormed(input') /\ made' = Start(input', asked')
      BY <1>1 DEF InRun
  <2> QED BY <1>2, <2>1, <2>2, StartUntouchedNext
<1> QED BY <1>1, <1>2

LEMMA PassSteps ==
    ASSUME InRun, TransformStep, ToldApart(input) => Untouched(Rest, made) /\ NoneReserved(Rest)
    PROVE  InRun' /\ (ToldApart(input') => Untouched(Rest', made') /\ NoneReserved(Rest'))
<1> DEFINE a == Head(todo)
<1>1. /\ made' = Handle(made, a) /\ todo' = Tail(todo) /\ todo # <<>>
      /\ input' = input /\ asked' = asked
    BY DEF TransformStep
<1>2. a \in ToSet(todo) /\ IsList(Tail(todo)) /\ ToSet(Tail(todo)) \subseteq ToSet(todo)
  <2> DEFINE T == ToSet(todo)
  <2>1. todo \in Seq(T)
      BY DEF InRun, ActionList, IsList
  <2> HIDE DEF T
  <2>2. Tail(todo) \in Seq(T) /\ a = todo[1] /\ 1 \in DOMAIN todo
      BY <1>1, <2>1
  <2>3. IsList(Tail(todo)) /\ ToSet(Tail(todo)) \subseteq T
      BY <2>2, ListOf
  <2>4. a \in ToSet(todo)
      BY <2>2 DEF ToSet
  <2> QED BY <2>3, <2>4 DEF T
<1>3. InRun'
    BY <1>1, <1>2 DEF InRun, ActionList
<1>4. Rest' = Rest
    BY <1>1 DEF Rest, Reach
<1>5. WellFormedAction(a) /\ a \in ToSet(asked)
    BY <1>2 DEF InRun, ActionList
<1> HIDE DEF a
<1>6. a.name \in Rest.own /\ (a.kind = "bn_fusion" => a.name \in Rest.fused)
    BY <1>5, RestIs DEF ToSet
<1> DEFINE u == Rest
<1> HIDE DEF u
<1>7. ASSUME ToldApart(input) PROVE Untouched(u, Handle(made, a)) /\ NoneReserved(u)
    BY <1>5, <1>6, <1>7, HandleUntouched DEF u
<1> QED BY <1>1, <1>3, <1>4, <1>7 DEF u

LEMMA PassKeeps == PassInv /\ [TransformNext]_transformVars => PassInv'
<1> SUFFICES ASSUME PassInv, [TransformNext]_transformVars PROVE PassInv'
    OBVIOUS
<1>1. CASE TransformBegin
    BY <1>1, PassBegins DEF PassInv
<1>2. CASE TransformStep
  <2>1. ~TransformInit
      BY <1>2 DEF TransformStep, TransformInit
  <2> QED BY <1>2, <2>1, PassSteps DEF PassInv
<1>3. CASE UNCHANGED transformVars
  <2>1. UNCHANGED <<input, asked, made, todo>>
      BY <1>3 DEF transformVars
  <2>2. Rest' = Rest
      BY <2>1 DEF Rest, Reach
  <2> QED BY <2>1, <2>2 DEF PassInv, TransformInit, InRun
<1> QED BY <1>1, <1>2, <1>3 DEF TransformNext

\* In a file whose nodes have names that tell them apart, and whose weights are not called
\* as the transformer calls its own, no handler changes, moves or drops a weight that no
\* asked action reaches: not the weights of another node, not after a fusion gave a node
\* to the producer of its input, not when a name had to be found for a new part.
THEOREM AskedOnly == TransformSpec => [](ToldApart(input) => OnlyAskedChanges)
<1>1. TransformInit => PassInv
    BY DEF PassInv
<1>2. PassInv /\ [TransformNext]_transformVars => PassInv'
    BY PassKeeps
<1>3. PassInv => (ToldApart(input) => OnlyAskedChanges)
  <2> SUFFICES ASSUME PassInv, ToldApart(input) PROVE OnlyAskedChanges
      OBVIOUS
  <2>1. CASE TransformInit
      BY <2>1 DEF TransformInit, OnlyAskedChanges, Applied
  <2>2. CASE Untouched(Rest, made)
      BY <2>2, RestIs DEF Untouched, OnlyAskedChanges
  <2> QED BY <2>1, <2>2 DEF PassInv
<1> QED BY <1>1, <1>2, <1>3, PTL DEF TransformSpec
-----------------------------------------------------------------------------
(* A weight that no int8 action may reach.                                  *)

\* Weight u.weight has no int8 values: it is read by no node that u.heavy names, those an
\* action asks more than float16 of, unless it was converted already.
Spared(u, g) ==
    /\ InPass(g)
    /\ Append(u.weight, "q") \notin DOMAIN g.inits
    /\ \/ u.weight \in g.conv
       \/ /\ u.weight \in DOMAIN g.inits
          /\ \A n \in ToSet(g.nodes) : n.name \in u.heavy => u.weight \notin ToSet(n.in)

Spareable(u) == IsList(u.weight) /\ ~Ends(u.weight, Reserved)

\* A part put after a name is that name's alone: neither another part nor another name
\* gives the same.
LEMMA PartsDiffer ==
    ASSUME NEW x, IsList(x), NEW y, IsList(y), NEW p, NEW k \in Nat, NEW q, q # Stroke,
           Append(x, q) = Numbered(Append(y, p), k)
    PROVE  x = y /\ p = q
<1> DEFINE a == Append(x, q)
           b == Append(y, p)
           c == Numbered(b, k)
<1>1. /\ IsList(a) /\ Len(a) = Len(x) + 1 /\ Len(x) \in Nat /\ a[Len(x) + 1] = q
      /\ \A j \in 1 .. Len(x) : a[j] = x[j]
    BY PartAppended
<1>2. /\ IsList(b) /\ Len(b) = Len(y) + 1 /\ Len(y) \in Nat /\ b[Len(y) + 1] = p
      /\ \A j \in 1 .. Len(y) : b[j] = y[j]
    BY PartAppended
<1> HIDE DEF a, b
<1>3. /\ Len(c) = Len(b) + k
      /\ k = 0 => c = b
      /\ \A j \in Len(b) + 1 .. Len(b) + k : c[j] = Stroke
    BY <1>2, NumberedIs
<1>4. a = c
    BY DEF a, b
<1> HIDE DEF c
<1>5. k = 0
  <2>1. Len(x) + 1 = Len(b) + k
      BY <1>1, <1>3, <1>4
  <2>2. k > 0 => a[Len(x) + 1] = Stroke
      BY <1>2, <1>3, <1>4, <2>1
  <2> QED BY <1>1, <2>2
<1>6. a = b
    BY <1>3, <1>4, <1>5
<1>7. Len(x) = Len(y) /\ p = q /\ \A j \in 1 .. Len(x) : x[j] = y[j]
    BY <1>1, <1>2, <1>6
<1>8. x = [j \in 1 .. Len(x) |-> x[j]] /\ y = [j \in 1 .. Len(y) |-> y[j]]
    BY ListFacts
<1> QED BY <1>7, <1>8

\* A conversion leaves it alone: one of it to float16, or of anything else.
LEMMA ConvertSpared ==
    ASSUME NEW u, NEW g, Spared(u, g), Spareable(u), NEW x, IsList(x), NEW level, NEW consumer,
           level = FP16 \/ x # u.weight \/ u.weight \in g.conv
    PROVE  Spared(u, Convert(g, x, level, consumer)) /\ g.conv \subseteq Convert(g, x, level, consumer).conv
<1> DEFINE h == Convert(g, x, level, consumer)
           w == u.weight
<1> SUFFICES Spared(u, h) /\ g.conv \subseteq h.conv
    OBVIOUS
<1>0. InPass(h) /\ InPass(g) /\ IsList(w)
    BY ConvertInPass DEF Spared, Spareable
<1>1. h = g \/ \E new, n : ConvertedTo(g, h, x, level, new, n)
    BY <1>0, ConvertIs
<1> HIDE DEF h, w
<1>2. ASSUME NEW new, NEW n, ConvertedTo(g, h, x, level, new, n)
      PROVE  Spared(u, h) /\ g.conv \subseteq h.conv
  <2>1. Moved(g, h, x, new, n) /\ h.conv = g.conv \cup {x} /\ x \notin g.conv
      BY <1>2 DEF ConvertedTo, WorthConverting
  <2>2. /\ ToSet(h.nodes) = {n} \cup ToSet(g.nodes)
        /\ DOMAIN h.inits = (DOMAIN g.inits \ {x}) \cup DOMAIN new
        /\ \A y \in ToSet(n.in) : y \notin DOMAIN g.inits
      BY <1>0, <2>1, MovedTo
  <2>3. ASSUME NEW p, p \in {"fp16", "scale", "zp"} PROVE ~Derived(x, p, Append(w, "q"))
    <3>1. Derived(x, p, Append(w, "q")) => p = "q"
        BY <1>0, PartsDiffer DEF Derived, Stroke
    <3>2. p # "q"
        BY <2>3
    <3> QED BY <3>1, <3>2
  <2>4. ASSUME Derived(x, "q", Append(w, "q")) PROVE x = w
      BY <1>0, <2>4, PartsDiffer DEF Derived, Stroke
  <2>5. Append(w, "q") \notin DOMAIN new
    <3>1. CASE AsFp16(g, x, new)
        BY <2>3, <3>1 DEF AsFp16
    <3>2. CASE level # FP16 /\ AsInt8(g, x, new)
      <4>1. x # w
          BY <2>1, <3>2 DEF w
      <4> QED BY <2>3, <2>4, <3>2, <4>1 DEF AsInt8
    <3> QED BY <1>2, <3>1, <3>2 DEF ConvertedTo
  <2>6. \/ w \in h.conv
        \/ /\ w \in DOMAIN h.inits
           /\ \A m \in ToSet(h.nodes) : m.name \in u.heavy => w \notin ToSet(m.in)
      BY <2>1, <2>2 DEF Spared, w
  <2> QED BY <1>0, <2>1, <2>2, <2>5, <2>6 DEF Spared, w
<1> QED BY <1>1, <1>2

\* An action leaves it alone, unless it asks for more than float16 of a node that is
\* not known to be heavy.
LEMMA HandleSpared ==
    ASSUME NEW u, NEW g, Spared(u, g), Spareable(u), NEW a, WellFormedAction(a),
           a.kind \in QuantKinds /\ a.arg # FP16 => a.name \in u.heavy
    PROVE  Spared(u, Handle(g, a))
<1> DEFINE h == Handle(g, a)
           w == u.weight
           q == Append(w, "q")
<1> SUFFICES Spared(u, h)
    OBVIOUS
<1>0. InPass(h) /\ InPass(g) /\ IsList(w) /\ ~Ends(w, Reserved)
    BY HandleInPass DEF Spared, Spareable
<1>1. /\ q \notin DOMAIN g.inits
      /\ \/ w \in g.conv
         \/ /\ w \in DOMAIN g.inits
            /\ \A n \in ToSet(g.nodes) : n.name \in u.heavy => w \notin ToSet(n.in)
    BY DEF Spared
<1>2. \A y, p : IsList(y) /\ p \in Reserved => Append(y, p) # w /\ Append(y, p) # q
  <2> SUFFICES ASSUME NEW y, NEW p, IsList(y), p \in Reserved
               PROVE  Append(y, p) # w /\ Append(y, p) # q
      OBVIOUS
  <2>1. Append(y, p) # w
      BY <1>0, EndsIs
  <2>2. q = Append(y, p) => p = "q"
    <3>1. /\ IsList(Append(y, p)) /\ Len(Append(y, p)) = Len(y) + 1 /\ Append(y, p)[Len(y) + 1] = p
          /\ Len(q) = Len(w) + 1 /\ q[Len(w) + 1] = "q" /\ Len(w) \in Nat /\ Len(y) \in Nat
        BY <1>0, PartAppended
    <3> QED BY <3>1
  <2>3. p # "q"
      BY DEF Reserved
  <2> QED BY <2>1, <2>2, <2>3
<1> HIDE DEF h, w, q
\* Enough to keep: the conversions, the weight, and what the heavy nodes read.
<1>3. ASSUME g.conv \subseteq h.conv, q \notin DOMAIN h.inits,
             DOMAIN g.inits \subseteq DOMAIN h.inits,
             \A n \in ToSet(h.nodes) \ ToSet(g.nodes) :
                w \in ToSet(n.in) => \E m \in ToSet(g.nodes) : m.name = n.name /\ w \in ToSet(m.in)
      PROVE  Spared(u, h)
    BY <1>0, <1>1, <1>3 DEF Spared, w, q
<1>4. CASE Stopped(g, h)
    BY <1>0, <1>1, <1>3, <1>4, StoppedFields
<1>5. CASE Quantized(g, h, a)
  <2>1. PICK n, f : n \in ToSet(g.nodes) /\ n.name = a.name /\ Conversions(f, g, h, n, a.arg)
      BY <1>5 DEF Quantized
  <2>2. IsList(n.in) /\ NamedNode(n)
      BY <1>0, <2>1, NodeOf
  <2>3. a.arg = FP16 \/ w \notin ToSet(n.in) \/ w \in g.conv
      BY <1>1, <1>5, <2>1 DEF Quantized
  <2> DEFINE Fine == {f[k] : k \in {k \in 0 .. Len(n.in) : Spared(u, f[k]) /\ g.conv \subseteq f[k].conv}}
  <2>4. Len(n.in) \in Nat /\ f[0] = g
      BY <2>1, <2>2, ListFacts DEF Conversions
  <2>5. g \in Fine
      BY <2>4
  <2>6. ASSUME NEW k \in 1 .. Len(n.in), f[k - 1] \in Fine PROVE f[k] \in Fine
    <3>1. Spared(u, f[k - 1]) /\ g.conv \subseteq f[k - 1].conv
        BY <2>6
    <3>2. n.in[k] \in ToSet(n.in)
        BY <2>2, ListFacts
    <3>3. IsList(n.in[k]) /\ (a.arg = FP16 \/ n.in[k] # w \/ w \in f[k - 1].conv)
        BY <2>2, <2>3, <3>1, <3>2 DEF NamedNode
    <3>4. f[k] = Convert(f[k - 1], n.in[k], a.arg, n)
        BY <2>1 DEF Conversions
    <3>5. Spared(u, f[k]) /\ f[k - 1].conv \subseteq f[k].conv
        BY <3>1, <3>3, <3>4, ConvertSpared DEF w
    <3> QED BY <2>4, <3>1, <3>5
  <2>7. h \in Fine
    <3> HIDE DEF Fine
    <3> QED BY <2>1, <2>2, <2>5, <2>6, ChainKeeps
  <2> QED BY <2>7
<1>6. CASE Pruned(g, h, a)
  <2>1. PICK n, new : /\ DOMAIN new \subseteq DOMAIN g.inits
                      /\ Written(g, h, new) /\ h.nodes = g.nodes
      BY <1>6 DEF Pruned
  <2>2. DOMAIN h.inits = DOMAIN g.inits /\ h.conv = g.conv
      BY <2>1 DEF Written, Overlaid
  <2> QED BY <1>1, <1>3, <2>1, <2>2
<1>7. CASE Split(g, h, a)
  <2>1. PICK i, y, new : SplitAt(g, h, a.name, i, y, new)
      BY <1>7 DEF Split
  <2> DEFINE n == g.nodes[i]
             second == SecondNode(a.name, n, y)
             half == Half(n)
  <2>2. /\ n \in ToSet(g.nodes) /\ n.name = a.name /\ y \in ToSet(n.in) \cap DOMAIN g.inits
        /\ Written(g, h, new) /\ DOMAIN new = {y, Factor(y)}
      BY <2>1 DEF SplitAt, ToSet
  <2> HIDE DEF n
  <2>3. ToSet(h.nodes) \subseteq ToSet(g.nodes) \cup {half, second}
      BY <1>0, <2>1, SplitNodes DEF n
  <2>4. IsList(y) /\ NamedNode(n) /\ WellFormedNode(n) /\ IsList(a.name)
      BY <1>0, <2>2, NodeOf DEF InPass, ListNamed, NamedNode
  <2>5. half.name = n.name /\ half.in = n.in /\ IsList(n.out[1])
      BY <2>4, HalfIs
  <2> HIDE DEF second, half
  <2>6. SecondHas(second, n, y, a.name)
      BY <2>4, SecondIs DEF second
  <2>7. Middle(n) # w /\ Factor(y) # w /\ Factor(y) # q
      BY <1>2, <2>4, <2>5 DEF Middle, Factor, Reserved
  <2>8. w \notin ToSet(second.in)
      BY <2>6, <2>7 DEF SecondHas
  <2>9. /\ h.conv = g.conv
        /\ DOMAIN h.inits = DOMAIN g.inits \cup {y, Factor(y)}
      BY <2>2 DEF Written, Overlaid
  <2> QED BY <1>1, <1>3, <2>2, <2>3, <2>5, <2>7, <2>8, <2>9
<1>8. CASE Fused(g, h, a)
  <2>1. PICK b, p, new : FoldedAt(g, h, a.name, b, p, new)
      BY <1>8 DEF Fused
  <2> DEFINE bn == g.nodes[b]
             n == g.nodes[p]
             heir == Heir(bn, n)
             bias == Append(n.name, "fused_bias")
  <2>2. /\ bn \in ToSet(g.nodes) /\ n \in ToSet(g.nodes)
        /\ Written(g, h, new) /\ \A y \in DOMAIN new : y \in DOMAIN g.inits \/ y = bias
      BY <2>1 DEF FoldedAt, ToSet
  <2>3. ToSet(h.nodes) \subseteq ToSet(g.nodes) \cup {heir}
      BY <1>0, <2>1, FoldedNodes
  <2> HIDE DEF bn, n
  <2>4. NamedNode(n) /\ WellFormedNode(n) /\ NamedNode(bn) /\ WellFormedNode(bn)
      BY <1>0, <2>2, NodeOf
  <2>5. bias # w /\ bias # q
      BY <1>2, <2>4 DEF NamedNode, Reserved
  <2> HIDE DEF heir
  <2>6. heir.name = n.name /\ ToSet(heir.in) \subseteq ToSet(n.in) \cup {bias}
      BY <2>4, HeirIs DEF heir
  <2> HIDE DEF bias
  <2>7. h.conv = g.conv /\ DOMAIN h.inits = DOMAIN g.inits \cup DOMAIN new
      BY <2>2 DEF Written, Overlaid
  <2> QED BY <1>1, <1>3, <2>2, <2>3, <2>5, <2>6, <2>7
<1>9. CASE Reweighted(g, h)
  <2>1. PICK i, at : Attributed(g, h, i, at)
      BY <1>9 DEF Reweighted
  <2> DEFINE n == g.nodes[i]
             m == [n EXCEPT !.attr = at]
  <2>2. n \in ToSet(g.nodes) /\ h.conv = g.conv /\ h.inits = g.inits
      BY <2>1 DEF Attributed, ToSet
  <2>3. ToSet(h.nodes) \subseteq ToSet(g.nodes) \cup {m}
      BY <1>0, <2>1, AttributedNodes
  <2> HIDE DEF n
  <2>4. m.name = n.name /\ m.in = n.in
      BY <1>0, <2>2, NodeOf DEF WellFormedNode
  <2> HIDE DEF m
  <2> QED BY <1>1, <1>3, <2>2, <2>3, <2>4
<1> QED BY <1>0, <1>4, <1>5, <1>6, <1>7, <1>8, <1>9, HandleIs DEF h

SparedPass == INSTANCE Folding WITH Op <- HandleOne, Good <- Spared

\* Nor does a whole pass.
LEMMA ApplySpared ==
    ASSUME NEW u, NEW g, NEW actions, WellFormed(g), ListNamed(g), ActionList(actions),
           Spareable(u), Append(u.weight, "q") \notin DOMAIN g.inits, u.weight \in DOMAIN g.inits,
           \A n \in ToSet(g.nodes) : n.name \in u.heavy => u.weight \notin ToSet(n.in),
           \A a \in ToSet(actions) : a.kind \in QuantKinds /\ a.arg # FP16 => a.name \in u.heavy
    PROVE  Append(u.weight, "q") \notin DOMAIN Apply(g, actions).inits
<1> DEFINE s == Ordered(actions)
           h == Start(g, actions)
<1>1. Apply(g, actions) = FoldLeft(Handle, h, s)
    BY DEF Apply
<1>2. ActionList(s) /\ ToSet(s) \subseteq ToSet(actions)
    BY OrderedList
<1>3. Spared(u, h)
  <2>1. h = Start(g, actions)
      OBVIOUS
  <2> HIDE DEF h
  <2>2. InPass(h) /\ h.nodes = g.nodes /\ h.inits = g.inits
      BY <2>1, StartIs
  <2> QED BY <2>2 DEF Spared
<1> HIDE DEF s, h
<1>4. FoldLeft(Handle, h, s) = SparedPass!Folded(u, h, s)
    BY DEF SparedPass!Folded, FoldLeft, MapThenFoldSet, HandleOne, Max,
           SparedPass!FoldLeft, SparedPass!MapThenFoldSet, SparedPass!Max
<1>5. Len(s) \in Nat /\ DOMAIN s = 1 .. Len(s) /\ \A k \in 1 .. Len(s) : s[k] \in ToSet(s)
    BY <1>2, ListFacts DEF ActionList
<1>6. SparedPass!KeptBy(u, s)
  <2>1. \A k \in DOMAIN s : /\ WellFormedAction(s[k])
                            /\ s[k].kind \in QuantKinds /\ s[k].arg # FP16 => s[k].name \in u.heavy
      BY <1>2, <1>5 DEF ActionList
  <2> QED BY <2>1, HandleSpared DEF SparedPass!KeptBy, HandleOne
<1>7. Spared(u, SparedPass!Folded(u, h, s))
    BY <1>3, <1>5, <1>6, SparedPass!FoldKeeps
<1> QED BY <1>1, <1>4, <1>7 DEF Spared
-----------------------------------------------------------------------------
(* A list of nodes that can be run in its order: with tensors G given, it   *)
(* writes tensors O.                                                        *)

WiredList(s, G, O) ==
    /\ \A i \in 1 .. Len(s) : \A y \in ToSet(s[i].in) :
          y \in G \/ \E j \in 1 .. i - 1 : y \in ToSet(s[j].out)
    /\ \A y \in O : \E j \in 1 .. Len(s) : y \in ToSet(s[j].out)
    /\ \A i \in 1 .. Len(s) : ToSet(s[i].out) \cap G = {}
    /\ \A i, j \in 1 .. Len(s) : i # j => ToSet(s[i].out) \cap ToSet(s[j].out) = {}

\* The tensors there before any node has run.
Given(g) == DOMAIN g.inits \cup g.ins

LEMMA RunnableIs ==
    ASSUME NEW g, WellFormed(g)
    PROVE  Runnable(g) <=> WiredList(g.nodes, Given(g), g.outs)
<1> DEFINE s == g.nodes
           G == Given(g)
           W(i) == UNION {ToSet(s[j].out) : j \in 1 .. i - 1}
<1>1. Len(s) \in Nat /\ DOMAIN s = 1 .. Len(s)
    BY ListFacts DEF WellFormed
<1>2. Runnable(g) <=> /\ \A i \in 1 .. Len(s) : ToSet(s[i].in) \subseteq G \cup W(i)
                      /\ g.outs \subseteq W(Len(s) + 1)
                      /\ \A i \in 1 .. Len(s) : ToSet(s[i].out) \cap (G \cup W(i)) = {}
    BY <1>1 DEF Runnable, Nodes, Given
<1>3. \A y, i : y \in W(i) <=> \E j \in 1 .. i - 1 : y \in ToSet(s[j].out)
    OBVIOUS
<1> HIDE DEF W, G
<1>4. ASSUME Runnable(g) PROVE WiredList(s, G, g.outs)
  <2>1. \A i \in 1 .. Len(s) : ToSet(s[i].in) \subseteq G \cup W(i)
      BY <1>2, <1>4
  <2>2. g.outs \subseteq W(Len(s) + 1)
      BY <1>2, <1>4
  <2>3. \A i \in 1 .. Len(s) : ToSet(s[i].out) \cap (G \cup W(i)) = {}
      BY <1>2, <1>4
  <2> HIDE DEF s
  <2>4. \A i \in 1 .. Len(s) : \A y \in ToSet(s[i].in) :
            y \in G \/ \E j \in 1 .. i - 1 : y \in ToSet(s[j].out)
      BY <1>3, <2>1
  <2>5. \A y \in g.outs : \E j \in 1 .. Len(s) : y \in ToSet(s[j].out)
    <3>1. (Len(s) + 1) - 1 = Len(s)
        BY <1>1
    <3> QED BY <1>3, <2>2, <3>1
  <2>6. \A i \in 1 .. Len(s) : ToSet(s[i].out) \cap G = {}
      BY <2>3
  <2>7. ASSUME NEW i \in 1 .. Len(s), NEW j \in 1 .. Len(s), i < j
        PROVE  ToSet(s[i].out) \cap ToSet(s[j].out) = {}
    <3>1. i \in 1 .. j - 1
        BY <1>1, <2>7
    <3> QED BY <1>3, <2>3, <3>1
  <2>8. \A i, j \in 1 .. Len(s) : i # j => i < j \/ j < i
      BY <1>1
  <2> QED BY <2>4, <2>5, <2>6, <2>7, <2>8 DEF WiredList
<1>5. ASSUME WiredList(s, G, g.outs) PROVE Runnable(g)
  <2>1. \A i \in 1 .. Len(s) : ToSet(s[i].in) \subseteq G \cup W(i)
      BY <1>3, <1>5 DEF WiredList
  <2>2. g.outs \subseteq W(Len(s) + 1)
    <3>1. (Len(s) + 1) - 1 = Len(s)
        BY <1>1
    <3> QED BY <1>3, <1>5, <3>1 DEF WiredList
  <2>3. ASSUME NEW i \in 1 .. Len(s), NEW y \in ToSet(s[i].out) PROVE y \notin G \cup W(i)
    <3>1. \A j \in 1 .. i - 1 : j \in 1 .. Len(s) /\ i # j
        BY <1>1
    <3> QED BY <1>3, <1>5, <3>1 DEF WiredList
  <2> QED BY <1>2, <2>1, <2>2, <2>3
<1> QED BY <1>4, <1>5 DEF G

\* A source x that becomes the output of a new first node.
LEMMA FrontWired ==
    ASSUME NEW s, IsList(s), NEW G, NEW O, WiredList(s, G, O), NEW n, NEW H, NEW x \in G,
           ToSet(n.in) \subseteq H, ToSet(n.out) = {x}, x \notin H, G \ {x} \subseteq H,
           \A y \in H \ G : \A i \in 1 .. Len(s) : y \notin ToSet(s[i].out)
    PROVE  WiredList(<<n>> \o s, H, O)
<1> DEFINE t == <<n>> \o s
<1>1. /\ Len(t) = Len(s) + 1 /\ Len(s) \in Nat /\ t[1] = n
      /\ \A k \in 1 .. Len(s) : t[k + 1] = s[k]
    BY FrontList
<1> HIDE DEF t
<1>2. \A k \in 1 .. Len(t) : k = 1 \/ (k - 1 \in 1 .. Len(s) /\ t[k] = s[k - 1])
  <2>1. \A k \in 1 .. Len(t) : k # 1 => k - 1 \in 1 .. Len(s) /\ (k - 1) + 1 = k
      BY <1>1
  <2> QED BY <1>1, <2>1
<1>3. ASSUME NEW k \in 1 .. Len(t), NEW y \in ToSet(t[k].in)
      PROVE  y \in H \/ \E j \in 1 .. k - 1 : y \in ToSet(t[j].out)
  <2>1. CASE k = 1
      BY <1>1, <2>1
  <2>2. CASE k - 1 \in 1 .. Len(s) /\ t[k] = s[k - 1]
    <3>1. CASE y \in G
        BY <1>1, <2>2, <3>1
    <3>2. CASE \E j \in 1 .. (k - 1) - 1 : y \in ToSet(s[j].out)
      <4>1. PICK j \in 1 .. (k - 1) - 1 : y \in ToSet(s[j].out)
          BY <3>2
      <4>2. j \in 1 .. Len(s) /\ j + 1 \in 1 .. k - 1
          BY <1>1, <2>2
      <4> QED BY <1>1, <4>1, <4>2
    <3> QED BY <2>2, <3>1, <3>2 DEF WiredList
  <2> QED BY <1>2, <2>1, <2>2
<1>4. ASSUME NEW y \in O PROVE \E j \in 1 .. Len(t) : y \in ToSet(t[j].out)
  <2>1. PICK j \in 1 .. Len(s) : y \in ToSet(s[j].out)
      BY DEF WiredList
  <2>2. j + 1 \in 1 .. Len(t)
      BY <1>1
  <2> QED BY <1>1, <2>1, <2>2
<1>5. \A k \in 1 .. Len(s) : ToSet(s[k].out) \cap (G \cup H) = {}
    BY DEF WiredList
<1>6. ASSUME NEW k \in 1 .. Len(t) PROVE ToSet(t[k].out) \cap H = {}
  <2>1. CASE k = 1
      BY <1>1, <2>1
  <2>2. CASE k - 1 \in 1 .. Len(s) /\ t[k] = s[k - 1]
    <3>1. ToSet(s[k - 1].out) \cap (G \cup H) = {}
        BY <1>5, <2>2
    <3> QED BY <2>2, <3>1
  <2> QED BY <1>2, <2>1, <2>2
<1>7. ASSUME NEW i \in 1 .. Len(t), NEW j \in 1 .. Len(t), i # j
      PROVE  ToSet(t[i].out) \cap ToSet(t[j].out) = {}
  <2>0. ToSet(t[1].out) = {x} /\ \A k \in 1 .. Len(t) : k # 1 => x \notin ToSet(t[k].out)
      BY <1>1, <1>2, <1>5
  <2>1. CASE i = 1 \/ j = 1
      BY <1>7, <2>0, <2>1
  <2>2. CASE i # 1 /\ j # 1
    <3>1. i - 1 # j - 1
        BY <1>7
    <3>2. /\ i - 1 \in 1 .. Len(s) /\ t[i] = s[i - 1]
          /\ j - 1 \in 1 .. Len(s) /\ t[j] = s[j - 1]
        BY <1>2, <2>2
    <3>3. ToSet(s[i - 1].out) \cap ToSet(s[j - 1].out) = {}
        BY <3>1, <3>2 DEF WiredList
    <3> QED BY <3>2, <3>3
  <2> QED BY <2>1, <2>2
<1> QED BY <1>3, <1>4, <1>6, <1>7 DEF WiredList, t

\* Two nodes in the place of the one at i.
Doubled(s, t, i, m, e) ==
    /\ IsList(t) /\ Len(t) = Len(s) + 1 /\ t[i] = m /\ t[i + 1] = e
    /\ \A k \in 1 .. i - 1 : t[k] = s[k]
    /\ \A k \in i + 1 .. Len(s) : t[k + 1] = s[k]

LEMMA DoubledIs ==
    ASSUME NEW s, IsList(s), NEW i \in 1 .. Len(s), NEW m, NEW e, NEW t,
           t = InsertAt([s EXCEPT ![i] = m], i + 1, e)
    PROVE  Doubled(s, t, i, m, e)
<1> DEFINE v == [s EXCEPT ![i] = m]
<1>1. /\ IsList(v) /\ Len(v) = Len(s) /\ Len(s) \in Nat /\ v[i] = m
      /\ \A k \in 1 .. Len(s) : k # i => v[k] = s[k]
    BY ReplacedAt
<1>2. t = InsertAt(v, i + 1, e)
    OBVIOUS
<1> HIDE DEF v
<1>3. /\ IsList(t) /\ Len(t) = Len(v) + 1 /\ t[i + 1] = e
      /\ \A k \in 1 .. i : t[k] = v[k]
      /\ \A k \in i + 1 .. Len(v) : t[k + 1] = v[k]
  <2>1. i \in 1 .. Len(v) /\ IsList(v)
      BY <1>1
  <2>2. Inserted(v, t, i, e)
      BY <1>2, <2>1, InsertedAt
  <2> QED BY <2>2 DEF Inserted
<1>4. \A k \in 1 .. i - 1 : k \in 1 .. i /\ k \in 1 .. Len(s) /\ k # i
    BY <1>1
<1>5. \A k \in i + 1 .. Len(s) : k \in 1 .. Len(s) /\ k # i
    BY <1>1
<1>6. i \in 1 .. i
    OBVIOUS
<1> QED BY <1>1, <1>3, <1>4, <1>5, <1>6 DEF Doubled

\* A node that writes o becomes two: the one writes mid, which the other reads.
Halves(n, m, e, mid, o, H) ==
    /\ o \in ToSet(n.out)
    /\ ToSet(m.in) \subseteq ToSet(n.in) /\ ToSet(m.out) = (ToSet(n.out) \ {o}) \cup {mid}
    /\ ToSet(e.in) \subseteq H \cup {mid} /\ ToSet(e.out) = {o}

\* No node of the list writes it.
Unwritten(s, y) == \A k \in 1 .. Len(s) : y \notin ToSet(s[k].out)

LEMMA SplitWired ==
    ASSUME NEW s, IsList(s), NEW G, NEW O, WiredList(s, G, O), NEW H, G \subseteq H,
           NEW i \in 1 .. Len(s), NEW m, NEW e, NEW mid, NEW o, Halves(s[i], m, e, mid, o, H),
           mid \notin H, Unwritten(s, mid), \A y \in H \ G : Unwritten(s, y),
           NEW t, Doubled(s, t, i, m, e)
    PROVE  WiredList(t, H, O)
<1>a. /\ o \in ToSet(s[i].out)
      /\ ToSet(m.in) \subseteq ToSet(s[i].in) /\ ToSet(m.out) = (ToSet(s[i].out) \ {o}) \cup {mid}
      /\ ToSet(e.in) \subseteq H \cup {mid} /\ ToSet(e.out) = {o}
      /\ \A k \in 1 .. Len(s) : mid \notin ToSet(s[k].out)
      /\ \A y \in H \ G : \A k \in 1 .. Len(s) : y \notin ToSet(s[k].out)
      /\ IsList(t) /\ Len(t) = Len(s) + 1 /\ t[i] = m /\ t[i + 1] = e
      /\ \A k \in 1 .. i - 1 : t[k] = s[k]
      /\ \A k \in i + 1 .. Len(s) : t[k + 1] = s[k]
    BY DEF Halves, Doubled, Unwritten
<1> USE <1>a
<1> DEFINE At(k) == IF k <= i THEN k ELSE k + 1
<1>0. Len(s) \in Nat /\ Len(t) \in Nat
    BY ListFacts
<1>1. \A k \in 1 .. Len(t) : \/ k = i \/ k = i + 1
                             \/ \E l \in 1 .. Len(s) : l # i /\ k = At(l) /\ t[k] = s[l]
  <2> SUFFICES ASSUME NEW k \in 1 .. Len(t), k # i, k # i + 1
               PROVE  \E l \in 1 .. Len(s) : l # i /\ k = At(l) /\ t[k] = s[l]
      OBVIOUS
  <2>1. CASE k < i
      BY <1>0, <2>1
  <2>2. CASE k > i + 1
    <3>1. k - 1 \in i + 1 .. Len(s) /\ k - 1 \in 1 .. Len(s) /\ (k - 1) + 1 = k
        BY <1>0, <2>2
    <3>2. t[k] = s[k - 1] /\ k = At(k - 1) /\ k - 1 # i
        BY <1>0, <2>2, <3>1
    <3> QED BY <3>1, <3>2
  <2> QED BY <1>0, <2>1, <2>2
<1>2. \A l \in 1 .. Len(s) : l # i => At(l) \in 1 .. Len(t) /\ t[At(l)] = s[l]
    BY <1>0
<1>3. \A k, l \in 1 .. Len(s) : k < l => At(k) < At(l)
    BY <1>0
<1>4. At(i) = i /\ i \in 1 .. Len(t) /\ i + 1 \in 1 .. Len(t)
    BY <1>0
<1>4a. \A l \in 1 .. Len(s) : i < l => i + 1 < At(l)
    BY <1>0
<1> HIDE DEF At
\* What was written before a node still is.
<1>5. ASSUME NEW l \in 1 .. Len(s), NEW j \in 1 .. l - 1, NEW y \in ToSet(s[j].out)
      PROVE  \E k \in 1 .. At(l) - 1 : y \in ToSet(t[k].out)
  <2>1. j \in 1 .. Len(s) /\ j < l /\ At(j) < At(l) /\ At(l) \in Int
      BY <1>0, <1>3 DEF At
  <2>2. CASE j # i
    <3>1. At(j) \in 1 .. At(l) - 1 /\ t[At(j)] = s[j]
        BY <1>0, <1>2, <2>1, <2>2
    <3> QED BY <3>1
  <2>3. CASE j = i
    <3>1. i \in 1 .. At(l) - 1 /\ i + 1 \in 1 .. At(l) - 1
        BY <1>0, <1>4, <1>4a, <2>1, <2>3
    <3>2. y \in ToSet(t[i].out) \/ y \in ToSet(t[i + 1].out)
        BY <2>3
    <3> QED BY <3>1, <3>2
  <2> QED BY <2>2, <2>3
<1>6. ASSUME NEW l \in 1 .. Len(s), NEW y \in ToSet(s[l].in)
      PROVE  y \in H \/ \E k \in 1 .. At(l) - 1 : y \in ToSet(t[k].out)
  <2>1. y \in H \/ \E j \in 1 .. l - 1 : y \in ToSet(s[j].out)
      BY DEF WiredList
  <2> QED BY <1>5, <2>1
<1>7. ASSUME NEW k \in 1 .. Len(t), NEW y \in ToSet(t[k].in)
      PROVE  y \in H \/ \E j \in 1 .. k - 1 : y \in ToSet(t[j].out)
  <2>1. CASE k = i
      BY <1>4, <1>6, <2>1
  <2>2. CASE k = i + 1
    <3>1. i \in 1 .. k - 1
        BY <1>0, <2>2
    <3> QED BY <2>2, <3>1
  <2>3. CASE \E l \in 1 .. Len(s) : l # i /\ k = At(l) /\ t[k] = s[l]
      BY <1>6, <2>3
  <2> QED BY <1>1, <2>1, <2>2, <2>3
<1>8. ASSUME NEW y \in O PROVE \E k \in 1 .. Len(t) : y \in ToSet(t[k].out)
  <2>1. PICK l \in 1 .. Len(s) : y \in ToSet(s[l].out)
      BY DEF WiredList
  <2>2. CASE l = i
      BY <1>4, <2>1, <2>2
  <2>3. CASE l # i
      BY <1>2, <2>1, <2>3
  <2> QED BY <2>2, <2>3
<1>9. \A l \in 1 .. Len(s) : /\ ToSet(s[l].out) \cap H = {} /\ mid \notin ToSet(s[l].out)
                             /\ l # i => ToSet(s[l].out) \cap ToSet(s[i].out) = {}
    BY DEF WiredList
<1>10. ASSUME NEW k \in 1 .. Len(t) PROVE ToSet(t[k].out) \cap H = {}
  <2>1. CASE k = i
    <3>1. ToSet(t[k].out) = (ToSet(s[i].out) \ {o}) \cup {mid}
        BY <2>1
    <3> QED BY <1>9, <3>1
  <2>2. CASE k = i + 1
    <3>1. ToSet(t[k].out) = {o}
        BY <2>2
    <3> QED BY <1>9, <3>1
  <2>3. CASE \E l \in 1 .. Len(s) : l # i /\ k = At(l) /\ t[k] = s[l]
      BY <1>9, <2>3
  <2> QED BY <1>1, <2>1, <2>2, <2>3
<1>11. ToSet(m.out) \cap {o} = {}
    BY <1>9
<1>12. ASSUME NEW l \in 1 .. Len(s), l # i
       PROVE  ToSet(s[l].out) \cap ToSet(m.out) = {} /\ ToSet(s[l].out) \cap {o} = {}
    BY <1>9, <1>12
<1>13. ASSUME NEW j \in 1 .. Len(t), NEW k \in 1 .. Len(t), j < k
       PROVE  ToSet(t[j].out) \cap ToSet(t[k].out) = {}
  <2>1. CASE j \in {i, i + 1} /\ k \in {i, i + 1}
    <3>1. j = i /\ k = i + 1
        BY <1>0, <1>13, <2>1
    <3> QED BY <1>11, <3>1
  <2>2. CASE j \in {i, i + 1} /\ k \notin {i, i + 1}
      BY <1>1, <1>12, <2>2
  <2>3. CASE j \notin {i, i + 1} /\ k \in {i, i + 1}
      BY <1>1, <1>12, <2>3
  <2>4. CASE j \notin {i, i + 1} /\ k \notin {i, i + 1}
    <3>1. PICK a \in 1 .. Len(s) : j = At(a) /\ t[j] = s[a]
        BY <1>1, <2>4
    <3>2. PICK b \in 1 .. Len(s) : k = At(b) /\ t[k] = s[b]
        BY <1>1, <2>4
    <3>3. a # b
        BY <1>13, <3>1, <3>2
    <3>4. ToSet(s[a].out) \cap ToSet(s[b].out) = {}
        BY <3>3 DEF WiredList
    <3> QED BY <3>1, <3>2, <3>4
  <2> QED BY <2>1, <2>2, <2>3, <2>4
<1>14. \A j, k \in 1 .. Len(t) : j # k => j < k \/ k < j
    BY <1>0
<1> QED BY <1>7, <1>8, <1>10, <1>13, <1>14 DEF WiredList

\* The node at b goes, and m takes the place of the one at p.
Shortened(s, t, p, b, m) ==
    /\ IsList(t) /\ Len(t) = Len(s) - 1
    /\ \A k \in 1 .. b - 1 : t[k] = IF k = p THEN m ELSE s[k]
    /\ \A k \in b .. Len(s) - 1 : t[k] = IF k + 1 = p THEN m ELSE s[k + 1]

LEMMA ShortenedIs ==
    ASSUME NEW s, IsList(s), NEW p \in 1 .. Len(s), NEW b \in 1 .. Len(s), NEW m, NEW t,
           t = RemoveAt([s EXCEPT ![p] = m], b)
    PROVE  Shortened(s, t, p, b, m)
<1> DEFINE v == [s EXCEPT ![p] = m]
<1>1. /\ IsList(v) /\ Len(v) = Len(s) /\ Len(s) \in Nat
      /\ \A k \in 1 .. Len(s) : v[k] = IF k = p THEN m ELSE s[k]
  <2>1. /\ IsList(v) /\ Len(v) = Len(s) /\ Len(s) \in Nat /\ v[p] = m
        /\ \A k \in 1 .. Len(s) : k # p => v[k] = s[k]
      BY ReplacedAt
  <2> HIDE DEF v
  <2> QED BY <2>1
<1>2. t = RemoveAt(v, b)
    OBVIOUS
<1> HIDE DEF v
<1>3. /\ IsList(t) /\ Len(t) = Len(v) - 1
      /\ \A k \in 1 .. b - 1 : t[k] = v[k]
      /\ \A k \in b .. Len(v) - 1 : t[k] = v[k + 1]
  <2>1. b \in 1 .. Len(v)
      BY <1>1
  <2> QED BY <1>1, <1>2, <2>1, RemovedAt
<1>4. \A k \in 1 .. b - 1 : k \in 1 .. Len(s)
    BY <1>1
<1>5. \A k \in b .. Len(s) - 1 : k + 1 \in 1 .. Len(s)
    BY <1>1
<1> QED BY <1>1, <1>3, <1>4, <1>5 DEF Shortened

\* n writes x and m writes z in its stead, from what n reads and what is given.
Succeeds(n, bn, m, x, z, H) ==
    /\ ToSet(n.out) = {x} /\ ToSet(bn.out) = {z} /\ x \in ToSet(bn.in)
    /\ ToSet(m.in) \subseteq ToSet(n.in) \cup H /\ ToSet(m.out) = {z}

\* The node after the only reader of what p writes takes the place of p.
LEMMA FoldWired ==
    ASSUME NEW s, IsList(s), NEW G, NEW O, WiredList(s, G, O), NEW H, G \subseteq H,
           NEW p \in 1 .. Len(s), NEW b \in 1 .. Len(s), NEW x, NEW z, NEW m,
           Succeeds(s[p], s[b], m, x, z, H),
           x \notin O, \A k \in 1 .. Len(s) : x \in ToSet(s[k].in) => k = b,
           \A y \in H \ G : Unwritten(s, y),
           NEW t, Shortened(s, t, p, b, m)
    PROVE  WiredList(t, H, O)
<1>a. /\ ToSet(s[p].out) = {x} /\ ToSet(s[b].out) = {z} /\ x \in ToSet(s[b].in)
      /\ ToSet(m.in) \subseteq ToSet(s[p].in) \cup H /\ ToSet(m.out) = {z}
      /\ \A y \in H \ G : \A k \in 1 .. Len(s) : y \notin ToSet(s[k].out)
      /\ IsList(t) /\ Len(t) = Len(s) - 1
      /\ \A k \in 1 .. b - 1 : t[k] = IF k = p THEN m ELSE s[k]
      /\ \A k \in b .. Len(s) - 1 : t[k] = IF k + 1 = p THEN m ELSE s[k + 1]
    BY DEF Succeeds, Shortened, Unwritten
<1> USE <1>a
<1> DEFINE At(k) == IF k < b THEN k ELSE k - 1
<1>0. Len(s) \in Nat /\ Len(t) \in Nat
    BY ListFacts
<1>1. p < b
  <2>1. x \notin G
      BY DEF WiredList
  <2>2. PICK j \in 1 .. b - 1 : x \in ToSet(s[j].out)
      BY <2>1 DEF WiredList
  <2>3. j \in 1 .. Len(s)
      BY <1>0
  <2>4. j = p
      BY <2>2, <2>3 DEF WiredList
  <2> QED BY <1>0, <2>4
<1>2. t[p] = m /\ p \in 1 .. Len(t) /\ At(p) = p
    BY <1>0, <1>1
<1>3. \A k \in 1 .. Len(t) : k = p \/ \E l \in 1 .. Len(s) : /\ l # b /\ l # p
                                                             /\ k = At(l) /\ t[k] = s[l]
  <2> SUFFICES ASSUME NEW k \in 1 .. Len(t), k # p
               PROVE  \E l \in 1 .. Len(s) : l # b /\ l # p /\ k = At(l) /\ t[k] = s[l]
      OBVIOUS
  <2>1. CASE k < b
    <3>1. k \in 1 .. b - 1 /\ k \in 1 .. Len(s) /\ k # b /\ k # p
        BY <1>0, <2>1
    <3>2. t[k] = s[k] /\ At(k) = k
        BY <2>1, <3>1
    <3> HIDE DEF At
    <3> QED BY <3>1, <3>2
  <2>2. CASE k >= b
    <3>1. k \in b .. Len(s) - 1 /\ k + 1 \in 1 .. Len(s) /\ k + 1 # b /\ k + 1 # p /\ At(k + 1) = k
        BY <1>0, <1>1, <2>2
    <3>2. t[k] = s[k + 1]
        BY <3>1
    <3> QED BY <3>1, <3>2
  <2> QED BY <1>0, <2>1, <2>2
<1>4. \A l \in 1 .. Len(s) : l # b /\ l # p => At(l) \in 1 .. Len(t) /\ t[At(l)] = s[l]
  <2> SUFFICES ASSUME NEW l \in 1 .. Len(s), l # b, l # p
               PROVE  At(l) \in 1 .. Len(t) /\ t[At(l)] = s[l]
      OBVIOUS
  <2>1. CASE l < b
    <3>1. l \in 1 .. b - 1 /\ l \in 1 .. Len(t) /\ At(l) = l
        BY <1>0, <2>1
    <3>2. t[l] = s[l]
        BY <3>1
    <3> QED BY <3>1, <3>2
  <2>2. CASE l > b
    <3>1. l - 1 \in b .. Len(s) - 1 /\ (l - 1) + 1 = l /\ At(l) = l - 1
        BY <1>0, <2>2
    <3> QED BY <1>0, <3>1
  <2> QED BY <1>0, <2>1, <2>2
<1>5. \A k, l \in 1 .. Len(s) : k < l /\ k # b /\ l # b => At(k) < At(l)
    BY <1>0
<1>6. \A l \in 1 .. Len(s) : l > b => At(l) > p /\ At(l) \in Int
    BY <1>0, <1>1
<1>6a. \A l \in 1 .. Len(s) : At(l) \in Int
    BY <1>0
<1> HIDE DEF At
<1>7. ASSUME NEW l \in 1 .. Len(s), l # b, NEW j \in 1 .. l - 1, NEW y \in ToSet(s[j].out), y # x
      PROVE  \E k \in 1 .. At(l) - 1 : y \in ToSet(t[k].out)
  <2>0. j # p
      BY <1>7
  <2>1. j \in 1 .. Len(s) /\ j < l /\ j # p
      BY <1>0, <2>0
  <2>2. CASE j = b
    <3>1. y \in ToSet(t[p].out)
        BY <1>2, <2>2
    <3>2. p \in 1 .. At(l) - 1
        BY <1>0, <1>6, <2>1, <2>2
    <3> QED BY <3>1, <3>2
  <2>3. CASE j # b
    <3>1. At(j) \in 1 .. At(l) - 1 /\ t[At(j)] = s[j]
        BY <1>0, <1>4, <1>5, <1>6a, <1>7, <2>1, <2>3
    <3> QED BY <3>1
  <2> QED BY <2>2, <2>3
<1>8. ASSUME NEW l \in 1 .. Len(s), l # b, NEW y \in ToSet(s[l].in)
      PROVE  y \in H \/ \E k \in 1 .. At(l) - 1 : y \in ToSet(t[k].out)
  <2>1. y # x
      BY <1>8
  <2>2. CASE y \in G
      BY <2>2
  <2>3. CASE \E j \in 1 .. l - 1 : y \in ToSet(s[j].out)
    <3>1. PICK j \in 1 .. l - 1 : y \in ToSet(s[j].out)
        BY <2>3
    <3> QED BY <1>7, <1>8, <2>1, <3>1
  <2> QED BY <1>8, <2>2, <2>3 DEF WiredList
<1>9. ASSUME NEW k \in 1 .. Len(t), NEW y \in ToSet(t[k].in)
      PROVE  y \in H \/ \E j \in 1 .. k - 1 : y \in ToSet(t[j].out)
  <2>1. CASE k = p
      BY <1>1, <1>2, <1>8, <2>1
  <2>2. CASE \E l \in 1 .. Len(s) : l # b /\ l # p /\ k = At(l) /\ t[k] = s[l]
      BY <1>8, <2>2
  <2> QED BY <1>3, <2>1, <2>2
<1>10. ASSUME NEW y \in O PROVE \E k \in 1 .. Len(t) : y \in ToSet(t[k].out)
  <2>1. PICK l \in 1 .. Len(s) : y \in ToSet(s[l].out)
      BY DEF WiredList
  <2>2. l # p
      BY <2>1
  <2>3. CASE l = b
      BY <1>2, <2>1, <2>3
  <2>4. CASE l # b
      BY <1>4, <2>1, <2>2, <2>4
  <2> QED BY <2>3, <2>4
<1>11. \A l \in 1 .. Len(s) : /\ ToSet(s[l].out) \cap H = {}
                              /\ l # b => z \notin ToSet(s[l].out)
    BY DEF WiredList
<1>12. ASSUME NEW k \in 1 .. Len(t) PROVE ToSet(t[k].out) \cap H = {}
    BY <1>2, <1>3, <1>11
<1>13. ASSUME NEW j \in 1 .. Len(t), NEW k \in 1 .. Len(t), j # k
       PROVE  ToSet(t[j].out) \cap ToSet(t[k].out) = {}
  <2>0. ToSet(t[p].out) = {z} /\ \A l \in 1 .. Len(t) : l # p => z \notin ToSet(t[l].out)
      BY <1>2, <1>3, <1>11
  <2>1. CASE j = p
    <3>1. z \notin ToSet(t[k].out)
        BY <1>13, <2>0, <2>1
    <3> QED BY <2>0, <2>1, <3>1
  <2>2. CASE k = p
    <3>1. z \notin ToSet(t[j].out)
        BY <1>13, <2>0, <2>2
    <3> QED BY <2>0, <2>2, <3>1
  <2>3. CASE j # p /\ k # p
    <3>1. PICK a \in 1 .. Len(s) : j = At(a) /\ t[j] = s[a]
        BY <1>3, <2>3
    <3>2. PICK c \in 1 .. Len(s) : k = At(c) /\ t[k] = s[c]
        BY <1>3, <2>3
    <3>3. a # c
        BY <1>13, <3>1, <3>2
    <3>4. ToSet(s[a].out) \cap ToSet(s[c].out) = {}
        BY <3>3 DEF WiredList
    <3> QED BY <3>1, <3>2, <3>4
  <2> QED BY <2>1, <2>2, <2>3
<1> QED BY <1>9, <1>10, <1>12, <1>13 DEF WiredList
-----------------------------------------------------------------------------
(* Tensors read at one place of a list.                                     *)

ReadOnce(s, x) ==
    \A i, j \in 1 .. Len(s) : x \in ToSet(s[i].in) /\ x \in ToSet(s[j].in) => i = j

\* A new first node that does not read it, or a split node of which one half does.
LEMMA SplitReads ==
    ASSUME NEW s, IsList(s), NEW x, ReadOnce(s, x), NEW i \in 1 .. Len(s), NEW m, NEW e,
           ToSet(m.in) \subseteq ToSet(s[i].in), x \notin ToSet(e.in),
           NEW t, Doubled(s, t, i, m, e)
    PROVE  ReadOnce(t, x)
<1>a. /\ IsList(t) /\ Len(t) = Len(s) + 1
      /\ ToSet(t[i].in) \subseteq ToSet(s[i].in) /\ x \notin ToSet(t[i + 1].in)
      /\ \A k \in 1 .. i - 1 : t[k] = s[k]
      /\ \A k \in i + 1 .. Len(s) : t[k + 1] = s[k]
    BY DEF Doubled
<1> USE <1>a
<1>0. Len(s) \in Nat /\ Len(t) \in Nat
    BY ListFacts
<1> DEFINE From(k) == IF k <= i THEN k ELSE k - 1
<1>1. ASSUME NEW k \in 1 .. Len(t), x \in ToSet(t[k].in)
      PROVE  From(k) \in 1 .. Len(s) /\ x \in ToSet(s[From(k)].in) /\ k # i + 1
  <2>1. k # i + 1
      BY <1>1
  <2>2. CASE k < i
    <3>1. k \in 1 .. i - 1 /\ k \in 1 .. Len(s) /\ From(k) = k
        BY <1>0, <2>2
    <3>2. t[k] = s[k]
        BY <3>1
    <3> HIDE DEF From
    <3> QED BY <1>1, <2>1, <3>1, <3>2
  <2>3. CASE k = i
    <3>1. From(k) = i
        BY <2>3
    <3> HIDE DEF From
    <3> QED BY <1>1, <2>1, <2>3, <3>1
  <2>4. CASE k > i + 1
    <3>1. k - 1 \in i + 1 .. Len(s) /\ k - 1 \in 1 .. Len(s) /\ (k - 1) + 1 = k /\ From(k) = k - 1
        BY <1>0, <2>4
    <3>2. t[k] = s[k - 1]
        BY <3>1
    <3> HIDE DEF From
    <3> QED BY <1>1, <2>1, <3>1, <3>2
  <2> QED BY <1>0, <2>1, <2>2, <2>3, <2>4
<1>2. \A j, k \in 1 .. Len(t) : From(j) = From(k) /\ j # i + 1 /\ k # i + 1 => j = k
    BY <1>0
<1> HIDE DEF From
<1> QED BY <1>1, <1>2 DEF ReadOnce

\* The node at b goes, the one at p may read something new.
LEMMA FoldReads ==
    ASSUME NEW s, IsList(s), NEW x, ReadOnce(s, x), NEW p \in 1 .. Len(s), NEW b \in 1 .. Len(s),
           NEW m, x \in ToSet(m.in) => x \in ToSet(s[p].in),
           NEW t, Shortened(s, t, p, b, m)
    PROVE  ReadOnce(t, x)
<1>a. /\ IsList(t) /\ Len(t) = Len(s) - 1
      /\ \A k \in 1 .. b - 1 : t[k] = IF k = p THEN m ELSE s[k]
      /\ \A k \in b .. Len(s) - 1 : t[k] = IF k + 1 = p THEN m ELSE s[k + 1]
    BY DEF Shortened
<1> USE <1>a
<1>0. Len(s) \in Nat /\ Len(t) \in Nat
    BY ListFacts
<1> DEFINE From(k) == IF k < b THEN k ELSE k + 1
<1>1. ASSUME NEW k \in 1 .. Len(t), x \in ToSet(t[k].in)
      PROVE  From(k) \in 1 .. Len(s) /\ x \in ToSet(s[From(k)].in)
  <2>1. From(k) \in 1 .. Len(s) /\ t[k] = IF From(k) = p THEN m ELSE s[From(k)]
    <3>1. CASE k < b
      <4>1. k \in 1 .. b - 1 /\ k \in 1 .. Len(s) /\ From(k) = k
          BY <1>0, <3>1
      <4>2. t[k] = IF k = p THEN m ELSE s[k]
          BY <4>1
      <4> HIDE DEF From
      <4> QED BY <4>1, <4>2
    <3>2. CASE k >= b
      <4>1. k \in b .. Len(s) - 1 /\ k + 1 \in 1 .. Len(s) /\ From(k) = k + 1
          BY <1>0, <3>2
      <4>2. t[k] = IF k + 1 = p THEN m ELSE s[k + 1]
          BY <4>1
      <4> HIDE DEF From
      <4> QED BY <4>1, <4>2
    <3> QED BY <1>0, <3>1, <3>2
  <2> HIDE DEF From
  <2>2. CASE From(k) = p
      BY <1>1, <2>1, <2>2
  <2>3. CASE From(k) # p
      BY <1>1, <2>1, <2>3
  <2> QED BY <2>2, <2>3
<1>2. \A j, k \in 1 .. Len(t) : From(j) = From(k) => j = k
    BY <1>0
<1> HIDE DEF From
<1> QED BY <1>1, <1>2 DEF ReadOnce
-----------------------------------------------------------------------------
(* Names and the parts they are made of.                                    *)

Converting == {"fp16", "q", "scale", "zp"}
Rewriting == {"svd_v", "fused_bias"}
OwnParts == Converting \cup Rewriting \cup {"svd_mid", "fp16_cast", "dq"}

FreeOf(y, parts) == \A j \in 1 .. Len(y) : y[j] \notin parts
Plain(y) == FreeOf(y, OwnParts)
Begins(y, x) == Len(y) >= Len(x) /\ \A j \in 1 .. Len(x) : y[j] = x[j]

LEMMA AppendFree ==
    ASSUME NEW x, IsList(x), NEW p, NEW parts
    PROVE  FreeOf(Append(x, p), parts) <=> FreeOf(x, parts) /\ p \notin parts
<1> DEFINE y == Append(x, p)
<1>1. /\ Len(y) = Len(x) + 1 /\ Len(x) \in Nat /\ y[Len(x) + 1] = p
      /\ \A j \in 1 .. Len(x) : y[j] = x[j]
    BY PartAppended
<1> HIDE DEF y
<1>2. \A j \in 1 .. Len(y) : j \in 1 .. Len(x) \/ j = Len(x) + 1
    BY <1>1
<1>3. Len(x) + 1 \in 1 .. Len(y) /\ \A j \in 1 .. Len(x) : j \in 1 .. Len(y)
    BY <1>1
<1>4. ASSUME FreeOf(y, parts) PROVE FreeOf(x, parts) /\ p \notin parts
    BY <1>1, <1>3, <1>4 DEF FreeOf
<1>5. ASSUME FreeOf(x, parts), p \notin parts PROVE FreeOf(y, parts)
    BY <1>1, <1>2, <1>5 DEF FreeOf
<1> QED BY <1>4, <1>5 DEF y

LEMMA DerivedNotFree ==
    ASSUME NEW x, IsList(x), NEW p, NEW y, Derived(x, p, y), NEW parts, p \in parts
    PROVE  ~FreeOf(y, parts)
<1>1. Len(y) > Len(x) /\ Len(x) \in Nat /\ Len(y) \in Nat /\ y[Len(x) + 1] = p
    BY DerivedIs
<1>2. Len(x) + 1 \in 1 .. Len(y)
    BY <1>1
<1> QED BY <1>1, <1>2 DEF FreeOf

LEMMA FewerParts ==
    ASSUME NEW y, NEW parts, NEW few, few \subseteq parts, FreeOf(y, parts)
    PROVE  FreeOf(y, few)
    BY DEF FreeOf

\* One name continues another if all but its last part does, or they are the same.
LEMMA BeginsAppend ==
    ASSUME NEW y, IsList(y), NEW x, IsList(x), NEW p, NEW q,
           Begins(Append(y, p), Append(x, q))
    PROVE  Begins(y, Append(x, q)) \/ (y = x /\ p = q)
<1> DEFINE a == Append(y, p)
           c == Append(x, q)
<1>1. /\ Len(a) = Len(y) + 1 /\ Len(y) \in Nat /\ a[Len(y) + 1] = p
      /\ \A j \in 1 .. Len(y) : a[j] = y[j]
    BY PartAppended
<1>2. /\ Len(c) = Len(x) + 1 /\ Len(x) \in Nat /\ c[Len(x) + 1] = q
      /\ \A j \in 1 .. Len(x) : c[j] = x[j]
    BY PartAppended
<1> HIDE DEF a, c
<1>3. Len(a) >= Len(c) /\ \A j \in 1 .. Len(c) : a[j] = c[j]
    BY DEF Begins, a, c
<1>4. CASE Len(y) > Len(x)
  <2>1. Len(y) >= Len(c) /\ \A j \in 1 .. Len(c) : j \in 1 .. Len(y)
      BY <1>1, <1>2, <1>4
  <2>2. \A j \in 1 .. Len(c) : y[j] = c[j]
      BY <1>1, <1>3, <2>1
  <2> QED BY <2>1, <2>2 DEF Begins, c
<1>5. CASE Len(y) = Len(x)
  <2>1. \A j \in 1 .. Len(x) : j \in 1 .. Len(c) /\ j \in 1 .. Len(y)
      BY <1>1, <1>2, <1>5
  <2>2. \A j \in 1 .. Len(x) : y[j] = x[j]
      BY <1>1, <1>2, <1>3, <2>1
  <2>3. y = [j \in 1 .. Len(y) |-> y[j]] /\ x = [j \in 1 .. Len(x) |-> x[j]]
      BY ListFacts
  <2>4. y = x
      BY <1>5, <2>2, <2>3
  <2>5. Len(c) \in 1 .. Len(c) /\ Len(c) = Len(x) + 1
      BY <1>2
  <2>6. a[Len(c)] = c[Len(c)]
      BY <1>3, <2>5
  <2> QED BY <1>1, <1>2, <1>5, <2>4, <2>5, <2>6
<1> QED BY <1>1, <1>2, <1>3, <1>4, <1>5

LEMMA BeginsShort ==
    ASSUME NEW y, IsList(y), NEW x, IsList(x), NEW q, Begins(y, Append(x, q))
    PROVE  Begins(y, x) /\ Len(y) > Len(x) /\ ~FreeOf(y, {q})
<1> DEFINE c == Append(x, q)
<1>2. /\ Len(c) = Len(x) + 1 /\ Len(x) \in Nat /\ c[Len(x) + 1] = q
      /\ \A j \in 1 .. Len(x) : c[j] = x[j]
    BY PartAppended
<1> HIDE DEF c
<1>3. Len(y) >= Len(c) /\ (\A j \in 1 .. Len(c) : y[j] = c[j]) /\ Len(y) \in Nat
    BY ListFacts DEF Begins, c
<1>4. \A j \in 1 .. Len(x) : j \in 1 .. Len(c)
    BY <1>2
<1>5. Len(x) + 1 \in 1 .. Len(c) /\ Len(x) + 1 \in 1 .. Len(y) /\ Len(y) > Len(x)
    BY <1>2, <1>3
<1>6. y[Len(x) + 1] = q
    BY <1>2, <1>3, <1>5
<1>7. Begins(y, x)
    BY <1>2, <1>3, <1>4, <1>5 DEF Begins
<1>8. ~FreeOf(y, {q})
    BY <1>5, <1>6 DEF FreeOf
<1> QED BY <1>5, <1>7, <1>8

LEMMA BeginsItself == ASSUME NEW x, IsList(x) PROVE Begins(x, x)
    BY ListFacts DEF Begins
-----------------------------------------------------------------------------
(* What every handler keeps of the names, and with them of the wiring.  r:  *)
(* a handler that rewrites nodes is still to come.                          *)

\* The tensors of a graph.
TensorOf(g, y) == y \in Given(g) \/ \E n \in ToSet(g.nodes) : y \in ToSet(n.out)

\* A layer with weights, into which a fusion could fold, or which it could fold.
Folds(n) == n.op \in {"Conv", "Gemm", "BatchNormalization"}

\* No item stands twice in a list.
Unrepeated(s) == \A j, k \in 1 .. Len(s) : s[j] = s[k] => j = k

\* The names a node writes and reads are not yet those a conversion will make.
NodeFine(n, r) ==
    /\ \A y \in ToSet(n.out) : FreeOf(y, Converting) /\ (r => FreeOf(y, Rewriting))
    /\ Plain(n.name) => \A y \in ToSet(n.in) : FreeOf(y, Converting)
    /\ Folds(n) => Plain(n.name) /\ Len(n.out) = 1
    /\ Unrepeated(n.out)

\* No tensor is called after the middle of a split that may still come.
Apart(g) ==
    \A n \in ToSet(g.nodes) : Plain(n.name) =>
        \A y : TensorOf(g, y) => ~Begins(y, Middle(n))

\* The normalizations to be fused have inputs nobody else reads.
LoneFine(u, g) ==
    /\ \A n \in ToSet(g.nodes) :
          n.op = "BatchNormalization" /\ n.name \in u.fused => n.in[1] \in u.lone
    /\ \A x \in u.lone : Plain(x) /\ x \notin g.outs /\ ReadOnce(g.nodes, x)

\* A graph in the middle of a pass.
WiredInv(u, g, r) ==
    /\ InPass(g)
    /\ \A y \in Given(g) : IsList(y)
    /\ WiredList(g.nodes, Given(g), g.outs)
    /\ \A n \in ToSet(g.nodes) : NodeFine(n, r)
    /\ r => Apart(g) /\ LoneFine(u, g)

LEMMA WiredWeakens ==
    ASSUME NEW u, NEW g, NEW r \in BOOLEAN, WiredInv(u, g, r)
    PROVE  WiredInv(u, g, FALSE)
    BY DEF WiredInv, NodeFine

SameNode(m, n) == m.name = n.name /\ m.op = n.op /\ m.in = n.in /\ m.out = n.out

LEMMA SameWiring ==
    ASSUME NEW u, NEW g, NEW r \in BOOLEAN, WiredInv(u, g, r), NEW h, InPass(h),
           DOMAIN h.inits = DOMAIN g.inits, h.ins = g.ins, h.outs = g.outs,
           Len(h.nodes) = Len(g.nodes),
           \A i \in 1 .. Len(g.nodes) : SameNode(h.nodes[i], g.nodes[i])
    PROVE  WiredInv(u, h, r)
<1> DEFINE s == g.nodes
           t == h.nodes
<1>1. /\ IsList(s) /\ IsList(t) /\ Len(t) = Len(s)
      /\ DOMAIN s = 1 .. Len(s) /\ DOMAIN t = 1 .. Len(s)
    BY ListFacts DEF WiredInv, InPass, WellFormed
<1>2. Given(h) = Given(g)
    BY DEF Given
<1>3. \A m \in ToSet(t) : \E n \in ToSet(s) : SameNode(m, n)
    BY <1>1 DEF ToSet
<1>4. WiredList(t, Given(g), g.outs)
  <2>1. WiredList(s, Given(g), g.outs)
      BY DEF WiredInv
  <2>2. \A i \in 1 .. Len(s) : t[i].in = s[i].in /\ t[i].out = s[i].out
      BY DEF SameNode
  <2>3. Len(s) \in Nat
      BY <1>1, ListFacts
  <2> HIDE DEF s, t
  <2>4. \A i \in 1 .. Len(s) : \A j \in 1 .. i - 1 : j \in 1 .. Len(s)
      BY <2>3
  <2>5. \A i \in 1 .. Len(s) : \A y \in ToSet(t[i].in) :
            y \in Given(g) \/ \E j \in 1 .. i - 1 : y \in ToSet(t[j].out)
    <3>1. SUFFICES ASSUME NEW i \in 1 .. Len(s), NEW y \in ToSet(t[i].in), y \notin Given(g)
                   PROVE  \E j \in 1 .. i - 1 : y \in ToSet(t[j].out)
        OBVIOUS
    <3>2. y \in ToSet(s[i].in)
        BY <2>2
    <3>3. PICK j \in 1 .. i - 1 : y \in ToSet(s[j].out)
        BY <2>1, <3>1, <3>2 DEF WiredList
    <3>4. j \in 1 .. Len(s)
        BY <2>4
    <3> QED BY <2>2, <3>3, <3>4
  <2>6. \A y \in g.outs : \E j \in 1 .. Len(s) : y \in ToSet(t[j].out)
      BY <2>1, <2>2 DEF WiredList
  <2>7. \A i \in 1 .. Len(s) : ToSet(t[i].out) \cap Given(g) = {}
      BY <2>1, <2>2 DEF WiredList
  <2>8. \A i, j \in 1 .. Len(s) : i # j => ToSet(t[i].out) \cap ToSet(t[j].out) = {}
      BY <2>1, <2>2 DEF WiredList
  <2> QED BY <1>1, <2>5, <2>6, <2>7, <2>8 DEF WiredList
<1>5. \A n \in ToSet(t) : NodeFine(n, r)
    BY <1>3 DEF WiredInv, NodeFine, SameNode, Folds
<1>6. \A y : TensorOf(h, y) => TensorOf(g, y)
    BY <1>2, <1>3 DEF TensorOf, SameNode
<1>7. ASSUME Apart(g) PROVE Apart(h)
    BY <1>3, <1>6, <1>7 DEF Apart, SameNode, Middle
<1>8. ASSUME LoneFine(u, g) PROVE LoneFine(u, h)
  <2>1. ASSUME NEW x, ReadOnce(s, x) PROVE ReadOnce(t, x)
      BY <1>1, <2>1 DEF ReadOnce, SameNode
  <2>2. \A n \in ToSet(t) :
            n.op = "BatchNormalization" /\ n.name \in u.fused => n.in[1] \in u.lone
      BY <1>3, <1>8 DEF LoneFine, SameNode
  <2> QED BY <1>8, <2>1, <2>2 DEF LoneFine
<1> QED BY <1>2, <1>4, <1>5, <1>7, <1>8 DEF WiredInv

LEMMA ToldParts ==
    /\ "fp16" \in Converting /\ "q" \in Converting /\ "scale" \in Converting /\ "zp" \in Converting
    /\ "svd_v" \in Rewriting /\ "fused_bias" \in Rewriting
    /\ "fp16_cast" \in OwnParts /\ "dq" \in OwnParts /\ "svd_mid" \in OwnParts
    /\ "svd_v" \notin Converting /\ "svd_mid" \notin Converting /\ "fused_bias" \notin Converting
    /\ "svd_mid" \notin Rewriting
    /\ Converting \subseteq OwnParts /\ Rewriting \subseteq OwnParts
    BY DEF Converting, Rewriting, OwnParts

\* A weight behind a new first node.
LEMMA MoveWired ==
    ASSUME NEW u, NEW g, WiredInv(u, g, FALSE), NEW h, InPass(h), NEW x \in DOMAIN g.inits,
           NEW new, NEW n, Moved(g, h, x, new, n), FreeOf(x, Converting),
           \A y \in DOMAIN new : \E p \in Converting : Derived(x, p, y)
    PROVE  WiredInv(u, h, FALSE)
<1> DEFINE s == g.nodes
           G == Given(g)
           H == Given(h)
<1>0. InPass(g)
    BY DEF WiredInv
<1>1. /\ ToSet(h.nodes) = {n} \cup ToSet(s)
      /\ DOMAIN h.inits = (DOMAIN g.inits \ {x}) \cup DOMAIN new
      /\ ToSet(n.in) = DOMAIN new /\ ToSet(n.out) = {x} /\ n.out = <<x>>
  <2>1. n.out = <<x>>
      BY DEF Moved
  <2> QED BY <1>0, <2>1, MovedTo
<1>2. h.nodes = <<n>> \o s /\ h.ins = g.ins \ {x} /\ h.outs = g.outs
    BY DEF Moved, Fronted, SameElse
<1>3. InPass(g) /\ IsList(s) /\ WiredList(s, G, g.outs) /\ IsList(x)
    BY DEF WiredInv, InPass, WellFormed, ListNamed
<1>4. x \in G /\ x \notin DOMAIN new /\ \A y \in DOMAIN new : IsList(y)
    BY DEF Moved, Taken, Given
<1>5. H = (G \ {x}) \cup DOMAIN new
    BY <1>1, <1>2, <1>4 DEF Given
<1> HIDE DEF G, H
<1>6. \A m \in ToSet(s) : \A y \in ToSet(m.out) : FreeOf(y, Converting)
    BY DEF WiredInv, NodeFine
<1>7. ASSUME NEW y \in H \ G, NEW i \in 1 .. Len(s) PROVE y \notin ToSet(s[i].out)
  <2>1. ~FreeOf(y, Converting)
      BY <1>3, <1>5, <1>7, DerivedNotFree
  <2>2. s[i] \in ToSet(s)
      BY <1>3, ListFacts
  <2> QED BY <1>6, <2>1, <2>2
<1>8. WiredList(h.nodes, H, g.outs)
  <2>1. ToSet(n.in) \subseteq H /\ x \notin H /\ G \ {x} \subseteq H
      BY <1>1, <1>4, <1>5
  <2> HIDE DEF s
  <2> QED BY <1>1, <1>2, <1>3, <1>4, <1>7, <2>1, FrontWired
<1>9. NodeFine(n, FALSE)
  <2>1. ~Plain(n.name)
    <3>1. Derived(x, "fp16_cast", n.name) \/ Derived(x, "dq", n.name)
        BY DEF Moved
    <3> QED BY <1>3, <3>1, DerivedNotFree, ToldParts DEF Plain
  <2>2. ~Folds(n)
      BY DEF Moved, Folds
  <2>3. Unrepeated(n.out)
      BY <1>1 DEF Unrepeated
  <2> QED BY <1>1, <2>1, <2>2, <2>3 DEF NodeFine
<1>10. \A y \in H : IsList(y)
    BY <1>4, <1>5 DEF WiredInv, G
<1> QED BY <1>1, <1>2, <1>8, <1>9, <1>10 DEF WiredInv, H

LEMMA ConvertWired ==
    ASSUME NEW u, NEW g, WiredInv(u, g, FALSE), NEW x, IsList(x), FreeOf(x, Converting),
           NEW level, NEW consumer
    PROVE  WiredInv(u, Convert(g, x, level, consumer), FALSE)
<1> DEFINE h == Convert(g, x, level, consumer)
<1> SUFFICES WiredInv(u, h, FALSE)
    OBVIOUS
<1>1. InPass(g) /\ InPass(h)
    BY ConvertInPass DEF WiredInv
<1>2. CASE h = g
    BY <1>2
<1>3. CASE \E new, n : ConvertedTo(g, h, x, level, new, n)
  <2> HIDE DEF h
  <2>1. PICK new, n : ConvertedTo(g, h, x, level, new, n)
      BY <1>3
  <2>2. x \in DOMAIN g.inits /\ Moved(g, h, x, new, n) /\ (AsFp16(g, x, new) \/ AsInt8(g, x, new))
      BY <2>1 DEF ConvertedTo, WorthConverting
  <2>3. CASE AsFp16(g, x, new)
    <3>1. \A y \in DOMAIN new : Derived(x, "fp16", y)
        BY <2>3 DEF AsFp16
    <3>2. \A y \in DOMAIN new : \E p \in Converting : Derived(x, p, y)
        BY <3>1, ToldParts
    <3> QED BY <1>1, <2>2, <3>2, MoveWired
  <2>4. CASE AsInt8(g, x, new)
    <3>1. \A y \in DOMAIN new : Derived(x, "q", y) \/ Derived(x, "scale", y) \/ Derived(x, "zp", y)
        BY <2>4 DEF AsInt8
    <3>2. \A y \in DOMAIN new : \E p \in Converting : Derived(x, p, y)
        BY <3>1, ToldParts
    <3> QED BY <1>1, <2>2, <3>2, MoveWired
  <2> QED BY <2>2, <2>3, <2>4
<1>4. h = g \/ \E new, n : ConvertedTo(g, h, x, level, new, n)
    BY <1>1, ConvertIs
<1> QED BY <1>2, <1>3, <1>4

\* The first half of a node.
HalfHas(m, n) ==
    /\ m.name = n.name /\ m.op = n.op /\ m.in = n.in
    /\ Len(m.out) = Len(n.out) /\ m.out[1] = Middle(n) /\ IsList(m.out)
    /\ \A k \in 1 .. Len(n.out) : k # 1 => m.out[k] = n.out[k]
    /\ IsList(n.out[1]) /\ IsList(Middle(n)) /\ n.out[1] \in ToSet(n.out)

LEMMA HalfFacts ==
    ASSUME NEW n, NEW m, m = Half(n), NamedNode(n), WellFormedNode(n)
    PROVE  HalfHas(m, n)
    BY HalfIs DEF HalfHas

\* A node cut in two for a low rank.
LEMMA SplitKeepsWired ==
    ASSUME NEW u, NEW g, WiredInv(u, g, TRUE), NEW h, InPass(h), NEW name, Plain(name),
           NEW i, NEW w, NEW new, SplitAt(g, h, name, i, w, new)
    PROVE  WiredInv(u, h, TRUE)
<1> DEFINE s == g.nodes
           t == h.nodes
           n == s[i]
           m == Half(n)
           e == SecondNode(name, n, w)
           mid == Middle(n)
           fac == Factor(w)
           G == Given(g)
           H == Given(h)
<1>1. /\ InPass(g) /\ IsList(s) /\ DOMAIN s = 1 .. Len(s) /\ Len(s) \in Nat
      /\ WiredList(s, G, g.outs) /\ Apart(g) /\ LoneFine(u, g)
    BY ListFacts DEF WiredInv, InPass, WellFormed
<1>2. i \in 1 .. Len(s) /\ n.name = name /\ w \in ToSet(n.in) /\ w \in DOMAIN g.inits
    BY <1>1 DEF SplitAt
<1>3. h.ins = g.ins /\ h.outs = g.outs /\ DOMAIN h.inits = DOMAIN g.inits \cup {fac}
    BY <1>2 DEF SplitAt, Written, SameElse, Overlaid
<1>4. w \in G /\ H = G \cup {fac}
    BY <1>2, <1>3 DEF Given
<1>5. /\ n \in ToSet(s) /\ NamedNode(n) /\ WellFormedNode(n) /\ NodeFine(n, TRUE)
      /\ IsList(w) /\ IsList(name)
    BY <1>1, <1>2, ListFacts, NodeOf DEF WiredInv, InPass, ListNamed, NamedNode
<1>6a. Doubled(s, t, i, m, e)
  <2>1. t = InsertAt([s EXCEPT ![i] = m], i + 1, e)
      BY DEF SplitAt
  <2> HIDE DEF t, m, e
  <2> QED BY <1>1, <1>2, <2>1, DoubledIs
<1>6. /\ IsList(t) /\ Len(t) = Len(s) + 1 /\ t[i] = m /\ t[i + 1] = e
      /\ \A k \in 1 .. i - 1 : t[k] = s[k]
      /\ \A k \in i + 1 .. Len(s) : t[k + 1] = s[k]
  <2> HIDE DEF s, t, m, e
  <2> QED BY <1>6a DEF Doubled
<1>7. /\ m.name = name /\ m.op = n.op /\ m.in = n.in
      /\ Len(m.out) = Len(n.out) /\ m.out[1] = mid /\ IsList(m.out)
      /\ \A k \in 1 .. Len(n.out) : k # 1 => m.out[k] = n.out[k]
      /\ IsList(n.out[1]) /\ IsList(mid) /\ n.out[1] \in ToSet(n.out)
  <2>1. m = Half(n) /\ mid = Middle(n)
      OBVIOUS
  <2> HIDE DEF m, n
  <2>2. HalfHas(m, n)
      BY <1>5, <2>1, HalfFacts
  <2> QED BY <1>2, <2>1, <2>2 DEF HalfHas
<1>8. SecondHas(e, n, w, name)
    BY <1>5, SecondIs
<1>9. mid = Append(n.out[1], "svd_mid") /\ fac = Append(w, "svd_v") /\ IsList(fac)
    BY <1>5, PartAppended DEF Middle, Factor
<1> DEFINE o == n.out[1]
<1>10. e.out = <<o>> /\ ToSet(e.out) = {o} /\ e.name = Append(name, "svd_v")
       /\ e.op = "MatMul" /\ \A y \in ToSet(e.in) : y = mid \/ y = fac
    BY <1>8, OneList DEF SecondHas
<1>11. ~TensorOf(g, mid) /\ \A y : TensorOf(g, y) => ~Begins(y, mid)
    BY <1>1, <1>2, <1>5, <1>7, BeginsItself DEF Apart
<1>12. Len(n.out) \in Nat /\ Len(n.out) >= 1 /\ Unrepeated(n.out) /\ IsList(n.out)
       /\ DOMAIN n.out = 1 .. Len(n.out) /\ DOMAIN m.out = 1 .. Len(n.out)
    BY <1>5, <1>7, ListFacts DEF NamedNode, NodeFine
<1>13. mid \notin ToSet(n.out)
    BY <1>5, <1>11 DEF TensorOf
<1> HIDE DEF m, e, mid, fac, G, H, o, n, t
<1>14. ToSet(m.out) = (ToSet(n.out) \ {o}) \cup {mid}
  <2>1. ToSet(m.out) = {m.out[k] : k \in 1 .. Len(n.out)} /\ ToSet(n.out) = {n.out[k] : k \in 1 .. Len(n.out)}
      BY <1>12 DEF ToSet
  <2>2. 1 \in 1 .. Len(n.out) /\ o = n.out[1]
      BY <1>12 DEF o
  <2>3. \A k \in 1 .. Len(n.out) : k # 1 => n.out[k] # o
      BY <1>12, <2>2 DEF Unrepeated
  <2>4. \A k \in 1 .. Len(n.out) : k = 1 \/ m.out[k] \in ToSet(n.out) \ {o}
      BY <1>7, <2>1, <2>3
  <2>5. \A y \in ToSet(n.out) \ {o} : y \in ToSet(m.out)
      BY <1>7, <2>1, <2>2
  <2>6. \A y \in ToSet(m.out) : y = mid \/ y \in ToSet(n.out) \ {o}
      BY <1>7, <2>1, <2>4
  <2>7. mid \in ToSet(m.out)
      BY <1>7, <2>1, <2>2
  <2> QED BY <2>5, <2>6, <2>7
\* The names of the new tensors.
<1>15. \A l \in 1 .. Len(s) : s[l] \in ToSet(s)
    BY <1>1, ListFacts
<1>16. mid \notin G /\ \A l \in 1 .. Len(s) : mid \notin ToSet(s[l].out)
    BY <1>11, <1>15 DEF TensorOf, G
<1>17. ~FreeOf(fac, Rewriting) /\ ~Plain(fac) /\ ~Plain(mid) /\ fac # mid /\ ~Plain(e.name)
  <2>1. ~FreeOf(fac, Rewriting)
      BY <1>5, <1>9, AppendFree, ToldParts
  <2>2. ~Plain(mid)
      BY <1>7, <1>9, AppendFree, ToldParts DEF Plain, o
  <2>3. ~Plain(fac) /\ ~Plain(e.name)
      BY <1>5, <1>9, <1>10, AppendFree, ToldParts DEF Plain
  <2>4. fac # mid
    <3>1. Len(fac) = Len(w) + 1 /\ fac[Len(w) + 1] = "svd_v" /\ Len(w) \in Nat
        BY <1>5, <1>9, PartAppended
    <3>2. Len(mid) = Len(o) + 1 /\ mid[Len(o) + 1] = "svd_mid" /\ Len(o) \in Nat
        BY <1>7, <1>9, PartAppended DEF o
    <3> QED BY <3>1, <3>2
  <2> QED BY <2>1, <2>2, <2>3, <2>4
<1>18. \A l \in 1 .. Len(s) : fac \notin ToSet(s[l].out)
    BY <1>15, <1>17 DEF WiredInv, NodeFine
<1>19. WiredList(t, H, g.outs)
  <2>1. ToSet(e.in) \subseteq H \cup {mid} /\ G \subseteq H /\ mid \notin H
      BY <1>4, <1>10, <1>16, <1>17
  <2>2. Halves(n, m, e, mid, o, H)
      BY <1>7, <1>10, <1>14, <2>1 DEF Halves, o
  <2>3. Unwritten(s, mid) /\ \A y \in H \ G : Unwritten(s, y)
      BY <1>4, <1>16, <1>18 DEF Unwritten
  <2> HIDE DEF s
  <2> QED BY <1>1, <1>2, <1>6a, <2>1, <2>2, <2>3, SplitWired DEF n
\* Every node of the result.
<1>20. \A k \in 1 .. Len(t) : t[k] = m \/ t[k] = e \/ \E l \in 1 .. Len(s) : l # i /\ t[k] = s[l]
  <2> SUFFICES ASSUME NEW k \in 1 .. Len(t), k # i, k # i + 1
               PROVE  \E l \in 1 .. Len(s) : l # i /\ t[k] = s[l]
      BY <1>6
  <2>1. CASE k < i
    <3>1. k \in 1 .. i - 1 /\ k \in 1 .. Len(s) /\ k # i
        BY <1>1, <1>2, <1>6, <2>1
    <3> QED BY <1>6, <3>1
  <2>2. CASE k > i + 1
    <3>1. k - 1 \in i + 1 .. Len(s) /\ k - 1 \in 1 .. Len(s) /\ (k - 1) + 1 = k /\ k - 1 # i
        BY <1>1, <1>2, <1>6, <2>2
    <3>2. t[k] = s[k - 1]
        BY <1>6, <3>1
    <3> QED BY <3>1, <3>2
  <2> QED BY <1>2, <1>6, <2>1, <2>2
<1>21. \A x \in ToSet(t) : x = m \/ x = e \/ \E l \in 1 .. Len(s) : l # i /\ x = s[l]
  <2>1. DOMAIN t = 1 .. Len(t)
      BY <1>6, ListFacts
  <2> QED BY <1>20, <2>1 DEF ToSet
<1>22. NodeFine(m, TRUE)
  <2>1. FreeOf(o, Converting) /\ FreeOf(o, Rewriting)
      BY <1>5, <1>7 DEF NodeFine, o
  <2>2. FreeOf(mid, Converting) /\ FreeOf(mid, Rewriting)
      BY <1>7, <1>9, <2>1, AppendFree, ToldParts DEF o
  <2>3. \A y \in ToSet(m.out) : FreeOf(y, Converting) /\ FreeOf(y, Rewriting)
      BY <1>5, <1>14, <2>2 DEF NodeFine
  <2>4. Unrepeated(m.out)
    <3>1. \A k \in 1 .. Len(n.out) : k # 1 => m.out[k] # mid
        BY <1>7, <1>12, <1>13 DEF ToSet
    <3>2. \A j, k \in 1 .. Len(n.out) : m.out[j] = m.out[k] => j = k
        BY <1>7, <1>12, <3>1 DEF Unrepeated
    <3> QED BY <1>7, <3>2 DEF Unrepeated
  <2>5. \A y \in ToSet(m.in) : FreeOf(y, Converting)
      BY <1>2, <1>5, <1>7 DEF NodeFine
  <2>6. Folds(m) => Plain(m.name) /\ Len(m.out) = 1
      BY <1>5, <1>7 DEF NodeFine, Folds
  <2> QED BY <2>3, <2>4, <2>5, <2>6 DEF NodeFine
<1>23. NodeFine(e, TRUE)
  <2>1. FreeOf(o, Converting) /\ FreeOf(o, Rewriting)
      BY <1>5, <1>7 DEF NodeFine, o
  <2>2. ~Folds(e) /\ Unrepeated(e.out)
      BY <1>10 DEF Folds, Unrepeated
  <2> QED BY <1>10, <1>17, <2>1, <2>2 DEF NodeFine
<1>24. \A x \in ToSet(t) : NodeFine(x, TRUE)
    BY <1>15, <1>21, <1>22, <1>23 DEF WiredInv
<1>25. \A y : TensorOf(h, y) => TensorOf(g, y) \/ y = mid \/ y = fac
  <2>1. \A x \in ToSet(t) : \A y \in ToSet(x.out) : TensorOf(g, y) \/ y = mid
    <3>1. \A y \in ToSet(m.out) \cup ToSet(e.out) : y = mid \/ y \in ToSet(n.out)
        BY <1>7, <1>10, <1>14 DEF o
    <3> QED BY <1>5, <1>15, <1>21, <3>1 DEF TensorOf
  <2> QED BY <1>4, <2>1 DEF TensorOf, t, G, H
<1>26. \A y : TensorOf(g, y) => IsList(y)
    BY <1>1 DEF TensorOf, WiredInv, InPass, ListNamed, NamedNode
<1>27. Apart(h)
  <2> SUFFICES ASSUME NEW x \in ToSet(t), Plain(x.name), NEW y, TensorOf(h, y), Begins(y, Middle(x))
               PROVE  FALSE
      BY DEF Apart, t
  <2>1. x # e
      BY <1>17
  <2>2. CASE x = m
    <3>1. Middle(x) = Append(mid, "svd_mid")
        BY <1>7, <2>2 DEF Middle
    <3>2. CASE TensorOf(g, y)
      <4>1. IsList(y) /\ IsList(mid) /\ Begins(y, Append(mid, "svd_mid"))
          BY <1>7, <1>26, <3>1, <3>2
      <4>2. Begins(y, mid)
          BY <4>1, BeginsShort
      <4> QED BY <1>11, <3>2, <4>2
    <3>3. CASE y = mid
      <4>1. IsList(mid) /\ Begins(mid, Append(mid, "svd_mid"))
          BY <1>7, <3>1, <3>3
      <4>2. Len(mid) > Len(mid) /\ Len(mid) \in Nat
          BY <4>1, BeginsShort, ListFacts
      <4> QED BY <4>2
    <3>4. CASE y = fac
      <4>1. Begins(Append(w, "svd_v"), Append(mid, "svd_mid"))
          BY <1>9, <3>1, <3>4
      <4>2. Begins(w, Append(mid, "svd_mid"))
          BY <1>5, <1>7, <4>1, BeginsAppend
      <4>3. Begins(w, mid)
          BY <1>5, <1>7, <4>2, BeginsShort
      <4>4. TensorOf(g, w)
          BY <1>2 DEF TensorOf, Given
      <4> QED BY <1>11, <4>3, <4>4
    <3> QED BY <1>25, <3>2, <3>3, <3>4
  <2>3. CASE \E l \in 1 .. Len(s) : l # i /\ x = s[l]
    <3>1. PICK l \in 1 .. Len(s) : l # i /\ x = s[l]
        BY <2>3
    <3>2. x \in ToSet(s) /\ NamedNode(x)
        BY <1>1, <1>15, <3>1, NodeOf
    <3>3. x.out[1] \in ToSet(x.out) /\ IsList(x.out[1]) /\ Middle(x) = Append(x.out[1], "svd_mid")
        BY <3>2 DEF NamedNode, Middle, ToSet
    <3>4. x.out[1] # o
      <4>1. ToSet(s[l].out) \cap ToSet(s[i].out) = {}
          BY <1>1, <1>2, <3>1 DEF WiredList
      <4> QED BY <1>7, <3>1, <3>3, <4>1 DEF n, o
    <3>5. CASE TensorOf(g, y)
        BY <1>1, <3>2, <3>5 DEF Apart
    <3>6. CASE y = mid
      <4>1. Begins(o, Middle(x))
          BY <1>7, <1>9, <3>3, <3>4, <3>6, BeginsAppend DEF o
      <4>2. TensorOf(g, o)
          BY <1>5, <1>7 DEF TensorOf, o
      <4> QED BY <1>1, <3>2, <4>1, <4>2 DEF Apart
    <3>7. CASE y = fac
      <4>1. Begins(w, Middle(x))
          BY <1>5, <1>9, <3>3, <3>7, BeginsAppend
      <4>2. TensorOf(g, w)
          BY <1>2 DEF TensorOf, Given
      <4> QED BY <1>1, <3>2, <4>1, <4>2 DEF Apart
    <3> QED BY <1>25, <3>5, <3>6, <3>7
  <2> QED BY <1>21, <2>1, <2>2, <2>3
<1>28. LoneFine(u, h)
  <2>1. \A x \in ToSet(t) :
            x.op = "BatchNormalization" /\ x.name \in u.fused => x.in[1] \in u.lone
      BY <1>1, <1>2, <1>5, <1>7, <1>10, <1>15, <1>21 DEF LoneFine
  <2>2. ASSUME NEW x \in u.lone PROVE ReadOnce(t, x)
    <3>1. ReadOnce(s, x) /\ x \notin ToSet(e.in)
        BY <1>1, <1>10, <1>17, <2>2 DEF LoneFine
    <3> HIDE DEF s
    <3> QED BY <1>1, <1>2, <1>6a, <1>7, <3>1, SplitReads DEF n
  <2> QED BY <1>1, <1>3, <2>1, <2>2 DEF LoneFine, t
<1>29. \A y \in H : IsList(y)
    BY <1>4, <1>9 DEF WiredInv, G
<1> QED BY <1>3, <1>19, <1>24, <1>27, <1>28, <1>29 DEF WiredInv, t, H

\* What is left of a producer and the BatchNormalization folded into it.
HeirHas(m, bn, n) ==
    /\ m.name = n.name /\ m.op = n.op
    /\ ToSet(m.in) \subseteq ToSet(n.in) \cup {Append(n.name, "fused_bias")}
    /\ Len(n.in) > 2 => m.in = n.in
    /\ IsList(m.out) /\ Len(m.out) = Len(n.out) /\ m.out[1] = bn.out[1]

LEMMA HeirFacts ==
    ASSUME NEW bn, NEW n, NEW m, m = Heir(bn, n), NamedNode(n), WellFormedNode(n),
           WellFormedNode(bn), NamedNode(bn)
    PROVE  HeirHas(m, bn, n)
    BY HeirIs DEF HeirHas

LEMMA SingleOutput ==
    ASSUME NEW n, IsList(n.out), Len(n.out) = 1
    PROVE  ToSet(n.out) = {n.out[1]} /\ Unrepeated(n.out)
<1>1. DOMAIN n.out = 1 .. 1
    BY ListFacts
<1> QED BY <1>1 DEF ToSet, Unrepeated

\* A BatchNormalization folded into the node that writes its input.
LEMMA FoldKeepsWired ==
    ASSUME NEW u, NEW g, WiredInv(u, g, TRUE), NEW h, InPass(h), NEW name, name \in u.fused,
           NEW b, NEW p, NEW new, FoldedAt(g, h, name, b, p, new)
    PROVE  WiredInv(u, h, TRUE)
<1> DEFINE s == g.nodes
           t == h.nodes
           bn == s[b]
           n == s[p]
           m == Heir(bn, n)
           bias == Append(n.name, "fused_bias")
           x == bn.in[1]
           z == bn.out[1]
           G == Given(g)
           H == Given(h)
<1>1. /\ InPass(g) /\ IsList(s) /\ DOMAIN s = 1 .. Len(s) /\ Len(s) \in Nat
      /\ WiredList(s, G, g.outs) /\ Apart(g) /\ LoneFine(u, g)
    BY ListFacts DEF WiredInv, InPass, WellFormed
<1>2. /\ b \in 1 .. Len(s) /\ p \in 1 .. Len(s) /\ bn.name = name
      /\ bn.op = "BatchNormalization" /\ n.op \in {"Conv", "Gemm"} /\ x \in ToSet(n.out)
    BY <1>1 DEF FoldedAt
<1>3. h.ins = g.ins /\ h.outs = g.outs /\ DOMAIN h.inits = DOMAIN g.inits \cup DOMAIN new
    BY DEF FoldedAt, Written, SameElse, Overlaid
<1>4. \A y \in DOMAIN new : y \in DOMAIN g.inits \/ y = bias
    BY DEF FoldedAt
<1>5. Len(n.in) <= 2 => bias \in DOMAIN new
    BY DEF FoldedAt
<1>6. G \subseteq H /\ (\A y \in H \ G : y = bias) /\ (Len(n.in) <= 2 => bias \in H)
    BY <1>3, <1>4, <1>5 DEF Given
<1>7. \A l \in 1 .. Len(s) : s[l] \in ToSet(s)
    BY <1>1, ListFacts
<1>8. /\ n \in ToSet(s) /\ bn \in ToSet(s)
      /\ NamedNode(n) /\ WellFormedNode(n) /\ NamedNode(bn) /\ WellFormedNode(bn)
      /\ NodeFine(n, TRUE) /\ NodeFine(bn, TRUE)
    BY <1>1, <1>2, <1>7, NodeOf DEF WiredInv
<1>9. HeirHas(m, bn, n)
  <2> HIDE DEF n, bn
  <2> QED BY <1>8, HeirFacts
<1>10. Shortened(s, t, p, b, m)
  <2>1. t = RemoveAt([s EXCEPT ![p] = m], b)
      BY DEF FoldedAt
  <2> HIDE DEF t, m
  <2> QED BY <1>1, <1>2, <2>1, ShortenedIs
<1>11. Folds(n) /\ Folds(bn)
    BY <1>2 DEF Folds
<1>12. Plain(n.name) /\ Plain(bn.name) /\ Len(n.out) = 1 /\ Len(bn.out) = 1
    BY <1>8, <1>11 DEF NodeFine
<1>13. IsList(n.name) /\ IsList(n.out) /\ IsList(bn.out) /\ IsList(bn.in) /\ Len(bn.in) >= 2
       /\ IsList(n.in)
    BY <1>2, <1>8 DEF NamedNode, WellFormedNode
<1>14. ToSet(n.out) = {n.out[1]} /\ ToSet(bn.out) = {z}
  <2> HIDE DEF n, bn
  <2> QED BY <1>12, <1>13, SingleOutput
<1>15. ToSet(n.out) = {x}
    BY <1>2, <1>14
<1>16. x \in ToSet(bn.in)
  <2>1. 1 \in 1 .. Len(bn.in)
      BY <1>13, ListFacts
  <2> QED BY <1>13, <2>1, ListFacts
<1>17. x \in u.lone
    BY <1>1, <1>2, <1>8 DEF LoneFine
<1> HIDE DEF m, bias, x, z, G, H, n, bn, t
<1>18. /\ m.name = n.name /\ m.op = n.op /\ ToSet(m.in) \subseteq ToSet(n.in) \cup {bias}
       /\ Len(n.in) > 2 => m.in = n.in
    BY <1>9 DEF HeirHas, bias
<1>19. IsList(m.out) /\ Len(m.out) = 1 /\ m.out[1] = z /\ ToSet(m.out) = {z} /\ Unrepeated(m.out)
  <2>1. IsList(m.out) /\ Len(m.out) = 1 /\ m.out[1] = z
      BY <1>9, <1>12 DEF HeirHas, z
  <2> QED BY <2>1, SingleOutput
<1>20. bias = Append(n.name, "fused_bias") /\ IsList(bias)
    BY <1>13, PartAppended DEF bias
<1>21. ~FreeOf(bias, Rewriting) /\ ~Plain(bias) /\ FreeOf(bias, Converting) /\ FreeOf(bias, {"svd_mid"})
  <2>1. FreeOf(n.name, Converting) /\ FreeOf(n.name, {"svd_mid"})
      BY <1>12, FewerParts, ToldParts DEF Plain
  <2>2. ~FreeOf(bias, Rewriting) /\ FreeOf(bias, Converting)
      BY <1>13, <1>20, <2>1, AppendFree, ToldParts
  <2>3. FreeOf(bias, {"svd_mid"})
    <3>1. "fused_bias" \notin {"svd_mid"}
        OBVIOUS
    <3> QED BY <1>13, <1>20, <2>1, <3>1, AppendFree
  <2>4. ~Plain(bias)
      BY <1>13, <1>20, AppendFree, ToldParts DEF Plain
  <2> QED BY <2>2, <2>3, <2>4
<1>22. Unwritten(s, bias)
    BY <1>7, <1>21 DEF WiredInv, NodeFine, Unwritten
<1>23. ToSet(m.in) \subseteq ToSet(n.in) \cup H
  <2>1. Len(n.in) \in Nat
      BY <1>13, ListFacts
  <2>2. CASE Len(n.in) > 2
      BY <1>18, <2>2
  <2>3. CASE Len(n.in) <= 2
      BY <1>6, <1>18, <2>3
  <2> QED BY <2>1, <2>2, <2>3
<1>24. x \notin g.outs /\ ReadOnce(s, x) /\ Plain(x)
    BY <1>1, <1>17 DEF LoneFine
<1>25. WiredList(t, H, g.outs)
  <2>1. Succeeds(n, bn, m, x, z, H)
      BY <1>14, <1>15, <1>16, <1>19, <1>23 DEF Succeeds
  <2>2. \A k \in 1 .. Len(s) : x \in ToSet(s[k].in) => k = b
      BY <1>2, <1>16, <1>24 DEF ReadOnce, bn
  <2>3. \A y \in H \ G : Unwritten(s, y)
      BY <1>6, <1>22
  <2> HIDE DEF s
  <2> QED BY <1>1, <1>2, <1>6, <1>10, <1>24, <2>1, <2>2, <2>3, FoldWired DEF n, bn
<1>26. \A y \in ToSet(t) : y = m \/ y \in ToSet(s)
  <2>1. IsList(t) /\ Len(t) = Len(s) - 1 /\ DOMAIN t = 1 .. Len(t)
      BY <1>10, ListFacts DEF Shortened
  <2>2. ASSUME NEW k \in 1 .. Len(t) PROVE t[k] = m \/ t[k] \in ToSet(s)
    <3>1. \/ k \in 1 .. b - 1 /\ k \in 1 .. Len(s)
          \/ k \in b .. Len(s) - 1 /\ k + 1 \in 1 .. Len(s)
        BY <1>1, <1>2, <2>1
    <3> QED BY <1>7, <1>10, <3>1 DEF Shortened
  <2> QED BY <2>1, <2>2 DEF ToSet
<1>27. NodeFine(m, TRUE)
  <2>1. FreeOf(z, Converting) /\ FreeOf(z, Rewriting)
      BY <1>8, <1>14 DEF NodeFine
  <2>2. \A y \in ToSet(m.in) : FreeOf(y, Converting)
      BY <1>8, <1>12, <1>18, <1>21 DEF NodeFine
  <2> QED BY <1>12, <1>18, <1>19, <2>1, <2>2 DEF NodeFine
<1>28. \A y \in ToSet(t) : NodeFine(y, TRUE)
    BY <1>26, <1>27 DEF WiredInv
<1>29. \A y : TensorOf(h, y) => TensorOf(g, y) \/ y = bias
  <2>1. \A k \in ToSet(t) : \A y \in ToSet(k.out) : TensorOf(g, y)
      BY <1>8, <1>14, <1>19, <1>26 DEF TensorOf
  <2> QED BY <1>6, <2>1 DEF TensorOf, t, G, H
<1>30. \A k \in ToSet(t) : Plain(k.name) =>
          \E l \in ToSet(s) : Plain(l.name) /\ Middle(k) = Middle(l) /\ IsList(l.out[1])
  <2>1. \A l \in ToSet(s) : IsList(l.out[1])
    <3>1. \A l \in ToSet(s) : NamedNode(l)
        BY <1>1, NodeOf
    <3>2. \A l \in ToSet(s) : l.out[1] \in ToSet(l.out)
        BY <3>1, ListFacts DEF NamedNode
    <3> QED BY <3>1, <3>2 DEF NamedNode
  <2>2. Middle(m) = Middle(bn)
      BY <1>19 DEF Middle, z
  <2> QED BY <1>8, <1>12, <1>26, <2>1, <2>2
<1>31. Apart(h)
  <2> SUFFICES ASSUME NEW k \in ToSet(t), Plain(k.name), NEW y, TensorOf(h, y), Begins(y, Middle(k))
               PROVE  FALSE
      BY DEF Apart, t
  <2>1. PICK l \in ToSet(s) : Plain(l.name) /\ Middle(k) = Middle(l) /\ IsList(l.out[1])
      BY <1>30
  <2>2. CASE TensorOf(g, y)
      BY <1>1, <2>1, <2>2 DEF Apart
  <2>3. CASE y = bias
    <3>1. Begins(bias, Append(l.out[1], "svd_mid"))
        BY <2>1, <2>3 DEF Middle
    <3> QED BY <1>20, <1>21, <2>1, <3>1, BeginsShort
  <2> QED BY <1>29, <2>2, <2>3
<1>32. LoneFine(u, h)
  <2>1. m.op # "BatchNormalization"
      BY <1>2, <1>18
  <2>2. ASSUME NEW y \in u.lone PROVE ReadOnce(t, y)
    <3>1. ReadOnce(s, y) /\ (y \in ToSet(m.in) => y \in ToSet(n.in))
        BY <1>1, <1>18, <1>21, <2>2 DEF LoneFine
    <3> HIDE DEF s
    <3> QED BY <1>1, <1>2, <1>10, <3>1, FoldReads DEF n
  <2> QED BY <1>1, <1>3, <1>26, <2>1, <2>2 DEF LoneFine, t
<1>33. \A y \in H : IsList(y)
    BY <1>6, <1>20 DEF WiredInv, G
<1> QED BY <1>3, <1>25, <1>28, <1>31, <1>32, <1>33 DEF WiredInv, t, H
-----------------------------------------------------------------------------
(* A pass keeps the wiring.                                                 *)

\* What an action must be for a handler to keep it.
Fits(u, a, r) ==
    /\ WellFormedAction(a) /\ Plain(a.name)
    /\ a.kind = "bn_fusion" => r /\ a.name \in u.fused
    /\ a.kind = "low_rank_svd" => r
    /\ a.kind \in QuantKinds => ~r

LEMMA QuantizeWired ==
    ASSUME NEW u, NEW g, WiredInv(u, g, FALSE), NEW h, NEW a, Plain(a.name), Quantized(g, h, a)
    PROVE  WiredInv(u, h, FALSE)
<1>1. InPass(g)
    BY DEF WiredInv
<1>2. PICK n, f : n \in ToSet(g.nodes) /\ n.name = a.name /\ Conversions(f, g, h, n, a.arg)
    BY DEF Quantized
<1>3. IsList(n.in) /\ NamedNode(n)
    BY <1>1, <1>2, NodeOf
<1>4. \A y \in ToSet(n.in) : FreeOf(y, Converting)
    BY <1>2 DEF WiredInv, NodeFine
<1> DEFINE Ok(x) == WiredInv(u, x, FALSE)
<1>0. Ok(g)
    OBVIOUS
<1> HIDE DEF Ok
<1> DEFINE Fine == {f[k] : k \in {k \in 0 .. Len(n.in) : Ok(f[k])}}
<1>5. Len(n.in) \in Nat /\ f[0] = g
    BY <1>2, <1>3, ListFacts DEF Conversions
<1>6. g \in Fine
    BY <1>0, <1>5
<1>7. ASSUME NEW k \in 1 .. Len(n.in), f[k - 1] \in Fine PROVE f[k] \in Fine
  <2>1. Ok(f[k - 1])
      BY <1>7
  <2>2. n.in[k] \in ToSet(n.in)
      BY <1>3, ListFacts
  <2>3. IsList(n.in[k]) /\ FreeOf(n.in[k], Converting)
      BY <1>3, <1>4, <2>2 DEF NamedNode
  <2>4. f[k] = Convert(f[k - 1], n.in[k], a.arg, n)
      BY <1>2 DEF Conversions
  <2>5. Ok(f[k])
      BY <2>1, <2>3, <2>4, ConvertWired DEF Ok
  <2> QED BY <1>5, <2>5
<1>8. h \in Fine
  <2> HIDE DEF Fine
  <2> QED BY <1>2, <1>3, <1>6, <1>7, ChainKeeps
<1>9. Ok(h)
    BY <1>8
<1> QED BY <1>9 DEF Ok

LEMMA HandleWired ==
    ASSUME NEW u, NEW r \in BOOLEAN, NEW g, WiredInv(u, g, r), NEW a, Fits(u, a, r)
    PROVE  WiredInv(u, Handle(g, a), r)
<1> DEFINE h == Handle(g, a)
<1>0. InPass(g) /\ InPass(h) /\ WellFormedAction(a) /\ Plain(a.name)
    BY HandleInPass DEF WiredInv, Fits
<1> SUFFICES WiredInv(u, h, r)
    OBVIOUS
<1>9. \/ Stopped(g, h) \/ Reweighted(g, h)
      \/ Quantized(g, h, a) \/ Pruned(g, h, a) \/ Split(g, h, a) \/ Fused(g, h, a)
    BY <1>0, HandleIs
<1> HIDE DEF h
<1>1. CASE Stopped(g, h)
  <2>1. h.nodes = g.nodes /\ h.inits = g.inits /\ h.ins = g.ins /\ h.outs = g.outs
      BY <1>0, <1>1, StoppedFields
  <2>2. \A i \in 1 .. Len(g.nodes) : SameNode(h.nodes[i], g.nodes[i])
      BY <2>1 DEF SameNode
  <2> QED BY <1>0, <2>1, <2>2, SameWiring
<1>2. CASE Quantized(g, h, a)
  <2>1. r = FALSE
      BY <1>2 DEF Fits, Quantized
  <2> QED BY <1>0, <1>2, <2>1, QuantizeWired
<1>3. CASE Pruned(g, h, a)
  <2>1. PICK n, new : /\ DOMAIN new \subseteq DOMAIN g.inits
                      /\ Written(g, h, new) /\ h.nodes = g.nodes
      BY <1>3 DEF Pruned
  <2>2. DOMAIN h.inits = DOMAIN g.inits /\ h.ins = g.ins /\ h.outs = g.outs
      BY <2>1 DEF Written, SameElse, Overlaid
  <2>3. \A i \in 1 .. Len(g.nodes) : SameNode(h.nodes[i], g.nodes[i])
      BY <2>1 DEF SameNode
  <2> QED BY <1>0, <2>1, <2>2, <2>3, SameWiring
<1>4. CASE Split(g, h, a)
  <2>1. r = TRUE
      BY <1>4 DEF Fits, Split
  <2>2. PICK i, w, new : SplitAt(g, h, a.name, i, w, new)
      BY <1>4 DEF Split
  <2> QED BY <1>0, <2>1, <2>2, SplitKeepsWired
<1>5. CASE Fused(g, h, a)
  <2>1. r = TRUE /\ a.name \in u.fused
      BY <1>5 DEF Fits, Fused
  <2>2. PICK b, p, new : FoldedAt(g, h, a.name, b, p, new)
      BY <1>5 DEF Fused
  <2> QED BY <1>0, <2>1, <2>2, FoldKeepsWired
<1>6. CASE Reweighted(g, h)
  <2>1. PICK i, at : Attributed(g, h, i, at)
      BY <1>6 DEF Reweighted
  <2> DEFINE n == g.nodes[i]
             m == [n EXCEPT !.attr = at]
  <2>2. IsList(g.nodes) /\ DOMAIN g.nodes = 1 .. Len(g.nodes) /\ i \in 1 .. Len(g.nodes)
      BY <1>0, <2>1, ListFacts DEF InPass, WellFormed, Attributed
  <2>3. n \in ToSet(g.nodes)
      BY <2>2, ListFacts
  <2>4. h.inits = g.inits /\ h.ins = g.ins /\ h.outs = g.outs /\ h.nodes = [g.nodes EXCEPT ![i] = m]
      BY <2>1 DEF Attributed, SameElse
  <2>5. WellFormedNode(n)
      BY <1>0, <2>3, NodeOf
  <2>6. SameNode(m, n)
      BY <2>5 DEF SameNode, WellFormedNode
  <2> HIDE DEF m
  <2>7. /\ Len(h.nodes) = Len(g.nodes) /\ h.nodes[i] = m
        /\ \A k \in 1 .. Len(g.nodes) : k # i => h.nodes[k] = g.nodes[k]
      BY <2>2, <2>4, ReplacedAt
  <2>8. \A k \in 1 .. Len(g.nodes) : SameNode(h.nodes[k], g.nodes[k])
      BY <2>6, <2>7 DEF SameNode
  <2> QED BY <1>0, <2>4, <2>7, <2>8, SameWiring
<1> QED BY <1>1, <1>2, <1>3, <1>4, <1>5, <1>6, <1>9
-----------------------------------------------------------------------------
(* The order of the handlers.                                               *)

Rewrites == {"bn_fusion", "low_rank_svd"}

\* No node is rewritten after a weight was converted.
Sorted(s) ==
    \A j, k \in 1 .. Len(s) : j < k /\ s[j].kind \in QuantKinds => s[k].kind \notin Rewrites

ToRewrite(s) == \E a \in ToSet(s) : a.kind \in Rewrites

LEMMA SortedJoin ==
    ASSUME NEW s, NEW t, IsList(s), IsList(t),
           \A a \in ToSet(s) : a.kind \notin QuantKinds,
           \A a \in ToSet(t) : a.kind \notin Rewrites
    PROVE  Sorted(s \o t)
<1> DEFINE u == s \o t
<1>1. /\ Len(s) \in Nat /\ Len(t) \in Nat /\ Len(u) = Len(s) + Len(t)
      /\ \A k \in 1 .. Len(s) : u[k] = s[k]
      /\ \A k \in 1 .. Len(u) : k > Len(s) => u[k] = t[k - Len(s)] /\ k - Len(s) \in 1 .. Len(t)
  <2>1. s \in Seq(ToSet(s) \cup ToSet(t)) /\ t \in Seq(ToSet(s) \cup ToSet(t))
    <3>1. s \in Seq(ToSet(s)) /\ t \in Seq(ToSet(t))
        BY DEF IsList
    <3> HIDE DEF u
    <3> QED BY <3>1
  <2> QED BY <2>1
<1> SUFFICES ASSUME NEW j \in 1 .. Len(u), NEW k \in 1 .. Len(u), j < k,
                    u[j].kind \in QuantKinds
             PROVE  u[k].kind \notin Rewrites
    BY DEF Sorted
<1> HIDE DEF u
<1>2. \A l \in 1 .. Len(s) : s[l] \in ToSet(s)
    BY ListFacts
<1>3. j > Len(s)
    BY <1>1, <1>2
<1>4. u[k] = t[k - Len(s)] /\ k - Len(s) \in 1 .. Len(t)
    BY <1>1, <1>3
<1>5. u[k] \in ToSet(t)
    BY <1>4, ListFacts
<1> QED BY <1>5

LEMMA OrderedSorted ==
    ASSUME NEW actions, ActionList(actions)
    PROVE  Sorted(Ordered(actions))
<1> DEFINE Of(p) == MembersAt(actions, {k \in DOMAIN actions : actions[k].kind \in Phases[p]})
           In(s, kinds) == IsList(s) /\ \A a \in ToSet(s) : a.kind \in kinds
<1>1. ASSUME NEW p PROVE In(Of(p), Phases[p])
  <2> DEFINE S == {k \in DOMAIN actions : actions[k].kind \in Phases[p]}
  <2>1. S \in SUBSET DOMAIN actions /\ \A k \in S : actions[k].kind \in Phases[p]
      OBVIOUS
  <2>2. Len(actions) \in Nat /\ DOMAIN actions = 1 .. Len(actions)
      BY ListFacts DEF ActionList
  <2>3. S \in SUBSET Int /\ IsFiniteSet(S)
    <3> HIDE DEF S
    <3> QED BY <2>1, <2>2, PlacesFinite
  <2> HIDE DEF S
  <2>4. IsList(MembersAt(actions, S))
      BY <2>1, SelectedList DEF ActionList
  <2>5. ToSet(MembersAt(actions, S)) = {actions[k] : k \in S}
      BY <2>3, MembersIs
  <2>6. In(MembersAt(actions, S), Phases[p])
      BY <2>1, <2>4, <2>5
  <2> QED BY <2>6 DEF S
<1>2. Ordered(actions) = (Of(1) \o Of(2) \o Of(3)) \o Of(4)
    BY DEF Ordered
<1> HIDE DEF Of
<1>3. /\ Phases[1] \cap QuantKinds = {} /\ Phases[2] \cap QuantKinds = {}
      /\ Phases[3] \cap QuantKinds = {} /\ Phases[4] \cap Rewrites = {}
    BY DEF Phases, QuantKinds, Rewrites
<1> DEFINE Early(s) == IsList(s) /\ \A a \in ToSet(s) : a.kind \notin QuantKinds
<1>4. Early(Of(1)) /\ Early(Of(2)) /\ Early(Of(3))
    BY <1>1, <1>3
<1>5. ASSUME NEW s, NEW t, Early(s), Early(t) PROVE Early(s \o t)
    BY <1>5, ConcatList
<1>6. IsList(Of(4)) /\ \A a \in ToSet(Of(4)) : a.kind \notin Rewrites
    BY <1>1, <1>3
<1> HIDE DEF Early
<1>7. Early(Of(1) \o Of(2))
    BY <1>4, <1>5
<1>8. Early(Of(1) \o Of(2) \o Of(3))
    BY <1>4, <1>5, <1>7
<1>9. Sorted((Of(1) \o Of(2) \o Of(3)) \o Of(4))
    BY <1>6, <1>8, SortedJoin DEF Early
<1> QED BY <1>2, <1>9

\* What the first of a sorted list says of the rest.
LEMMA SortedTail ==
    ASSUME NEW s, IsList(s), s # <<>>, Sorted(s)
    PROVE  /\ Sorted(Tail(s)) /\ (ToRewrite(Tail(s)) => ToRewrite(s))
           /\ Head(s) \in ToSet(s)
           /\ Head(s).kind \in Rewrites => ToRewrite(s)
           /\ Head(s).kind \in QuantKinds => ~ToRewrite(s)
<1> DEFINE T == ToSet(s)
           t == Tail(s)
<1>1. s \in Seq(T)
    BY DEF IsList
<1>2. /\ t \in Seq(T) /\ Len(s) \in Nat /\ Len(s) >= 1 /\ Len(t) = Len(s) - 1
      /\ Head(s) = s[1] /\ \A k \in 1 .. Len(t) : t[k] = s[k + 1]
  <2> HIDE DEF T
  <2> QED BY <1>1
<1>3. /\ IsList(t) /\ ToSet(t) \subseteq ToSet(s)
    BY <1>2, ListOf
<1> HIDE DEF t
<1>4. 1 \in 1 .. Len(s) /\ Head(s) \in ToSet(s)
    BY <1>2, ListFacts
<1>5. Sorted(t)
  <2> SUFFICES ASSUME NEW j \in 1 .. Len(t), NEW k \in 1 .. Len(t), j < k, t[j].kind \in QuantKinds
               PROVE  t[k].kind \notin Rewrites
      BY DEF Sorted
  <2>1. j + 1 \in 1 .. Len(s) /\ k + 1 \in 1 .. Len(s) /\ j + 1 < k + 1
      BY <1>2
  <2> QED BY <1>2, <2>1 DEF Sorted
<1>6. ASSUME Head(s).kind \in QuantKinds PROVE ~ToRewrite(s)
  <2> SUFFICES ASSUME NEW a \in ToSet(s), a.kind \in Rewrites PROVE FALSE
      BY DEF ToRewrite
  <2>1. DOMAIN s = 1 .. Len(s)
      BY ListFacts
  <2>2. PICK k \in 1 .. Len(s) : a = s[k]
      BY <2>1 DEF ToSet
  <2>3. CASE k = 1
    <3>1. QuantKinds \cap Rewrites = {}
        BY DEF QuantKinds, Rewrites
    <3> QED BY <1>2, <1>6, <2>2, <2>3, <3>1
  <2>4. CASE k # 1
    <3>1. 1 < k
        BY <2>4
    <3> QED BY <1>2, <1>4, <1>6, <2>2, <3>1 DEF Sorted
  <2> QED BY <2>3, <2>4
<1> QED BY <1>3, <1>4, <1>5, <1>6 DEF ToRewrite, t
-----------------------------------------------------------------------------
(* Tree ensembles stay in one piece.                                        *)

TreeIds(s) == {s[k].tree : k \in DOMAIN s}

\* An entry of a tree's arrays names its tree.
Treed(s) == \A k \in DOMAIN s : "tree" \in DOMAIN s[k] /\ s[k].tree \in Nat

WholeTrees(at) ==
    /\ HasLists(at) /\ Treed(at.nodes) /\ Treed(at.target) /\ Treed(at.cls)
    /\ TreeIds(at.nodes) = TreeIds(at.target) \cup TreeIds(at.cls)
    /\ at.coefs = <<>> => at.nodes # <<>>

\* Every tree ensemble names the same trees in its nodes and in its leaves.
TreesWhole(g) == \A n \in ToSet(g.nodes) : n.attr = <<>> \/ WholeTrees(n.attr)

\* The entries of some trees.
FilteredTo(s, kept, t) ==
    /\ IsList(t) /\ Treed(t) /\ TreeIds(t) = TreeIds(s) \cap kept
    /\ t = <<>> <=> TreeIds(s) \cap kept = {}

LEMMA FilteredIs ==
    ASSUME NEW s, IsList(s), Treed(s), NEW kept, NEW t,
           t = MembersAt(s, {k \in DOMAIN s : s[k].tree \in kept})
    PROVE  FilteredTo(s, kept, t)
<1> DEFINE S == {k \in DOMAIN s : s[k].tree \in kept}
<1>1. S \in SUBSET DOMAIN s /\ t = MembersAt(s, S) /\ \A k \in DOMAIN s : k \in S <=> s[k].tree \in kept
    OBVIOUS
<1>2. Len(s) \in Nat /\ DOMAIN s = 1 .. Len(s)
    BY ListFacts
<1> HIDE DEF S
<1>3. S \in SUBSET Int /\ IsFiniteSet(S)
    BY <1>1, <1>2, PlacesFinite
<1>4. IsList(t)
    BY <1>1, SelectedList
<1>5. ToSet(t) = {s[k] : k \in S} /\ (t = <<>> <=> S = {})
    BY <1>1, <1>3, MembersIs
<1>6. DOMAIN t = 1 .. Len(t) /\ \A k \in DOMAIN t : t[k] \in ToSet(t)
    BY <1>4, ListFacts
<1>7. \A k \in DOMAIN t : \E l \in S : t[k] = s[l]
    BY <1>5, <1>6
<1>8. \A l \in S : \E k \in DOMAIN t : t[k] = s[l]
    BY <1>5 DEF ToSet
<1>9. Treed(t)
    BY <1>1, <1>7 DEF Treed
<1>10. TreeIds(t) = TreeIds(s) \cap kept
  <2>1. \A x \in TreeIds(t) : x \in TreeIds(s) \cap kept
      BY <1>1, <1>7 DEF TreeIds
  <2>2. \A x \in TreeIds(s) \cap kept : x \in TreeIds(t)
    <3> SUFFICES ASSUME NEW l \in DOMAIN s, s[l].tree \in kept PROVE s[l].tree \in TreeIds(t)
        BY DEF TreeIds
    <3>1. PICK k \in DOMAIN t : t[k] = s[l]
        BY <1>1, <1>8
    <3>2. t[k].tree = s[l].tree
        BY <3>1
    <3> QED BY <3>2 DEF TreeIds
  <2> QED BY <2>1, <2>2
<1>11. S = {} <=> TreeIds(s) \cap kept = {}
    BY <1>1 DEF TreeIds
<1> QED BY <1>4, <1>5, <1>9, <1>10, <1>11 DEF FilteredTo

\* At least one is kept.
LEMMA KeptTrees ==
    ASSUME NEW ids \in SUBSET Nat, IsFiniteSet(ids), ids # {}, NEW ratio \in Nat
    PROVE  {t \in ids : Cardinality({u \in ids : u < t}) < Keep(Cardinality(ids), ratio)} # {}
<1> DEFINE n == Cardinality(ids)
           x == (n * (10 - ratio)) \div 10
<1>1. n \in Nat
    BY FS_CardinalityType
<1> HIDE DEF n
<1>2. x \in Int
    BY <1>1
<1> HIDE DEF x
<1>3. {1, x} \in SUBSET Int /\ IsFiniteSet({1, x}) /\ 1 \in {1, x}
  <2>1. {1, x} = {1} \cup {x}
      OBVIOUS
  <2>2. IsFiniteSet({1} \cup {x})
      BY FS_Singleton, FS_AddElement
  <2> QED BY <1>2, <2>1, <2>2
<1>4. Max({1, x}) \in Int /\ 1 <= Max({1, x})
    BY <1>2, <1>3, MaxIs
<1>5. Keep(n, ratio) \in Int /\ Keep(n, ratio) >= 1
    BY <1>4 DEF Keep, x
<1> DEFINE t == Min(ids)
<1>6. t \in ids /\ \A u \in ids : t <= u
    BY MinIs
<1> HIDE DEF t
<1>7. {u \in ids : u < t} = {}
  <2>1. t \in Nat /\ \A u \in ids : u \in Nat
      BY <1>6
  <2>2. \A u \in ids : ~(u < t)
      BY <1>6, <2>1
  <2> QED BY <2>2
<1>8. Cardinality({u \in ids : u < t}) = 0
    BY <1>7, FS_EmptySet
<1>9. Cardinality({u \in ids : u < t}) < Keep(n, ratio)
    BY <1>5, <1>8
<1> QED BY <1>6, <1>9 DEF n

LEMMA FilterWhole ==
    ASSUME NEW at, WholeTrees(at), NEW kept, kept \subseteq TreeIds(at.nodes),
           TreeIds(at.nodes) # {} => kept # {}
    PROVE  WholeTrees(FilterTrees(at, kept))
<1> DEFINE InKept(es) == MembersAt(es, {k \in DOMAIN es : es[k].tree \in kept})
           new == FilterTrees(at, kept)
<1>1. \A f \in {"nodes", "target", "cls", "coefs"} : f \in DOMAIN at /\ IsList(at[f])
    BY DEF WholeTrees, HasLists
<1>2. /\ DOMAIN new = DOMAIN at /\ new.coefs = at.coefs
      /\ new.nodes = InKept(at.nodes) /\ new.target = InKept(at.target) /\ new.cls = InKept(at.cls)
  <2>1. new = [at EXCEPT !.nodes = InKept(@), !.target = InKept(@), !.cls = InKept(@)]
      BY DEF FilterTrees
  <2>2. {"nodes", "target", "cls", "coefs"} \subseteq DOMAIN at
      BY <1>1
  <2> HIDE DEF InKept, new
  <2> QED BY <2>1, <2>2
<1> HIDE DEF new
<1>3. FilteredTo(at.nodes, kept, new.nodes)
    BY <1>1, <1>2, FilteredIs DEF WholeTrees
<1>4. FilteredTo(at.target, kept, new.target)
    BY <1>1, <1>2, FilteredIs DEF WholeTrees
<1>5. FilteredTo(at.cls, kept, new.cls)
    BY <1>1, <1>2, FilteredIs DEF WholeTrees
<1> HIDE DEF InKept
<1>6. HasLists(new)
    BY <1>1, <1>2, <1>3, <1>4, <1>5 DEF HasLists, FilteredTo
<1>7. TreeIds(new.nodes) = TreeIds(new.target) \cup TreeIds(new.cls)
    BY <1>3, <1>4, <1>5 DEF WholeTrees, FilteredTo
<1>8. ASSUME new.coefs = <<>> PROVE new.nodes # <<>>
  <2>1. at.nodes # <<>> /\ IsList(at.nodes)
      BY <1>1, <1>2, <1>8 DEF WholeTrees
  <2>2. TreeIds(at.nodes) # {}
    <3>1. DOMAIN at.nodes = 1 .. Len(at.nodes) /\ Len(at.nodes) \in Nat /\ Len(at.nodes) # 0
      <4> DEFINE s == at.nodes
      <4>1. s \in Seq(ToSet(s))
          BY <2>1 DEF IsList
      <4> HIDE DEF s
      <4>2. DOMAIN s = 1 .. Len(s) /\ Len(s) \in Nat /\ (Len(s) = 0 => s = <<>>)
          BY <4>1
      <4> QED BY <2>1, <4>2 DEF s
    <3>2. 1 \in DOMAIN at.nodes
        BY <3>1
    <3> QED BY <3>2 DEF TreeIds
  <2> QED BY <1>3, <2>2 DEF FilteredTo
<1> QED BY <1>3, <1>4, <1>5, <1>6, <1>7, <1>8 DEF WholeTrees, FilteredTo, new

LEMMA MlAttrWhole ==
    ASSUME NEW g, InPass(g), TreesWhole(g), NEW a, MlAttr(g, a) # <<>>
    PROVE  WholeTrees(MlAttr(g, a))
<1> DEFINE i == FindNodeByType(g, a)
<1>1. i # 0 /\ MlAttr(g, a) = g.nodes[i].attr
    BY DEF MlAttr
<1>2. g.nodes[i] \in ToSet(g.nodes)
    BY <1>1, FindsByType DEF InPass, ToSet
<1> QED BY <1>1, <1>2 DEF TreesWhole

LEMMA WithAttrWhole ==
    ASSUME NEW g, InPass(g), TreesWhole(g), NEW a, NEW at, MlAttr(g, a) # <<>> => WholeTrees(at)
    PROVE  TreesWhole(WithAttr(g, a, at))
<1> DEFINE i == FindNodeByType(g, a)
           h == WithAttr(g, a, at)
<1>1. CASE MlAttr(g, a) = <<>>
    BY <1>1 DEF WithAttr
<1>2. CASE MlAttr(g, a) # <<>> /\ h # g
  <2>1. Attributed(g, h, i, at)
      BY <1>2, WithAttrIs
  <2>2. ToSet(h.nodes) \subseteq ToSet(g.nodes) \cup {[g.nodes[i] EXCEPT !.attr = at]}
      BY <2>1, AttributedNodes
  <2>3. WellFormedNode(g.nodes[i])
      BY <2>1, NodeOf DEF Attributed, ToSet
  <2> HIDE DEF h, i
  <2>4. [g.nodes[i] EXCEPT !.attr = at].attr = at
      BY <2>3 DEF WellFormedNode
  <2>5. WholeTrees(at)
      BY <1>2
  <2> QED BY <2>2, <2>4, <2>5 DEF TreesWhole, h
<1> QED BY <1>1, <1>2

LEMMA PruneTreesWhole ==
    ASSUME NEW g, InPass(g), TreesWhole(g), NEW a, a.arg \in Nat
    PROVE  TreesWhole(PruneTrees(g, a))
<1> DEFINE at == MlAttr(g, a)
           ids == {at.nodes[k].tree : k \in DOMAIN at.nodes}
           kept == {t \in ids : Cardinality({u \in ids : u < t}) < Keep(Cardinality(ids), a.arg)}
<1>1. PruneTrees(g, a) = g \/ PruneTrees(g, a) = WithAttr(g, a, FilterTrees(at, kept))
    BY DEF PruneTrees
<1>2. ASSUME at # <<>> PROVE WholeTrees(FilterTrees(at, kept))
  <2>1. WholeTrees(at)
      BY <1>2, MlAttrWhole
  <2> HIDE DEF at
  <2>2. ids = TreeIds(at.nodes) /\ kept \subseteq ids
      BY DEF TreeIds
  <2>3. ids \in SUBSET Nat
      BY <2>1 DEF WholeTrees, Treed
  <2>4. IsFiniteSet(ids)
    <3>1. DOMAIN at.nodes = 1 .. Len(at.nodes) /\ Len(at.nodes) \in Nat
        BY <2>1, ListFacts DEF WholeTrees, HasLists
    <3>2. IsFiniteSet(1 .. Len(at.nodes))
        BY <3>1, FS_Interval
    <3>3. IsFiniteSet(DOMAIN at.nodes)
        BY <3>1, <3>2
    <3> DEFINE f == [k \in DOMAIN at.nodes |-> at.nodes[k].tree]
               T == {f[k] : k \in DOMAIN at.nodes}
    <3>4. IsFiniteSet(T)
      <4> HIDE DEF f
      <4> QED BY <3>3, FiniteImage
    <3>5. T = ids
        OBVIOUS
    <3> QED BY <3>4, <3>5
  <2> HIDE DEF ids
  <2>5. ids # {} => kept # {}
      BY <2>3, <2>4, KeptTrees
  <2> HIDE DEF kept
  <2> QED BY <2>1, <2>2, <2>5, FilterWhole
<1> HIDE DEF kept
<1> QED BY <1>1, <1>2, WithAttrWhole

\* The values of a tree's entries may change, not the trees they are of.
LEMMA SameTrees ==
    ASSUME NEW s, IsList(s), Treed(s), NEW t, t = [k \in DOMAIN s |-> t[k]],
           \A k \in DOMAIN s : DOMAIN t[k] = DOMAIN s[k] /\ t[k].tree = s[k].tree
    PROVE  IsList(t) /\ Treed(t) /\ TreeIds(t) = TreeIds(s) /\ (t = <<>> <=> s = <<>>)
<1>1. IsList(t) /\ DOMAIN t = DOMAIN s
  <2>1. DOMAIN t = DOMAIN s
      OBVIOUS
  <2> QED BY <2>1, MappedList
<1>2. Treed(t)
    BY <1>1 DEF Treed
<1>3. TreeIds(t) = TreeIds(s)
    BY <1>1 DEF TreeIds
<1>4. \A r : IsList(r) => (r = <<>> <=> DOMAIN r = {})
  <2> SUFFICES ASSUME NEW r, IsList(r) PROVE r = <<>> <=> DOMAIN r = {}
      OBVIOUS
  <2> DEFINE T == ToSet(r)
  <2>1. r \in Seq(T)
      BY DEF IsList
  <2> HIDE DEF T
  <2>2. DOMAIN r = 1 .. Len(r) /\ Len(r) \in Nat /\ (Len(r) = 0 <=> r = <<>>)
      BY <2>1
  <2>3. Len(r) # 0 => 1 \in DOMAIN r
      BY <2>2
  <2>4. Len(r) = 0 => DOMAIN r = {}
      BY <2>2
  <2> QED BY <2>2, <2>3, <2>4
<1> QED BY <1>1, <1>2, <1>3, <1>4

LEMMA LimitWhole ==
    ASSUME NEW g, InPass(g), TreesWhole(g), NEW a
    PROVE  TreesWhole(LimitDepth(g, a))
<1> DEFINE at == MlAttr(g, a)
           cut == [k \in DOMAIN at.nodes |->
                    IF Depth(at, k) >= a.arg THEN [at.nodes[k] EXCEPT !.mode = "LEAF"]
                    ELSE at.nodes[k]]
<1>1. \/ LimitDepth(g, a) = [g EXCEPT !.hung = TRUE]
      \/ LimitDepth(g, a) = WithAttr(g, a, [at EXCEPT !.nodes = cut])
    BY DEF LimitDepth
<1>2. ASSUME at # <<>> PROVE WholeTrees([at EXCEPT !.nodes = cut])
  <2>1. WholeTrees(at)
      BY <1>2, MlAttrWhole
  <2> HIDE DEF at
  <2>2. \A k \in DOMAIN at.nodes : DOMAIN cut[k] = DOMAIN at.nodes[k] /\ cut[k].tree = at.nodes[k].tree
      BY <2>1 DEF WholeTrees, Treed
  <2>3. cut = [k \in DOMAIN at.nodes |-> cut[k]]
      OBVIOUS
  <2>4. IsList(at.nodes) /\ Treed(at.nodes)
      BY <2>1 DEF WholeTrees, HasLists
  <2> HIDE DEF cut
  <2> DEFINE s == at.nodes
  <2>5. IsList(cut) /\ Treed(cut) /\ TreeIds(cut) = TreeIds(s) /\ (cut = <<>> <=> s = <<>>)
    <3>1. /\ IsList(s) /\ Treed(s) /\ cut = [k \in DOMAIN s |-> cut[k]]
          /\ \A k \in DOMAIN s : DOMAIN cut[k] = DOMAIN s[k] /\ cut[k].tree = s[k].tree
        BY <2>2, <2>3, <2>4
    <3> HIDE DEF s
    <3> QED BY <3>1, SameTrees
  <2> QED BY <2>1, <2>5 DEF WholeTrees, HasLists
<1> HIDE DEF cut
<1>3. TreesWhole(WithAttr(g, a, [at EXCEPT !.nodes = cut]))
    BY <1>2, WithAttrWhole
<1>4. TreesWhole([g EXCEPT !.hung = TRUE])
  <2>1. Stopped(g, [g EXCEPT !.hung = TRUE])
      BY DEF Stopped
  <2> QED BY <2>1, StoppedFields DEF TreesWhole
<1> QED BY <1>1, <1>3, <1>4

LEMMA MergeWhole ==
    ASSUME NEW g, InPass(g), TreesWhole(g), NEW a
    PROVE  TreesWhole(MergeLeaves(g, a))
<1> DEFINE at == MlAttr(g, a)
<1>1. PICK u : /\ u = [k \in DOMAIN at.target |-> u[k]]
               /\ \A k \in DOMAIN at.target :
                     /\ DOMAIN u[k] = DOMAIN at.target[k]
                     /\ "tree" \in DOMAIN at.target[k] => u[k].tree = at.target[k].tree
               /\ MergeLeaves(g, a) = WithAttr(g, a, [at EXCEPT !.target = u])
    BY DEF MergeLeaves
<1>2. ASSUME at # <<>> PROVE WholeTrees([at EXCEPT !.target = u])
  <2>1. WholeTrees(at)
      BY <1>2, MlAttrWhole
  <2> DEFINE s == at.target
  <2>2. IsList(s) /\ Treed(s) /\ u = [k \in DOMAIN s |-> u[k]]
      BY <1>1, <2>1 DEF WholeTrees, HasLists
  <2>3. \A k \in DOMAIN s : DOMAIN u[k] = DOMAIN s[k] /\ u[k].tree = s[k].tree
      BY <1>1, <2>2 DEF Treed
  <2> HIDE DEF at
  <2>4. IsList(u) /\ Treed(u) /\ TreeIds(u) = TreeIds(s)
    <3> HIDE DEF s
    <3> QED BY <2>2, <2>3, SameTrees
  <2> QED BY <2>1, <2>4 DEF WholeTrees, HasLists
<1> QED BY <1>1, <1>2, WithAttrWhole

LEMMA RoundWhole ==
    ASSUME NEW g, InPass(g), TreesWhole(g), NEW a
    PROVE  TreesWhole(RoundLeaves(g, a)) /\ TreesWhole(RoundCoefficients(g, a))
<1> DEFINE at == MlAttr(g, a)
           Rounded(v) == [at EXCEPT !.rounded = @ \cup {v}]
<1>1. \A v : at # <<>> => WholeTrees(Rounded(v))
  <2> SUFFICES ASSUME NEW v, at # <<>> PROVE WholeTrees(Rounded(v))
      OBVIOUS
  <2>1. WholeTrees(at)
      BY MlAttrWhole
  <2> HIDE DEF at
  <2> DEFINE new == Rounded(v)
  <2>2. /\ DOMAIN new = DOMAIN at /\ new.nodes = at.nodes /\ new.target = at.target
        /\ new.cls = at.cls /\ new.coefs = at.coefs
      BY <2>1 DEF WholeTrees, HasLists
  <2> HIDE DEF new
  <2>3. WholeTrees(new)
      BY <2>1, <2>2 DEF WholeTrees, HasLists
  <2> QED BY <2>3 DEF new
<1>2. /\ RoundLeaves(g, a) = WithAttr(g, a, Rounded("leaves"))
      /\ RoundCoefficients(g, a) \in {g, WithAttr(g, a, Rounded("coefs"))}
    BY DEF RoundLeaves, RoundCoefficients
<1> HIDE DEF Rounded
<1>3. \A v : TreesWhole(WithAttr(g, a, Rounded(v)))
    BY <1>1, WithAttrWhole
<1> QED BY <1>2, <1>3

LEMMA ZeroWhole ==
    ASSUME NEW g, InPass(g), TreesWhole(g), NEW a
    PROVE  TreesWhole(ZeroSmall(g, a))
<1> DEFINE at == MlAttr(g, a)
<1>1. CASE a.arg <= 0
    BY <1>1 DEF ZeroSmall
<1>2. CASE ~(a.arg <= 0)
  <2>1. PICK u : /\ u = [k \in DOMAIN at.coefs |-> u[k]]
                 /\ ZeroSmall(g, a) = WithAttr(g, a, [at EXCEPT !.coefs = u])
      BY <1>2 DEF ZeroSmall
  <2>2. ASSUME at # <<>> PROVE WholeTrees([at EXCEPT !.coefs = u])
    <3>1. WholeTrees(at)
        BY <2>2, MlAttrWhole
    <3>2. IsList(u)
        BY <2>1, <3>1, MappedList DEF WholeTrees, HasLists
    <3>3. u = <<>> => at.coefs = <<>>
      <4>1. DOMAIN u = DOMAIN at.coefs
          BY <2>1
      <4> DEFINE s == at.coefs
                 T == ToSet(s)
      <4>2. s \in Seq(T)
          BY <3>1 DEF WholeTrees, HasLists, IsList
      <4> HIDE DEF T
      <4>3. s # <<>> => 1 \in DOMAIN s
        <5> HIDE DEF s
        <5>1. DOMAIN s = 1 .. Len(s) /\ Len(s) \in Nat /\ (Len(s) = 0 => s = <<>>)
            BY <4>2
        <5> QED BY <5>1
      <4>4. DOMAIN <<>> = {}
          OBVIOUS
      <4> QED BY <4>1, <4>3, <4>4
    <3> HIDE DEF at
    <3> DEFINE new == [at EXCEPT !.coefs = u]
    <3>4. /\ DOMAIN new = DOMAIN at /\ new.nodes = at.nodes /\ new.target = at.target
          /\ new.cls = at.cls /\ new.coefs = u
        BY <3>1 DEF WholeTrees, HasLists
    <3> HIDE DEF new
    <3>5. WholeTrees(new)
        BY <3>1, <3>2, <3>3, <3>4 DEF WholeTrees, HasLists
    <3> QED BY <3>5 DEF new
  <2> QED BY <2>1, <2>2, WithAttrWhole
<1> QED BY <1>1, <1>2

\* Nodes that are not changed, or have no trees, or those of another node.
LEMMA NodesWhole ==
    ASSUME NEW g, TreesWhole(g), NEW h,
           \A m \in ToSet(h.nodes) :
              m.attr = <<>> \/ \E n \in ToSet(g.nodes) : m.attr = n.attr
    PROVE  TreesWhole(h)
BY DEF TreesWhole

LEMMA QuantizeWhole ==
    ASSUME NEW g, InPass(g), TreesWhole(g), NEW a
    PROVE  TreesWhole(QuantizeWeights(g, a))
<1> DEFINE h == QuantizeWeights(g, a)
           Ok(k) == InPass(k) /\ TreesWhole(k)
<1>0. Ok(g) /\ \A k : Ok(k) <=> InPass(k) /\ TreesWhole(k)
    OBVIOUS
<1> HIDE DEF Ok
<1>1. CASE h = g
    BY <1>1
<1>2. ASSUME NEW n \in ToSet(g.nodes), NEW f, Conversions(f, g, h, n, a.arg) PROVE TreesWhole(h)
  <2>1. IsList(n.in) /\ NamedNode(n)
      BY NodeOf
  <2> DEFINE Fine == {f[k] : k \in {k \in 0 .. Len(n.in) : Ok(f[k])}}
  <2>2. Len(n.in) \in Nat /\ f[0] = g
      BY <1>2, <2>1, ListFacts DEF Conversions
  <2> HIDE DEF h
  <2>3. g \in Fine
      BY <1>0, <2>2
  <2>4. ASSUME NEW k \in 1 .. Len(n.in), f[k - 1] \in Fine PROVE f[k] \in Fine
    <3> DEFINE b == f[k - 1]
               c == f[k]
               x == n.in[k]
    <3>1. Ok(b)
        BY <2>4
    <3>2. IsList(x)
        BY <2>1, ListFacts DEF NamedNode
    <3>3. c = Convert(b, x, a.arg, n)
        BY <1>2 DEF Conversions
    <3> HIDE DEF b, c, x
    <3>4. InPass(c)
        BY <1>0, <3>1, <3>2, <3>3, ConvertInPass
    <3>5. ASSUME c = b PROVE TreesWhole(c)
        BY <1>0, <3>1, <3>5
    <3>6. ASSUME NEW new, NEW m, Moved(b, c, x, new, m) PROVE TreesWhole(c)
      <4>1. InPass(b) /\ TreesWhole(b)
          BY <1>0, <3>1
      <4>2. m.attr = <<>>
          BY <3>6 DEF Moved
      <4>3. ToSet(c.nodes) = {m} \cup ToSet(b.nodes)
          BY <3>6, <4>1, MovedTo
      <4> QED BY <4>1, <4>2, <4>3, NodesWhole
    <3>7. c = b \/ \E new, m : ConvertedTo(b, c, x, a.arg, new, m)
        BY <1>0, <3>1, <3>3, ConvertIs
    <3>8. TreesWhole(c)
        BY <3>5, <3>6, <3>7 DEF ConvertedTo
    <3>9. Ok(c)
        BY <1>0, <3>4, <3>8
    <3> QED BY <2>2, <3>9 DEF c
  <2>5. h \in Fine
    <3> HIDE DEF Fine
    <3> QED BY <1>2, <2>1, <2>3, <2>4, ChainKeeps
  <2>6. Ok(h)
      BY <2>5
  <2> QED BY <1>0, <2>6
<1>3. h = g \/ \E n \in ToSet(g.nodes) : \E f : Conversions(f, g, h, n, a.arg)
    BY QuantizeIs
<1> QED BY <1>1, <1>2, <1>3

LEMMA HandleWhole ==
    ASSUME NEW g, InPass(g), TreesWhole(g), NEW a, WellFormedAction(a)
    PROVE  TreesWhole(Handle(g, a))
<1> DEFINE h == Handle(g, a)
<1>1. \/ h = g \/ h = QuantizeWeights(g, a) \/ h = PruneChannels(g, a) \/ h = LowRank(g, a)
      \/ h = FuseBatchNorm(g, a) \/ (a.kind = "tree_pruning" /\ h = PruneTrees(g, a))
      \/ h \in {RoundCoefficients(g, a), RoundLeaves(g, a), MergeLeaves(g, a), LimitDepth(g, a),
                ZeroSmall(g, a)}
    BY DEF Handle
<1> SUFFICES TreesWhole(h)
    OBVIOUS
<1> HIDE DEF h
<1>2. CASE h = PruneChannels(g, a)
  <2>1. h.nodes = g.nodes
      BY <1>2, PruneIs
  <2> QED BY <2>1 DEF TreesWhole
<1>3. CASE h = LowRank(g, a)
  <2>1. ASSUME NEW i, NEW w, NEW new, SplitAt(g, h, a.name, i, w, new) PROVE TreesWhole(h)
    <3> DEFINE n == g.nodes[i]
               m == Half(n)
               e == SecondNode(a.name, n, w)
    <3>1. n \in ToSet(g.nodes)
        BY <2>1 DEF SplitAt, ToSet
    <3>2. ToSet(h.nodes) \subseteq ToSet(g.nodes) \cup {m, e}
        BY <2>1, SplitNodes
    <3>3. NamedNode(n) /\ WellFormedNode(n)
        BY <3>1, NodeOf
    <3>4. m.attr = n.attr
        BY <3>3 DEF Half, WellFormedNode
    <3>5. e.attr = <<>>
        BY DEF SecondNode, NewNode
    <3> HIDE DEF m, e
    <3> QED BY <3>1, <3>2, <3>4, <3>5, NodesWhole
  <2> QED BY <1>3, <2>1, LowRankIs
<1>4. CASE h = FuseBatchNorm(g, a)
  <2>1. ASSUME NEW b, NEW p, NEW new, FoldedAt(g, h, a.name, b, p, new) PROVE TreesWhole(h)
    <3> DEFINE n == g.nodes[p]
               m == Heir(g.nodes[b], n)
    <3>1. n \in ToSet(g.nodes)
        BY <2>1 DEF FoldedAt, ToSet
    <3>2. ToSet(h.nodes) \subseteq ToSet(g.nodes) \cup {m}
        BY <2>1, FoldedNodes
    <3>3. WellFormedNode(n)
        BY <3>1, NodeOf
    <3>4. m.attr = n.attr
        BY <3>3 DEF Heir, WellFormedNode
    <3> HIDE DEF m
    <3> QED BY <3>1, <3>2, <3>4, NodesWhole
  <2>2. CASE h = [g EXCEPT !.err = TRUE]
    <3>1. Stopped(g, h)
        BY <2>2 DEF Stopped
    <3> QED BY <3>1, StoppedFields DEF TreesWhole
  <2> QED BY <1>4, <2>1, <2>2, FuseIs
<1>5. CASE a.kind = "tree_pruning" /\ h = PruneTrees(g, a)
  <2>1. a.arg \in Nat
      BY <1>5 DEF WellFormedAction
  <2> QED BY <1>5, <2>1, PruneTreesWhole
<1>6. CASE h = QuantizeWeights(g, a)
    BY <1>6, QuantizeWhole
<1>7. CASE h \in {RoundCoefficients(g, a), RoundLeaves(g, a), MergeLeaves(g, a), LimitDepth(g, a),
                  ZeroSmall(g, a)}
    BY <1>7, RoundWhole, MergeWhole, LimitWhole, ZeroWhole
<1> QED BY <1>1, <1>2, <1>3, <1>4, <1>5, <1>6, <1>7
-----------------------------------------------------------------------------
(* A pass that keeps its graph wired.                                       *)

\* A file as exporters write it: names are lists and tell the nodes apart, none of them is made
\* of a part the transformer calls its own, a layer with weights has one output, a node writes
\* no tensor twice, and a tree ensemble is whole.
Conventional(g) ==
    /\ ListNamed(g) /\ TreesWhole(g)
    /\ \A i, j \in Nodes(g) : g.nodes[i].name = g.nodes[j].name /\ i # j => g.nodes[i].name = NoName
    /\ \A y \in Given(g) : IsList(y) /\ Plain(y)
    /\ \A i \in Nodes(g) : Plain(OpName(g, i))
    /\ \A n \in ToSet(g.nodes) :
          /\ \A y \in ToSet(n.out) : Plain(y)
          /\ Folds(n) => Len(n.out) = 1
          /\ Unrepeated(n.out)

\* The normalizations to be fused, and their inputs.
Alone ==
    LET fused == {asked[k].name : k \in {k \in DOMAIN asked : asked[k].kind = "bn_fusion"}}
    IN  [fused |-> fused,
         lone |-> {input.nodes[i].in[1] : i \in
                     {i \in Nodes(input) : /\ input.nodes[i].op = "BatchNormalization"
                                           /\ input.nodes[i].name \in fused}}]

LEMMA AloneIs ==
    /\ \A y : y \in Alone.fused <=> \E k \in DOMAIN asked : asked[k].name = y /\ asked[k].kind = "bn_fusion"
    /\ \A x : x \in Alone.lone <=>
          \E i \in Nodes(input) : /\ x = input.nodes[i].in[1]
                                  /\ input.nodes[i].op = "BatchNormalization"
                                  /\ input.nodes[i].name \in Alone.fused
BY DEF Alone

LEMMA AtMostOne ==
    ASSUME NEW S, IsFiniteSet(S), ~(Cardinality(S) > 1), NEW x \in S, NEW y \in S
    PROVE  x = y
<1> SUFFICES ASSUME x # y PROVE FALSE
    OBVIOUS
<1>1. IsFiniteSet({x}) /\ Cardinality({x}) = 1
    BY FS_Singleton
<1>2. IsFiniteSet({x} \cup {y}) /\ Cardinality({x} \cup {y}) = 2
  <2> DEFINE one == {x}
  <2>1. y \notin one
      OBVIOUS
  <2> HIDE DEF one
  <2>2. IsFiniteSet(one \cup {y}) /\ Cardinality(one \cup {y}) = Cardinality(one) + 1
      BY <1>1, <2>1, FS_AddElement DEF one
  <2>3. Cardinality(one) = 1
      BY <1>1 DEF one
  <2> QED BY <2>2, <2>3 DEF one
<1>3. {x} \cup {y} \subseteq S
    OBVIOUS
<1>4. Cardinality({x} \cup {y}) <= Cardinality(S) /\ Cardinality(S) \in Nat
    BY <1>3, FS_Subset, FS_CardinalityType
<1> QED BY <1>2, <1>4

LEMMA LoneReads ==
    ASSUME NEW g, InPass(g), NEW x, ~(Cardinality(Readers(g, x)) > 1)
    PROVE  ReadOnce(g.nodes, x)
<1> SUFFICES ASSUME NEW i \in 1 .. Len(g.nodes), NEW j \in 1 .. Len(g.nodes),
                    x \in ToSet(g.nodes[i].in), x \in ToSet(g.nodes[j].in)
             PROVE  i = j
    BY DEF ReadOnce
<1>1. IsList(g.nodes)
    BY DEF InPass, WellFormed
<1>2. Nodes(g) = 1 .. Len(g.nodes) /\ Len(g.nodes) \in Nat
    BY <1>1, ListFacts DEF Nodes
<1>3. \A k \in 1 .. Len(g.nodes) : x \in ToSet(g.nodes[k].in) => k \in Readers(g, x)
  <2> SUFFICES ASSUME NEW k \in 1 .. Len(g.nodes), x \in ToSet(g.nodes[k].in)
               PROVE  Contains(g.nodes[k].in, x)
      BY <1>2 DEF Readers
  <2>1. IsList(g.nodes[k].in)
      BY <1>1, ListFacts, NodeOf
  <2>2. PICK l \in DOMAIN g.nodes[k].in : g.nodes[k].in[l] = x
      BY DEF ToSet
  <2> QED BY <2>1, <2>2, ListFacts DEF Contains
<1>4. IsFiniteSet(Readers(g, x))
  <2>1. IsFiniteSet(Nodes(g)) /\ Readers(g, x) \subseteq Nodes(g)
      BY <1>2, FS_Interval DEF Readers
  <2> QED BY <2>1, FS_Subset
<1> QED BY <1>3, <1>4, AtMostOne

LEMMA PlainParts ==
    ASSUME NEW y, Plain(y)
    PROVE  FreeOf(y, Converting) /\ FreeOf(y, Rewriting) /\ FreeOf(y, {"svd_mid"})
<1>1. /\ Converting \subseteq OwnParts /\ Rewriting \subseteq OwnParts
      /\ {"svd_mid"} \subseteq OwnParts
    BY DEF OwnParts
<1> QED BY <1>1, FewerParts DEF Plain

LEMMA PlainNames ==
    ASSUME NEW g, WellFormed(g), Conventional(g), NEW n \in ToSet(g.nodes)
    PROVE  Plain(n.name)
<1>1. PICK i \in Nodes(g) : n = g.nodes[i]
    BY DEF ToSet, Nodes
<1>2. CASE n.name = NoName
  <2>1. Len(NoName) = 0
      BY DEF NoName
  <2>2. 1 .. Len(n.name) = {}
      BY <1>2, <2>1
  <2> QED BY <2>2 DEF Plain, FreeOf
<1>3. CASE n.name # NoName
    BY <1>1, <1>3 DEF Conventional, OpName
<1> QED BY <1>2, <1>3

\* What a node of a file that runs reads is plain.
LEMMA PlainReads ==
    ASSUME NEW g, WellFormed(g), Conventional(g), WiredList(g.nodes, Given(g), g.outs)
    PROVE  /\ \A n \in ToSet(g.nodes) : \A y \in ToSet(n.in) : Plain(y)
           /\ \A y : TensorOf(g, y) => IsList(y) /\ Plain(y)
<1>1. IsList(g.nodes) /\ Len(g.nodes) \in Nat /\ DOMAIN g.nodes = 1 .. Len(g.nodes)
    BY ListFacts DEF WellFormed
<1>2. \A y : TensorOf(g, y) => IsList(y) /\ Plain(y)
    BY DEF TensorOf, Conventional, ListNamed, NamedNode
<1>3. ASSUME NEW i \in 1 .. Len(g.nodes), NEW y \in ToSet(g.nodes[i].in) PROVE TensorOf(g, y)
  <2>1. y \in Given(g) \/ \E j \in 1 .. i - 1 : y \in ToSet(g.nodes[j].out)
      BY DEF WiredList
  <2>2. CASE \E j \in 1 .. i - 1 : y \in ToSet(g.nodes[j].out)
    <3>1. PICK j \in 1 .. i - 1 : y \in ToSet(g.nodes[j].out)
        BY <2>2
    <3>2. j \in 1 .. Len(g.nodes)
        BY <1>1
    <3>3. g.nodes[j] \in ToSet(g.nodes)
        BY <1>1, <3>2, ListFacts
    <3> QED BY <3>1, <3>3 DEF TensorOf
  <2> QED BY <2>1, <2>2 DEF TensorOf
<1> QED BY <1>1, <1>2, <1>3 DEF ToSet

LEMMA StartApart ==
    ASSUME NEW g, WellFormed(g), ListNamed(g), \A y : TensorOf(g, y) => IsList(y) /\ Plain(y)
    PROVE  Apart(g)
<1> SUFFICES ASSUME NEW n \in ToSet(g.nodes), NEW y, TensorOf(g, y), Begins(y, Middle(n))
             PROVE  FALSE
    BY DEF Apart
<1>1. IsList(n.out[1])
  <2>1. NamedNode(n)
      BY DEF ListNamed
  <2>2. 1 \in 1 .. Len(n.out) /\ IsList(n.out)
      BY <2>1, ListFacts DEF NamedNode
  <2>3. n.out[1] \in ToSet(n.out)
      BY <2>2, ListFacts
  <2> QED BY <2>1, <2>3 DEF NamedNode
<1>2. IsList(y) /\ Plain(y)
    OBVIOUS
<1>3. Begins(y, Append(n.out[1], "svd_mid"))
    BY DEF Middle
<1>4. ~FreeOf(y, {"svd_mid"})
    BY <1>1, <1>2, <1>3, BeginsShort
<1> QED BY <1>2, <1>4, PlainParts

LEMMA StartWired ==
    /\ WellFormed(input) /\ Conventional(input) /\ Runnable(input) /\ ~SharedBatchNorm
    /\ \A k \in DOMAIN asked : asked[k].name # NoName
    => WiredInv(Alone, Start(input, asked), TRUE)
<1> SUFFICES ASSUME WellFormed(input), Conventional(input), Runnable(input), ~SharedBatchNorm,
                    \A k \in DOMAIN asked : asked[k].name # NoName
             PROVE  WiredInv(Alone, Start(input, asked), TRUE)
    OBVIOUS
<1> DEFINE h == Start(input, asked)
           u == Alone
<1>1. /\ InPass(h) /\ h.nodes = input.nodes /\ h.inits = input.inits /\ h.ins = input.ins
      /\ h.outs = input.outs
  <2>1. ListNamed(input)
      BY DEF Conventional
  <2>2. /\ InPass(h) /\ h.nodes = input.nodes /\ h.inits = input.inits /\ h.ins = input.ins
        /\ h.outs = input.outs /\ h.conv = {} /\ h.err = FALSE /\ h.hung = FALSE
      BY <2>1, StartIs, ZenonT(40)
  <2> QED BY <2>2
<1> HIDE DEF u, h
<1>2. Given(h) = Given(input) /\ \A y : TensorOf(h, y) <=> TensorOf(input, y)
    BY <1>1 DEF Given, TensorOf
<1>3. WiredList(input.nodes, Given(input), input.outs)
    BY RunnableIs
<1>4. /\ \A n \in ToSet(input.nodes) : \A y \in ToSet(n.in) : Plain(y)
      /\ \A y : TensorOf(input, y) => IsList(y) /\ Plain(y)
    BY <1>3, PlainReads
<1>5. Apart(h)
    BY <1>1, <1>2, <1>4, StartApart DEF InPass
<1>6. ASSUME NEW n \in ToSet(h.nodes) PROVE NodeFine(n, TRUE)
  <2>1. n \in ToSet(input.nodes)
      BY <1>1
  <2>2. Plain(n.name)
      BY <2>1, PlainNames
  <2>3. \A y \in ToSet(n.out) : FreeOf(y, Converting) /\ FreeOf(y, Rewriting)
      BY <2>1, PlainParts DEF Conventional
  <2>4. \A y \in ToSet(n.in) : FreeOf(y, Converting)
      BY <1>4, <2>1, PlainParts
  <2> QED BY <2>1, <2>2, <2>3, <2>4 DEF NodeFine, Conventional
<1>7. LoneFine(u, h)
  <2>1. /\ \A y : y \in u.fused <=> \E k \in DOMAIN asked : asked[k].name = y /\ asked[k].kind = "bn_fusion"
        /\ \A x : x \in u.lone <=>
              \E i \in Nodes(input) : /\ x = input.nodes[i].in[1]
                                      /\ input.nodes[i].op = "BatchNormalization"
                                      /\ input.nodes[i].name \in u.fused
      BY AloneIs DEF u
  <2>2. \A n \in ToSet(h.nodes) :
            n.op = "BatchNormalization" /\ n.name \in u.fused => n.in[1] \in u.lone
      BY <1>1, <2>1 DEF ToSet, Nodes
  <2>3. ASSUME NEW x \in u.lone PROVE Plain(x) /\ x \notin h.outs /\ ReadOnce(h.nodes, x)
    <3>1. PICK i \in Nodes(input) : /\ x = input.nodes[i].in[1]
                                    /\ input.nodes[i].op = "BatchNormalization"
                                    /\ input.nodes[i].name \in u.fused
        BY <2>1, <2>3
    <3>2. PICK k \in DOMAIN asked : asked[k].name = input.nodes[i].name /\ asked[k].kind = "bn_fusion"
        BY <2>1, <3>1
    <3>3. FindNode(input, asked[k].name) = i
        BY <3>2, FindsIt DEF Conventional
    <3>4. i \in 1 .. Len(h.nodes) /\ Len(h.nodes) \in Nat /\ input.nodes[i] \in ToSet(h.nodes)
        BY <1>1, <3>1, ListFacts DEF Nodes, InPass, WellFormed
    <3>5. ~(Cardinality(Readers(input, x)) > 1) /\ x \notin input.outs
      <4>1. i # 0
          BY <3>4
      <4> QED BY <3>1, <3>2, <3>3, <4>1 DEF SharedBatchNorm
    <3>6. ReadOnce(h.nodes, x)
      <4>1. Readers(h, x) = Readers(input, x)
          BY <1>1 DEF Readers, Nodes
      <4> QED BY <1>1, <3>5, <4>1, LoneReads
    <3>7. Plain(x)
      <4>1. WellFormedNode(input.nodes[i]) /\ IsList(input.nodes[i].in) /\ Len(input.nodes[i].in) >= 2
          BY <1>1, <3>1, <3>4, NodeOf DEF WellFormedNode
      <4>2. x \in ToSet(input.nodes[i].in)
        <5>1. Len(input.nodes[i].in) \in Nat
            BY <4>1, ListFacts
        <5>2. 1 \in 1 .. Len(input.nodes[i].in)
            BY <4>1, <5>1
        <5> QED BY <3>1, <4>1, <5>2, ListFacts
      <4> QED BY <1>1, <1>4, <3>4, <4>2
    <3> QED BY <1>1, <3>5, <3>6, <3>7
  <2> QED BY <2>2, <2>3 DEF LoneFine
<1>8. WiredInv(u, h, TRUE)
    BY <1>1, <1>2, <1>3, <1>5, <1>6, <1>7 DEF WiredInv, Conventional
<1> QED BY <1>8 DEF u, h

LEMMA StartWiredNext ==
    (/\ WellFormed(input) /\ Conventional(input) /\ Runnable(input) /\ ~SharedBatchNorm
     /\ \A k \in DOMAIN asked : asked[k].name # NoName
     => WiredInv(Alone, Start(input, asked), TRUE))'
BY StartWired, PTL

\* A run of the pass over a conventional file.
WholePass ==
    /\ Sorted(todo)
    /\ Conventional(input) =>
          /\ \A a \in ToSet(asked) : Plain(a.name)
          /\ InPass(made) /\ TreesWhole(made)
          /\ Runnable(input) /\ ~SharedBatchNorm => WiredInv(Alone, made, ToRewrite(todo))

\* The inductive invariant of the wiring.
WiredPass == PassInv /\ (TransformInit \/ WholePass)

LEMMA WiredBegins == ASSUME TransformBegin PROVE WholePass'
<1>1. /\ InRun' /\ made' = Start(input', asked') /\ todo' = Ordered(asked')
      /\ \A a \in ToSet(asked') : \E i \in Nodes(input') : a.name = OpName(input', i)
    BY BeginIs
<1>2. /\ WellFormed(input') /\ ActionList(asked')
      /\ \A k \in DOMAIN asked' : asked'[k].name # NoName
    BY <1>1 DEF InRun, ToSet
<1>3. Sorted(todo')
    BY <1>1, <1>2, OrderedSorted
<1>4. ASSUME Conventional(input')
      PROVE  /\ \A a \in ToSet(asked') : Plain(a.name)
             /\ InPass(made') /\ TreesWhole(made')
  <2>1. \A a \in ToSet(asked') : Plain(a.name)
      BY <1>1, <1>4 DEF Conventional
  <2> DEFINE g == input'
             h == made'
             s == asked'
  <2>2. WellFormed(g) /\ ListNamed(g) /\ h = Start(g, s) /\ TreesWhole(g)
      BY <1>1, <1>2, <1>4 DEF Conventional
  <2> HIDE DEF g, h, s
  <2>3. InPass(h) /\ h.nodes = g.nodes
      BY <2>2, StartIs
  <2>4. TreesWhole(h)
      BY <2>2, <2>3 DEF TreesWhole
  <2> QED BY <2>1, <2>3, <2>4 DEF h
<1>5. ASSUME Conventional(input'), Runnable(input'), ~SharedBatchNorm'
      PROVE  WiredInv(Alone', made', ToRewrite(todo'))
  <2>1. WiredInv(Alone', made', TRUE)
      BY <1>1, <1>2, <1>5, StartWiredNext
  <2> DEFINE u == Alone'
             h == made'
             r == ToRewrite(todo')
  <2>2. r \in BOOLEAN
      BY DEF ToRewrite
  <2>3. WiredInv(u, h, TRUE)
      BY <2>1
  <2> HIDE DEF u, h, r
  <2>4. WiredInv(u, h, FALSE)
      BY <2>3, WiredWeakens
  <2>5. CASE r = TRUE
      BY <2>3, <2>5 DEF u, h, r
  <2>6. CASE r = FALSE
      BY <2>4, <2>6 DEF u, h, r
  <2> QED BY <2>2, <2>5, <2>6
<1> QED BY <1>3, <1>4, <1>5 DEF WholePass

LEMMA WiredSteps ==
    ASSUME InRun, WholePass, TransformStep
    PROVE  WholePass'
<1> DEFINE a == Head(todo)
           s == todo
<1>1. /\ made' = Handle(made, a) /\ todo' = Tail(s) /\ s # <<>>
      /\ input' = input /\ asked' = asked
    BY DEF TransformStep
<1>2. /\ Sorted(Tail(s)) /\ (ToRewrite(Tail(s)) => ToRewrite(s))
      /\ a \in ToSet(s)
      /\ a.kind \in Rewrites => ToRewrite(s)
      /\ a.kind \in QuantKinds => ~ToRewrite(s)
    BY <1>1, SortedTail DEF InRun, ActionList, WholePass
<1>3. a \in ToSet(asked) /\ WellFormedAction(a)
    BY <1>2 DEF InRun, ActionList
<1>4. Alone' = Alone /\ (SharedBatchNorm' <=> SharedBatchNorm)
  <2>1. Alone' = Alone
      BY <1>1 DEF Alone
  <2>2. SharedBatchNorm' <=> SharedBatchNorm
      BY <1>1 DEF SharedBatchNorm
  <2> QED BY <2>1, <2>2
<1> HIDE DEF a, s
<1>5. Sorted(todo')
    BY <1>1, <1>2
<1>6. ASSUME Conventional(input)
      PROVE  InPass(made') /\ TreesWhole(made')
  <2>1. InPass(made) /\ TreesWhole(made)
      BY <1>6 DEF WholePass
  <2> QED BY <1>1, <1>3, <2>1, HandleInPass, HandleWhole
<1>7. ASSUME Conventional(input), Runnable(input), ~SharedBatchNorm
      PROVE  WiredInv(Alone, made', ToRewrite(todo'))
  <2> DEFINE u == Alone
             g == made
             h == made'
             r == ToRewrite(s)
             q == ToRewrite(Tail(s))
  <2>1. WiredInv(u, g, r) /\ Plain(a.name)
      BY <1>3, <1>7 DEF WholePass, s
  <2>2. r \in BOOLEAN /\ q \in BOOLEAN /\ (q => r)
      BY <1>2 DEF ToRewrite
  <2>3. a.kind = "bn_fusion" => a.name \in u.fused
      BY <1>3, AloneIs DEF ToSet
  <2>4. Fits(u, a, r)
    <3>1. "bn_fusion" \in Rewrites /\ "low_rank_svd" \in Rewrites
        BY DEF Rewrites
    <3> HIDE DEF u
    <3> QED BY <1>2, <1>3, <2>1, <2>3, <3>1 DEF Fits
  <2>5. h = Handle(g, a)
      BY <1>1
  <2> HIDE DEF u, g, h, r
  <2>6. WiredInv(u, h, r)
      BY <2>1, <2>2, <2>4, <2>5, HandleWired
  <2>7. WiredInv(u, h, FALSE)
      BY <2>2, <2>6, WiredWeakens
  <2> HIDE DEF q
  <2>8. CASE q = TRUE
    <3>1. r = TRUE
        BY <2>2, <2>8
    <3>2. r = q
        BY <2>8, <3>1
    <3> QED BY <1>1, <2>6, <3>2 DEF u, h, q
  <2>9. CASE q = FALSE
      BY <1>1, <2>7, <2>9 DEF u, h, q
  <2> QED BY <2>2, <2>8, <2>9
<1>8. ASSUME Conventional(input) PROVE \A c \in ToSet(asked') : Plain(c.name)
    BY <1>1, <1>8 DEF WholePass
<1> QED BY <1>1, <1>4, <1>5, <1>6, <1>7, <1>8 DEF WholePass

LEMMA WiredKeeps == WiredPass /\ [TransformNext]_transformVars => WiredPass'
<1> SUFFICES ASSUME WiredPass, [TransformNext]_transformVars PROVE WiredPass'
    OBVIOUS
<1>0. PassInv'
    BY PassKeeps DEF WiredPass
<1>1. CASE TransformBegin
    BY <1>0, <1>1, WiredBegins DEF WiredPass
<1>2. CASE TransformStep
  <2>1. ~TransformInit
      BY <1>2 DEF TransformStep, TransformInit
  <2>2. InRun /\ WholePass
      BY <2>1 DEF WiredPass, PassInv
  <2> QED BY <1>0, <1>2, <2>2, WiredSteps DEF WiredPass
<1>3. CASE UNCHANGED transformVars
  <2>1. UNCHANGED <<input, asked, made, todo>>
      BY <1>3 DEF transformVars
  <2>2. Alone' = Alone
      BY <2>1 DEF Alone
  <2>3. SharedBatchNorm' <=> SharedBatchNorm
      BY <2>1 DEF SharedBatchNorm
  <2>4. TransformInit => TransformInit'
      BY <2>1 DEF TransformInit
  <2>5. WholePass => WholePass'
      BY <2>1, <2>2, <2>3 DEF WholePass
  <2> QED BY <1>0, <2>4, <2>5 DEF WiredPass
<1> QED BY <1>1, <1>2, <1>3 DEF TransformNext

\* OnnxTransformer.apply keeps a conventional file runnable, handler by handler: a weight moved
\* behind a Cast or a DequantizeLinear is still written before it is read and by nobody else, the
\* halves of a split node stand in order, and a folded BatchNormalization leaves its output to
\* the producer; the exception is a file in which somebody else reads its input.  No tree
\* ensemble loses a tree's nodes without its leaves, or all of its trees.
THEOREM PassStaysWired == TransformSpec => [](Conventional(input) => StaysWired)
<1>1. TransformInit => WiredPass
    BY DEF WiredPass, PassInv
<1>2. WiredPass /\ [TransformNext]_transformVars => WiredPass'
    BY WiredKeeps
<1>3. WiredPass => (Conventional(input) => StaysWired)
  <2> SUFFICES ASSUME WiredPass, Conventional(input), Applied PROVE StaysWired
    <3>1. ~Applied => StaysWired
        BY DEF StaysWired, TreesConsistent
    <3> QED BY <3>1
  <2>1. InRun /\ WholePass
    <3>1. ~TransformInit
        BY DEF TransformInit, Applied
    <3> QED BY <3>1 DEF WiredPass, PassInv
  <2>2. ASSUME Runnable(input), ~SharedBatchNorm PROVE Runnable(made)
    <3> DEFINE u == Alone
               r == ToRewrite(todo)
               g == made
    <3>1. WiredInv(u, g, r)
        BY <2>1, <2>2 DEF WholePass
    <3> HIDE DEF u, r, g
    <3>2. InPass(g) /\ WiredList(g.nodes, Given(g), g.outs)
        BY <3>1 DEF WiredInv
    <3>3. Runnable(g)
        BY <3>2, RunnableIs DEF InPass
    <3> QED BY <3>3 DEF g
  <2>3. TreesConsistent
    <3> SUFFICES ASSUME NEW i \in Nodes(made), made.nodes[i].attr # <<>>
                 PROVE  LET at == made.nodes[i].attr
                            TreesOf(s) == {s[k].tree : k \in DOMAIN s}
                        IN  /\ TreesOf(at.nodes) = TreesOf(at.target) \cup TreesOf(at.cls)
                            /\ at.coefs = <<>> => at.nodes # <<>>
        BY DEF TreesConsistent
    <3>1. made.nodes[i] \in ToSet(made.nodes)
        BY DEF Nodes, ToSet
    <3>2. WholeTrees(made.nodes[i].attr)
        BY <2>1, <3>1 DEF WholePass, TreesWhole
    <3> QED BY <3>2 DEF WholeTrees, TreeIds
  <2> QED BY <2>2, <2>3 DEF StaysWired
<1> QED BY <1>1, <1>2, <1>3, PTL DEF TransformSpec
-----------------------------------------------------------------------------
(* What a converted weight weighs.                                          *)

\* Sums of one and of three terms.
LEMMA SumOfOne ==
    ASSUME NEW a, NEW f, f[a] \in Nat
    PROVE  SumFunctionOnSet(f, {a}) = f[a]
<1> DEFINE S == {a}
           b == Chosen(S)
<1>1. IsFiniteSet(S) /\ S # {}
    BY FS_Singleton
<1>2. b = a
    BY DEF Chosen
<1>3. S \ {a} = {}
    OBVIOUS
<1> HIDE DEF S, b
<1>4. SumFunctionOnSet(f, S) = f[b] + SumFunctionOnSet(f, S \ {b})
    BY <1>1, SumUnfolds DEF b
<1>5. IsFiniteSet({}) /\ SumFunctionOnSet(f, {}) = 0
    BY FS_EmptySet, SumUnfolds
<1>6. SumFunctionOnSet(f, S) = f[a] + 0
    BY <1>2, <1>3, <1>4, <1>5
<1> QED BY <1>6 DEF S

LEMMA SumOfTwo ==
    ASSUME NEW a, NEW b, a # b, NEW f, f[a] \in Nat, f[b] \in Nat
    PROVE  SumFunctionOnSet(f, {a, b}) = f[a] + f[b]
<1> DEFINE S == {a, b}
           c == Chosen(S)
<1>1. IsFiniteSet(S) /\ S # {}
  <2>1. IsFiniteSet({a} \cup {b})
      BY FS_Singleton, FS_Union
  <2>2. S = {a} \cup {b}
      OBVIOUS
  <2> QED BY <2>1, <2>2
<1>2. c \in S
    BY <1>1 DEF Chosen
<1>3. (c = a /\ S \ {c} = {b}) \/ (c = b /\ S \ {c} = {a})
    BY <1>2
<1> HIDE DEF S, c
<1>4. SumFunctionOnSet(f, S) = f[c] + SumFunctionOnSet(f, S \ {c})
    BY <1>1, SumUnfolds DEF c
<1>5. SumFunctionOnSet(f, {a}) = f[a] /\ SumFunctionOnSet(f, {b}) = f[b]
    BY SumOfOne
<1>7. \A x \in Nat, y \in Nat : x + y = y + x
    OBVIOUS
<1>6. SumFunctionOnSet(f, S) = f[a] + f[b]
    BY <1>3, <1>4, <1>5, <1>7
<1> QED BY <1>6 DEF S

LEMMA SumOfThree ==
    ASSUME NEW a, NEW b, NEW d, a # b, a # d, b # d, NEW f, f[a] \in Nat, f[b] \in Nat, f[d] \in Nat
    PROVE  SumFunctionOnSet(f, {a, b, d}) = f[a] + f[b] + f[d]
<1> DEFINE S == {a, b, d}
           c == Chosen(S)
<1>1. IsFiniteSet(S) /\ S # {}
  <2>1. IsFiniteSet({a} \cup {b})
      BY FS_Singleton, FS_Union
  <2>2. IsFiniteSet(({a} \cup {b}) \cup {d})
      BY <2>1, FS_Singleton, FS_Union
  <2>3. S = ({a} \cup {b}) \cup {d}
      OBVIOUS
  <2> QED BY <2>2, <2>3
<1>2. c \in S
    BY <1>1 DEF Chosen
<1>3. \/ c = a /\ S \ {c} = {b, d}
      \/ c = b /\ S \ {c} = {a, d}
      \/ c = d /\ S \ {c} = {a, b}
    BY <1>2
<1> HIDE DEF S, c
<1>4. SumFunctionOnSet(f, S) = f[c] + SumFunctionOnSet(f, S \ {c})
    BY <1>1, SumUnfolds DEF c
<1>5. /\ SumFunctionOnSet(f, {b, d}) = f[b] + f[d]
      /\ SumFunctionOnSet(f, {a, d}) = f[a] + f[d]
      /\ SumFunctionOnSet(f, {a, b}) = f[a] + f[b]
    BY SumOfTwo
<1> DEFINE u == f[a]
           v == f[b]
           w == f[d]
<1>6. SumFunctionOnSet(f, S) = u + (v + w)
      \/ SumFunctionOnSet(f, S) = v + (u + w)
      \/ SumFunctionOnSet(f, S) = w + (u + v)
    BY <1>3, <1>4, <1>5
<1>7. u \in Nat /\ v \in Nat /\ w \in Nat
    OBVIOUS
<1> HIDE DEF u, v, w
<1>8. SumFunctionOnSet(f, S) = u + v + w
    BY <1>6, <1>7
<1> QED BY <1>8 DEF S, u, v, w

\* The product of up to four dimensions.
LEMMA SizeIs ==
    ASSUME NEW t, WellFormedTensor(t)
    PROVE  /\ Size(t) \in Nat
           /\ t.dims = <<>> => Size(t) = 1
           /\ Len(t.dims) = 1 => Size(t) = t.dims[1]
           /\ Len(t.dims) = 4 => \E k \in Nat : Size(t) = t.dims[1] * k
<1> DEFINE s == t.dims
           n == Len(s)
           D == 1 .. n
<1>1. Size(t) = Product!Folded(0, 1, s)
    BY DEF Size, Product!Folded, FoldLeft, MapThenFoldSet, Times, Max,
           Product!FoldLeft, Product!MapThenFoldSet, Product!Max
<1>2. s \in Seq(Nat)
    BY DEF WellFormedTensor
<1>3. n \in Nat /\ DOMAIN s = D /\ \A k \in D : s[k] \in Nat
    BY <1>2
<1>4. Product!Unfolded(0, 1, s)
    BY <1>3, Product!FoldIs
<1>5. PICK g : /\ Size(t) = g[D]
               /\ \A T \in SUBSET D :
                    g[T] = IF T = {} THEN 1 ELSE g[T \ {Product!Max(T)}] * s[Product!Max(T)]
    BY <1>1, <1>3, <1>4 DEF Product!Unfolded, Product!Unfolds, Times
<1> HIDE DEF s, n
<1>6. ASSUME NEW k \in D PROVE g[1 .. k] = g[1 .. k - 1] * s[k]
  <2> DEFINE T == 1 .. k
             m == Product!Max(T)
  <2>0. n \in Nat /\ k \in Nat
      BY <1>3
  <2>1. T \in SUBSET (1 .. n) /\ T # {}
      BY <2>0
  <2>2. \A j \in T : k >= j
      BY <2>0
  <2>3. m \in T /\ \A j \in T : m >= j
      BY <2>0, <2>2 DEF Product!Max
  <2>4. m = k
      BY <2>0, <2>2, <2>3
  <2>5. T \ {k} = 1 .. k - 1
      BY <2>0
  <2>6. g[T] = g[T \ {m}] * s[m]
      BY <1>5, <2>1
  <2> QED BY <2>4, <2>5, <2>6
<1>7. g[{}] = 1
    BY <1>5
<1>8. 1 .. 0 = {} /\ 1 .. (1 - 1) = {}
    OBVIOUS
<1>9. ASSUME n = 4 PROVE \E k \in Nat : Size(t) = s[1] * k
  <2>1. /\ 1 \in D /\ 2 \in D /\ 3 \in D /\ 4 \in D
      BY <1>9
  <2>2. g[1 .. 1] = 1 * s[1]
      BY <1>6, <1>7, <1>8, <2>1
  <2>3. g[1 .. 2] = g[1 .. 1] * s[2] /\ g[1 .. 3] = g[1 .. 2] * s[3] /\ g[1 .. 4] = g[1 .. 3] * s[4]
    <3>1. 2 - 1 = 1 /\ 3 - 1 = 2 /\ 4 - 1 = 3
        OBVIOUS
    <3> QED BY <1>6, <2>1, <3>1
  <2>4. s[1] \in Nat /\ s[2] \in Nat /\ s[3] \in Nat /\ s[4] \in Nat
      BY <1>3, <2>1
  <2> DEFINE a == s[1]
             b == s[2]
             c == s[3]
             d == s[4]
             k == (b * c) * d
  <2>5. Size(t) = (((1 * a) * b) * c) * d
      BY <1>5, <1>9, <2>2, <2>3
  <2>6. a \in Nat /\ b \in Nat /\ c \in Nat /\ d \in Nat
      BY <2>4
  <2> HIDE DEF a, b, c, d
  <2>7. k \in Nat /\ (((1 * a) * b) * c) * d = a * k
      BY <2>6
  <2>8. Size(t) = a * k
      BY <2>5, <2>7
  <2> QED BY <2>7, <2>8 DEF a
<1>10. ASSUME n = 1 PROVE Size(t) = s[1]
  <2>1. 1 \in D
      BY <1>10
  <2>2. g[1 .. 1] = 1 * s[1]
      BY <1>6, <1>7, <1>8, <2>1
  <2>3. s[1] \in Nat
      BY <1>3, <2>1
  <2> QED BY <1>5, <1>10, <2>2, <2>3
<1>11. ASSUME s = <<>> PROVE Size(t) = 1
  <2>1. D = {}
      BY <1>3, <1>11 DEF n
  <2> QED BY <1>5, <1>7, <2>1
<1>12. Size(t) \in Nat
  <2>1. Product!KeptBy(0, s)
      BY <1>3 DEF Product!KeptBy, IsNat, Times
  <2>2. IsNat(0, Product!Folded(0, 1, s))
      BY <1>3, <2>1, Product!FoldKeeps DEF IsNat
  <2> QED BY <1>1, <2>2 DEF IsNat
<1>13. /\ n = 4 => \E k \in Nat : Size(t) = s[1] * k
       /\ n = 1 => Size(t) = s[1]
       /\ s = <<>> => Size(t) = 1
    BY <1>9, <1>10, <1>11
<1> QED BY <1>12, <1>13 DEF s, n
\* The names of the tensors a weight is stored under.
Values == {"fp16", "q"}

\* What weight x is stored as.
StoredOf(g, x) ==
    {y \in DOMAIN g.inits : Len(y) > Len(x) /\ Begins(y, x) /\ y[Len(x) + 1] \in Converting}

BytesIn(g, S) == SumFunction([y \in S |-> Bytes(g.inits[y])])

OnePerChannel(t) == Len(t.dims) = 4 /\ Size(t) = t.dims[1]

\* It takes less room than it did, or has no more than one value for a channel.
Compact(g, x) ==
    \A y \in StoredOf(g, x) : y[Len(x) + 1] \in Values =>
        \/ BytesIn(g, StoredOf(g, x)) < 4 * Size(g.inits[y])
        \/ OnePerChannel(g.inits[y])

\* Bytes by element type.
LEMMA BytesAre ==
    ASSUME NEW t, WellFormedTensor(t)
    PROVE  /\ Bytes(t) \in Nat /\ Size(t) \in Nat
           /\ t.dtype = "f32" => Bytes(t) = 4 * Size(t)
           /\ t.dtype = "f16" => Bytes(t) = 2 * Size(t)
           /\ t.dtype = "i8" => Bytes(t) = Size(t)
<1>1. Size(t) \in Nat /\ Bytes(t) \in Nat
    BY SizeIs, BytesNat
<1>2. /\ t.dtype = "f32" => Width[t.dtype] = 4
      /\ t.dtype = "f16" => Width[t.dtype] = 2
      /\ t.dtype = "i8" => Width[t.dtype] = 1
    BY DEF Width
<1>3. Bytes(t) = Size(t) * Width[t.dtype]
    BY DEF Bytes
<1> DEFINE s == Size(t)
           w == Width[t.dtype]
<1>4. s \in Nat /\ Bytes(t) = s * w
    BY <1>1, <1>3
<1> HIDE DEF s, w
<1>5. (w = 4 => Bytes(t) = 4 * s) /\ (w = 2 => Bytes(t) = 2 * s) /\ (w = 1 => Bytes(t) = s)
    BY <1>4
<1> QED BY <1>1, <1>2, <1>5 DEF s, w

\* A weight worth converting has more than one value.
LEMMA WorthIs ==
    ASSUME NEW g, InPass(g), NEW x, NEW level, WorthConverting(g, x, level)
    PROVE  /\ x \in DOMAIN g.inits /\ WellFormedTensor(g.inits[x])
           /\ Size(g.inits[x]) \in Nat /\ Size(g.inits[x]) > 255
<1> DEFINE t == g.inits[x]
<1>1. x \in DOMAIN g.inits /\ t.dtype = "f32" /\ Bytes(t) >= 1024
    BY DEF WorthConverting, MinQuantBytes
<1>2. WellFormedTensor(t)
    BY <1>1 DEF InPass, WellFormed
<1> HIDE DEF t
<1>3. Size(t) \in Nat /\ Bytes(t) = 4 * Size(t)
    BY <1>1, <1>2, BytesAre
<1>4. Size(t) > 255
    BY <1>1, <1>3
<1> QED BY <1>1, <1>2, <1>3, <1>4 DEF t

LEMMA SameSize == ASSUME NEW t, NEW u, t.dims = u.dims PROVE Size(t) = Size(u)
BY DEF Size

\* Stored as float16: half the room.
LEMMA Fp16Compact ==
    ASSUME NEW g, InPass(g), NEW h, InPass(h), NEW x, IsList(x), NEW level,
           WorthConverting(g, x, level), NEW new, AsFp16(g, x, new),
           StoredOf(h, x) = DOMAIN new, \A y \in DOMAIN new : h.inits[y] = new[y]
    PROVE  Compact(h, x)
<1>1. PICK y : DOMAIN new = {y} /\ new[y] = [g.inits[x] EXCEPT !.dtype = "f16"]
    BY DEF AsFp16
<1> DEFINE t == h.inits[y]
           o == g.inits[x]
<1>2. WellFormedTensor(o) /\ Size(o) \in Nat /\ Size(o) > 255
    BY WorthIs
<1>3. t = [o EXCEPT !.dtype = "f16"] /\ y \in DOMAIN h.inits
    BY <1>1 DEF StoredOf
<1>4. t.dims = o.dims /\ t.dtype = "f16"
    BY <1>2, <1>3 DEF WellFormedTensor
<1>5. WellFormedTensor(t)
    BY <1>3 DEF InPass, WellFormed
<1> DEFINE f == [z \in {y} |-> Bytes(h.inits[z])]
<1>6. DOMAIN f = {y} /\ f[y] = Bytes(t) /\ BytesIn(h, StoredOf(h, x)) = SumFunction(f)
    BY <1>1 DEF BytesIn
<1> HIDE DEF t, o, f
<1>7. Size(t) = Size(o) /\ Bytes(t) = 2 * Size(t) /\ Bytes(t) \in Nat
    BY <1>4, <1>5, SameSize, BytesAre
<1>8. SumFunction(f) = Bytes(t)
  <2>1. SumFunctionOnSet(f, {y}) = f[y]
      BY <1>6, <1>7, SumOfOne
  <2> QED BY <1>6, <2>1 DEF SumFunction
<1>9. BytesIn(h, StoredOf(h, x)) < 4 * Size(t)
    BY <1>2, <1>6, <1>7, <1>8
<1> QED BY <1>1, <1>9 DEF Compact, t

\* The parts of stored names are told apart.
LEMMA ValueParts == "scale" \notin Values /\ "zp" \notin Values /\ "q" \in Values
BY DEF Values

\* Scales and zero points outweigh nothing, but for one value per channel.
LEMMA ScalesSmall ==
    ASSUME NEW s \in Nat, s > 255, NEW c \in Nat, c = 1 \/ \E k \in Nat : s = c * k
    PROVE  s + 4 * c + c < 4 * s \/ s = c
<1>1. CASE c = 1
    BY <1>1
<1>2. ASSUME NEW k \in Nat, s = c * k PROVE s + 4 * c + c < 4 * s \/ s = c
  <2>1. CASE k = 0
      BY <1>2, <2>1
  <2>2. CASE k = 1
      BY <1>2, <2>2
  <2>3. CASE k > 1
    <3>1. PICK j \in Nat : k = j + 2
        BY <2>3
    <3>2. c * k = c * j + 2 * c /\ c * j \in Nat
        BY <3>1
    <3>3. c > 0
        BY <1>2
    <3> DEFINE p == c * j
    <3>4. s = p + 2 * c /\ p \in Nat
        BY <1>2, <3>2
    <3> HIDE DEF p
    <3> QED BY <3>3, <3>4
  <2> QED BY <2>1, <2>2, <2>3
<1> QED BY <1>1, <1>2

\* Stored as int8: a quarter of the room, and the scales.
LEMMA Int8Compact ==
    ASSUME NEW g, InPass(g), NEW h, InPass(h), NEW x, IsList(x), NEW level,
           WorthConverting(g, x, level), NEW new, AsInt8(g, x, new),
           StoredOf(h, x) = DOMAIN new, \A y \in DOMAIN new : h.inits[y] = new[y]
    PROVE  Compact(h, x)
<1>1. PICK q, sc, zp :
        /\ Derived(x, "q", q) /\ Derived(x, "scale", sc) /\ Derived(x, "zp", zp)
        /\ DOMAIN new = {q, sc, zp}
        /\ new[q].dtype = "i8" /\ new[q].dims = g.inits[x].dims
        /\ new[sc].dtype = "f32" /\ new[zp].dtype = "i8" /\ new[zp].dims = new[sc].dims
        /\ \/ new[sc].dims = <<>>
           \/ /\ new[sc].dims = <<g.inits[x].dims[1]>>
              /\ Len(g.inits[x].dims) = 4 /\ g.inits[x].dims[1] > 1
    BY DEF AsInt8
<1> DEFINE o == g.inits[x]
           t == h.inits[q]
           u == h.inits[sc]
           v == h.inits[zp]
<1>2. WellFormedTensor(o) /\ Size(o) \in Nat /\ Size(o) > 255
    BY WorthIs
<1>3. /\ q \in DOMAIN new /\ sc \in DOMAIN new /\ zp \in DOMAIN new
      /\ t = new[q] /\ u = new[sc] /\ v = new[zp]
    BY <1>1
<1>4. /\ t.dtype = "i8" /\ t.dims = o.dims /\ u.dtype = "f32" /\ v.dtype = "i8" /\ v.dims = u.dims
      /\ u.dims = <<>> \/ (u.dims = <<o.dims[1]>> /\ Len(o.dims) = 4)
    BY <1>1, <1>3
<1>5. WellFormedTensor(t) /\ WellFormedTensor(u) /\ WellFormedTensor(v)
    BY <1>3 DEF StoredOf, InPass, WellFormed
<1>6. q[Len(x) + 1] = "q" /\ sc[Len(x) + 1] = "scale" /\ zp[Len(x) + 1] = "zp"
    BY <1>1, DerivedIs
<1>7. q # sc /\ q # zp /\ sc # zp
    BY <1>6
<1>8. sc[Len(x) + 1] \notin Values /\ zp[Len(x) + 1] \notin Values
    BY <1>6, ValueParts
<1> DEFINE f == [z \in {q, sc, zp} |-> Bytes(h.inits[z])]
<1>9. /\ DOMAIN f = {q, sc, zp} /\ f[q] = Bytes(t) /\ f[sc] = Bytes(u) /\ f[zp] = Bytes(v)
      /\ BytesIn(h, StoredOf(h, x)) = SumFunction(f)
    BY <1>1 DEF BytesIn
<1> HIDE DEF t, o, u, v, f
<1>10. /\ Bytes(t) = Size(t) /\ Bytes(u) = 4 * Size(u) /\ Bytes(v) = Size(v)
       /\ Size(t) \in Nat /\ Size(u) \in Nat /\ Size(v) \in Nat
       /\ Bytes(t) \in Nat /\ Bytes(u) \in Nat /\ Bytes(v) \in Nat
    BY <1>4, <1>5, BytesAre
<1>11. Size(t) = Size(o) /\ Size(v) = Size(u)
    BY <1>4, SameSize
<1>12. SumFunction(f) = Size(t) + 4 * Size(u) + Size(u)
  <2>1. SumFunctionOnSet(f, {q, sc, zp}) = f[q] + f[sc] + f[zp]
      BY <1>7, <1>9, <1>10, SumOfThree
  <2>2. SumFunction(f) = Bytes(t) + Bytes(u) + Bytes(v)
      BY <1>9, <2>1 DEF SumFunction
  <2> QED BY <1>10, <1>11, <2>2
<1>13. Size(u) = 1 \/ (Len(t.dims) = 4 /\ Size(u) = t.dims[1] /\ \E k \in Nat : Size(t) = Size(u) * k)
  <2>1. CASE u.dims = <<>>
      BY <1>5, <2>1, SizeIs
  <2>2. CASE u.dims = <<o.dims[1]>> /\ Len(o.dims) = 4
    <3>1. Len(u.dims) = 1 /\ u.dims[1] = t.dims[1] /\ Len(t.dims) = 4
        BY <1>4, <2>2
    <3>2. Size(u) = t.dims[1] /\ \E k \in Nat : Size(t) = t.dims[1] * k
        BY <1>5, <3>1, SizeIs
    <3> QED BY <3>1, <3>2
  <2> QED BY <1>4, <2>1, <2>2
<1>14. Size(t) > 255
    BY <1>2, <1>11
<1>15. SumFunction(f) < 4 * Size(t) \/ (Len(t.dims) = 4 /\ Size(t) = t.dims[1])
  <2>1. Size(t) + 4 * Size(u) + Size(u) < 4 * Size(t) \/ Size(t) = Size(u)
      BY <1>10, <1>13, <1>14, ScalesSmall
  <2>2. Size(u) = 1 => Size(t) # Size(u)
      BY <1>10, <1>14
  <2> QED BY <1>12, <1>13, <2>1, <2>2
<1>16. BytesIn(h, StoredOf(h, x)) < 4 * Size(t) \/ OnePerChannel(t)
    BY <1>9, <1>15 DEF OnePerChannel
<1>17. \A y \in StoredOf(h, x) : y[Len(x) + 1] \in Values => y = q
    BY <1>1, <1>8
<1> QED BY <1>16, <1>17 DEF Compact, t
-----------------------------------------------------------------------------
(* What conversions stored stays as it is.                                  *)

\* No node an action may ask for reads what a conversion stored.
StorageNamed(g) ==
    /\ InPass(g)
    /\ \A n \in ToSet(g.nodes) : Plain(n.name) => \A y \in ToSet(n.in) : FreeOf(y, Converting)
    /\ \A n \in ToSet(g.nodes) : Folds(n) => Plain(n.name)

\* A graph in the middle of a pass.  r: a handler that rewrites nodes is still to come.
StorageInv(g, r) ==
    /\ StorageNamed(g)
    /\ r => g.conv = {}
    /\ \A x \in g.conv : IsList(x) /\ FreeOf(x, Converting) /\ Compact(g, x)
    /\ \A y \in DOMAIN g.inits : ~FreeOf(y, Converting) => \E x \in g.conv : y \in StoredOf(g, x)

\* A stored tensor belongs to one weight.
LEMMA HeldOnce ==
    ASSUME NEW x, IsList(x), FreeOf(x, Converting), NEW z, IsList(z), FreeOf(z, Converting),
           NEW g, NEW h, NEW y, y \in StoredOf(g, x), y \in StoredOf(h, z), IsList(y)
    PROVE  x = z
<1>1. /\ Len(x) \in Nat /\ Len(z) \in Nat /\ Len(y) \in Nat
      /\ x = [k \in 1 .. Len(x) |-> x[k]] /\ z = [k \in 1 .. Len(z) |-> z[k]]
    BY ListFacts
<1>2. /\ \A j \in 1 .. Len(x) : y[j] = x[j]
      /\ \A j \in 1 .. Len(z) : y[j] = z[j]
      /\ y[Len(x) + 1] \in Converting /\ y[Len(z) + 1] \in Converting
    BY DEF StoredOf, Begins
<1>3. /\ \A j \in 1 .. Len(x) : y[j] \notin Converting
      /\ \A j \in 1 .. Len(z) : y[j] \notin Converting
    BY <1>2 DEF FreeOf
<1>4. ~(Len(x) < Len(z)) /\ ~(Len(z) < Len(x))
  <2>1. ASSUME Len(x) < Len(z) PROVE FALSE
    <3>1. Len(x) + 1 \in 1 .. Len(z)
        BY <1>1, <2>1
    <3> QED BY <1>2, <1>3, <3>1
  <2>2. ASSUME Len(z) < Len(x) PROVE FALSE
    <3>1. Len(z) + 1 \in 1 .. Len(x)
        BY <1>1, <2>2
    <3> QED BY <1>2, <1>3, <3>1
  <2> QED BY <2>1, <2>2
<1>5. Len(x) = Len(z)
  <2> DEFINE a == Len(x)
             b == Len(z)
  <2>1. a \in Nat /\ b \in Nat /\ ~(a < b) /\ ~(b < a)
      BY <1>1, <1>4
  <2> HIDE DEF a, b
  <2>2. a = b
      BY <2>1
  <2> QED BY <2>2 DEF a, b
<1>6. \A k \in 1 .. Len(x) : x[k] = z[k]
    BY <1>2, <1>5
<1>7. [k \in 1 .. Len(x) |-> x[k]] = [k \in 1 .. Len(x) |-> z[k]]
    BY <1>6
<1>8. z = [k \in 1 .. Len(x) |-> z[k]]
    BY <1>1, <1>5
<1> QED BY <1>1, <1>7, <1>8

LEMMA HeldNotFree ==
    ASSUME NEW g, NEW x, IsList(x), NEW y, IsList(y), y \in StoredOf(g, x)
    PROVE  ~FreeOf(y, Converting)
<1>1. Len(x) \in Nat /\ Len(y) \in Nat /\ Len(y) > Len(x) /\ y[Len(x) + 1] \in Converting
    BY ListFacts DEF StoredOf
<1>2. Len(x) + 1 \in 1 .. Len(y)
    BY <1>1
<1> QED BY <1>1, <1>2 DEF FreeOf

LEMMA DerivedHeld ==
    ASSUME NEW h, NEW x, IsList(x), NEW p \in Converting, NEW y \in DOMAIN h.inits, Derived(x, p, y)
    PROVE  y \in StoredOf(h, x)
<1>1. /\ Len(y) > Len(x) /\ Len(x) \in Nat /\ Len(y) \in Nat
      /\ \A j \in 1 .. Len(x) : y[j] = x[j]
      /\ y[Len(x) + 1] = p
    BY DerivedIs
<1>2. Len(y) >= Len(x)
    BY <1>1
<1> QED BY <1>1, <1>2 DEF StoredOf, Begins

\* What is stored for a weight is kept by what leaves those tensors alone.
LEMMA SameHeld ==
    ASSUME NEW g, NEW h, NEW x, Compact(g, x), StoredOf(h, x) = StoredOf(g, x),
           \A y \in StoredOf(g, x) : h.inits[y] = g.inits[y]
    PROVE  Compact(h, x)
<1>1. BytesIn(h, StoredOf(h, x)) = BytesIn(g, StoredOf(g, x))
    BY DEF BytesIn
<1> QED BY <1>1 DEF Compact

\* A change of other tensors.
LEMMA StoredAlone ==
    ASSUME NEW r, NEW g, StorageInv(g, r), NEW h, StorageNamed(h), h.conv = g.conv,
           \A y : FreeOf(y, Converting) \/ (y \in DOMAIN g.inits <=> y \in DOMAIN h.inits),
           \A y \in DOMAIN g.inits : FreeOf(y, Converting) \/ h.inits[y] = g.inits[y]
    PROVE  StorageInv(h, r)
<1>1. /\ \A y \in DOMAIN g.inits : IsList(y)
      /\ \A y \in DOMAIN h.inits : IsList(y)
    BY DEF StorageInv, StorageNamed, InPass, ListNamed
<1>2. ASSUME NEW x \in g.conv PROVE StoredOf(h, x) = StoredOf(g, x) /\ Compact(h, x)
  <2>1. IsList(x) /\ Compact(g, x)
      BY DEF StorageInv
  <2>2. \A y \in StoredOf(g, x) : ~FreeOf(y, Converting)
      BY <1>1, <2>1, HeldNotFree DEF StoredOf
  <2>3. \A y \in StoredOf(h, x) : ~FreeOf(y, Converting)
      BY <1>1, <2>1, HeldNotFree DEF StoredOf
  <2>4. StoredOf(h, x) = StoredOf(g, x)
      BY <2>2, <2>3 DEF StoredOf
  <2>5. \A y \in StoredOf(g, x) : h.inits[y] = g.inits[y]
      BY <2>2 DEF StoredOf
  <2> QED BY <2>1, <2>4, <2>5, SameHeld
<1>3. ASSUME NEW y \in DOMAIN h.inits, ~FreeOf(y, Converting)
      PROVE  \E x \in h.conv : y \in StoredOf(h, x)
  <2>1. y \in DOMAIN g.inits
      BY <1>3
  <2>2. PICK x \in g.conv : y \in StoredOf(g, x)
      BY <1>3, <2>1 DEF StorageInv
  <2> QED BY <1>2, <2>2
<1> QED BY <1>2, <1>3 DEF StorageInv

LEMMA ConvertStored ==
    ASSUME NEW g, StorageInv(g, FALSE), NEW x, IsList(x), FreeOf(x, Converting),
           NEW level, NEW consumer
    PROVE  StorageInv(Convert(g, x, level, consumer), FALSE)
<1> DEFINE h == Convert(g, x, level, consumer)
<1> SUFFICES StorageInv(h, FALSE)
    OBVIOUS
<1>0. InPass(g) /\ InPass(h)
    BY ConvertInPass DEF StorageInv, StorageNamed
<1>1. h = g \/ \E new, n : ConvertedTo(g, h, x, level, new, n)
    BY <1>0, ConvertIs
<1> HIDE DEF h
<1>2. ASSUME NEW new, NEW n, ConvertedTo(g, h, x, level, new, n) PROVE StorageInv(h, FALSE)
  <2>1. /\ WorthConverting(g, x, level) /\ Moved(g, h, x, new, n) /\ h.conv = g.conv \cup {x}
        /\ AsFp16(g, x, new) \/ AsInt8(g, x, new)
        /\ x \in DOMAIN g.inits /\ x \notin g.conv
      BY <1>2 DEF ConvertedTo, WorthConverting
  <2>2. /\ ToSet(h.nodes) = {n} \cup ToSet(g.nodes)
        /\ DOMAIN h.inits = (DOMAIN g.inits \ {x}) \cup DOMAIN new
        /\ \A y \in DOMAIN g.inits \ {x} : y \notin DOMAIN new /\ h.inits[y] = g.inits[y]
        /\ \A y \in DOMAIN new : y \notin DOMAIN g.inits /\ h.inits[y] = new[y]
      BY <1>0, <2>1, MovedTo
  <2>3. \A y \in DOMAIN new : \E p \in Converting : Derived(x, p, y)
    <3>1. CASE AsFp16(g, x, new)
      <4>1. \A y \in DOMAIN new : Derived(x, "fp16", y)
          BY <3>1 DEF AsFp16
      <4> QED BY <4>1, ToldParts
    <3>2. CASE AsInt8(g, x, new)
      <4>1. \A y \in DOMAIN new : Derived(x, "q", y) \/ Derived(x, "scale", y) \/ Derived(x, "zp", y)
          BY <3>2 DEF AsInt8
      <4> QED BY <4>1, ToldParts
    <3> QED BY <2>1, <3>1, <3>2
  <2>4. \A y \in DOMAIN new : y \in StoredOf(h, x)
      BY <2>2, <2>3, DerivedHeld
  <2>5. /\ \A y \in DOMAIN g.inits : IsList(y)
        /\ \A y \in DOMAIN h.inits : IsList(y)
      BY <1>0 DEF InPass, ListNamed
  <2>6. \A z \in g.conv : IsList(z) /\ FreeOf(z, Converting) /\ Compact(g, z)
      BY DEF StorageInv
  <2>7. \A z, y : y \in StoredOf(g, z) => ~FreeOf(y, Converting) \/ ~IsList(z)
      BY <2>5, HeldNotFree DEF StoredOf
  <2>8. \A y \in DOMAIN g.inits : y \notin StoredOf(g, x)
    <3> SUFFICES ASSUME NEW y \in DOMAIN g.inits, y \in StoredOf(g, x) PROVE FALSE
        OBVIOUS
    <3>1. PICK z \in g.conv : y \in StoredOf(g, z)
        BY <2>7 DEF StorageInv
    <3>2. z = x
        BY <2>5, <2>6, <3>1, HeldOnce
    <3> QED BY <2>1, <3>1, <3>2
  <2>9. StoredOf(h, x) = DOMAIN new
    <3>1. ASSUME NEW y \in StoredOf(h, x), y \notin DOMAIN new PROVE FALSE
      <4>1. y \in DOMAIN g.inits
          BY <2>2, <3>1 DEF StoredOf
      <4>2. y \in StoredOf(g, x)
          BY <3>1, <4>1 DEF StoredOf
      <4> QED BY <2>8, <4>1, <4>2
    <3> QED BY <2>4, <3>1
  <2>10. Compact(h, x)
      BY <1>0, <2>1, <2>2, <2>9, Fp16Compact, Int8Compact
  <2>11. ASSUME NEW z \in g.conv PROVE StoredOf(h, z) = StoredOf(g, z) /\ Compact(h, z)
    <3>1. z # x
        BY <2>1
    <3>2. \A y \in DOMAIN new : y \notin StoredOf(h, z)
        BY <2>2, <2>4, <2>5, <2>6, <3>1, HeldOnce
    <3>3. x \notin StoredOf(g, z)
        BY <2>6, <2>7
    <3>4. StoredOf(h, z) = StoredOf(g, z)
        BY <2>2, <3>2, <3>3 DEF StoredOf
    <3>5. \A y \in StoredOf(g, z) : h.inits[y] = g.inits[y]
        BY <2>2, <3>3 DEF StoredOf
    <3> QED BY <2>6, <3>4, <3>5, SameHeld
  <2>12. ASSUME NEW y \in DOMAIN h.inits, ~FreeOf(y, Converting)
         PROVE  \E z \in h.conv : y \in StoredOf(h, z)
    <3>1. CASE y \in DOMAIN new
        BY <2>1, <2>4, <3>1
    <3>2. CASE y \in DOMAIN g.inits
      <4>1. PICK z \in g.conv : y \in StoredOf(g, z)
          BY <2>12, <3>2 DEF StorageInv
      <4> QED BY <2>1, <2>11, <4>1
    <3> QED BY <2>2, <3>1, <3>2
  <2>13. StorageNamed(h)
    <3>1. ~Plain(n.name)
      <4>1. Derived(x, "fp16_cast", n.name) \/ Derived(x, "dq", n.name)
          BY <2>1 DEF Moved
      <4> QED BY <4>1, ToldParts, DerivedNotFree DEF Plain
    <3>2. ~Folds(n)
        BY <2>1 DEF Moved, Folds
    <3> QED BY <1>0, <2>2, <3>1, <3>2 DEF StorageInv, StorageNamed
  <2>14. \A z \in h.conv : IsList(z) /\ FreeOf(z, Converting) /\ Compact(h, z)
      BY <2>1, <2>6, <2>10, <2>11
  <2> QED BY <2>12, <2>13, <2>14 DEF StorageInv
<1> QED BY <1>1, <1>2

LEMMA QuantizeStored ==
    ASSUME NEW g, StorageInv(g, FALSE), NEW h, NEW a, Plain(a.name), Quantized(g, h, a)
    PROVE  StorageInv(h, FALSE)
<1>1. InPass(g)
    BY DEF StorageInv, StorageNamed
<1>2. PICK n, f : n \in ToSet(g.nodes) /\ n.name = a.name /\ Conversions(f, g, h, n, a.arg)
    BY DEF Quantized
<1>3. IsList(n.in) /\ NamedNode(n)
    BY <1>1, <1>2, NodeOf
<1>4. \A y \in ToSet(n.in) : FreeOf(y, Converting)
    BY <1>2 DEF StorageInv, StorageNamed
<1> DEFINE Ok(x) == StorageInv(x, FALSE)
<1>0. Ok(g)
    OBVIOUS
<1> HIDE DEF Ok
<1> DEFINE Fine == {f[k] : k \in {k \in 0 .. Len(n.in) : Ok(f[k])}}
<1>5. Len(n.in) \in Nat /\ f[0] = g
    BY <1>2, <1>3, ListFacts DEF Conversions
<1>6. g \in Fine
    BY <1>0, <1>5
<1>7. ASSUME NEW k \in 1 .. Len(n.in), f[k - 1] \in Fine PROVE f[k] \in Fine
  <2>1. Ok(f[k - 1])
      BY <1>7
  <2>2. n.in[k] \in ToSet(n.in)
      BY <1>3, ListFacts
  <2>3. IsList(n.in[k]) /\ FreeOf(n.in[k], Converting)
      BY <1>3, <1>4, <2>2 DEF NamedNode
  <2>4. f[k] = Convert(f[k - 1], n.in[k], a.arg, n)
      BY <1>2 DEF Conversions
  <2>5. Ok(f[k])
      BY <2>1, <2>3, <2>4, ConvertStored DEF Ok
  <2> QED BY <1>5, <2>5
<1>8. h \in Fine
  <2> HIDE DEF Fine
  <2> QED BY <1>2, <1>3, <1>6, <1>7, ChainKeeps
<1>9. Ok(h)
    BY <1>8
<1> QED BY <1>9 DEF Ok

\* A name with one of the two rewriting parts after it is not one of a stored tensor.
LEMMA RewrittenFree ==
    ASSUME NEW x, IsList(x), FreeOf(x, Converting), NEW p, p \notin Converting
    PROVE  FreeOf(Append(x, p), Converting)
<1> DEFINE c == Append(x, p)
<1>1. /\ Len(c) = Len(x) + 1 /\ Len(x) \in Nat
      /\ \A j \in 1 .. Len(x) : c[j] = x[j]
      /\ c[Len(x) + 1] = p
    BY PartAppended
<1> HIDE DEF c
<1>2. ASSUME NEW j \in 1 .. Len(c) PROVE c[j] \notin Converting
  <2>1. j \in 1 .. Len(x) \/ j = Len(x) + 1
      BY <1>1
  <2> QED BY <1>1, <2>1 DEF FreeOf
<1>3. FreeOf(c, Converting)
    BY <1>2 DEF FreeOf
<1> QED BY <1>3 DEF c

LEMMA RewrittenNotPlain ==
    ASSUME NEW x, IsList(x), NEW p, p \in OwnParts
    PROVE  ~Plain(Append(x, p))
<1> DEFINE c == Append(x, p)
<1>1. Len(c) = Len(x) + 1 /\ Len(x) \in Nat /\ c[Len(x) + 1] = p
    BY PartAppended
<1> HIDE DEF c
<1>2. Len(x) + 1 \in 1 .. Len(c)
    BY <1>1
<1>3. ~Plain(c)
    BY <1>1, <1>2 DEF Plain, FreeOf
<1> QED BY <1>3 DEF c

LEMMA HandleStored ==
    ASSUME NEW u, NEW r \in BOOLEAN, NEW g, StorageInv(g, r), NEW a, Fits(u, a, r)
    PROVE  StorageInv(Handle(g, a), r)
<1> DEFINE h == Handle(g, a)
<1>0. InPass(g) /\ InPass(h) /\ WellFormedAction(a) /\ Plain(a.name)
    BY HandleInPass DEF StorageInv, StorageNamed, Fits
<1> SUFFICES StorageInv(h, r)
    OBVIOUS
<1>9. \/ Stopped(g, h) \/ Reweighted(g, h)
      \/ Quantized(g, h, a) \/ Pruned(g, h, a) \/ Split(g, h, a) \/ Fused(g, h, a)
    BY <1>0, HandleIs
<1> HIDE DEF h
<1>1. CASE Stopped(g, h)
  <2>1. h.nodes = g.nodes /\ h.inits = g.inits /\ h.conv = g.conv
      BY <1>0, <1>1, StoppedFields
  <2>2. StorageNamed(h)
      BY <1>0, <2>1 DEF StorageInv, StorageNamed
  <2> QED BY <2>1, <2>2, StoredAlone
<1>2. CASE Quantized(g, h, a)
  <2>1. r = FALSE
      BY <1>2 DEF Fits, Quantized
  <2> QED BY <1>0, <1>2, <2>1, QuantizeStored
<1>3. CASE Pruned(g, h, a)
  <2>1. PICK n, new : /\ n \in ToSet(g.nodes) /\ n.name = a.name
                      /\ DOMAIN new \subseteq ToSet(n.in) \cap DOMAIN g.inits
                      /\ Written(g, h, new) /\ h.nodes = g.nodes
      BY <1>3 DEF Pruned
  <2>2. \A y \in DOMAIN new : FreeOf(y, Converting)
      BY <1>0, <2>1 DEF StorageInv, StorageNamed
  <2>3. /\ h.conv = g.conv /\ DOMAIN h.inits = DOMAIN g.inits
        /\ \A y \in DOMAIN g.inits : FreeOf(y, Converting) \/ h.inits[y] = g.inits[y]
      BY <2>1, <2>2 DEF Written, Overlaid
  <2>4. StorageNamed(h)
      BY <1>0, <2>1 DEF StorageInv, StorageNamed
  <2> QED BY <2>3, <2>4, StoredAlone
<1>4. CASE Split(g, h, a)
  <2>1. PICK i, w, new : SplitAt(g, h, a.name, i, w, new)
      BY <1>4 DEF Split
  <2> DEFINE n == g.nodes[i]
             second == SecondNode(a.name, n, w)
             half == Half(n)
  <2>2. /\ n \in ToSet(g.nodes) /\ n.name = a.name /\ w \in ToSet(n.in) \cap DOMAIN g.inits
        /\ Written(g, h, new) /\ DOMAIN new = {w, Factor(w)}
      BY <2>1 DEF SplitAt, ToSet
  <2>3. ToSet(h.nodes) \subseteq ToSet(g.nodes) \cup {half, second}
      BY <1>0, <2>1, SplitNodes
  <2> HIDE DEF n
  <2>4. IsList(w) /\ NamedNode(n) /\ WellFormedNode(n) /\ IsList(a.name)
      BY <1>0, <2>2, NodeOf DEF InPass, ListNamed, NamedNode
  <2>5. half.name = n.name /\ half.op = n.op /\ half.in = n.in
      BY <2>4, HalfIs
  <2>6. second.name = Append(a.name, "svd_v") /\ second.op = "MatMul"
    <3>1. second = SecondNode(a.name, n, w)
        OBVIOUS
    <3> HIDE DEF second
    <3>2. SecondHas(second, n, w, a.name)
        BY <2>4, <3>1, SecondIs
    <3> QED BY <3>2 DEF SecondHas
  <2> HIDE DEF second, half
  <2>7. ~Plain(second.name) /\ ~Folds(second)
    <3>1. ~Plain(second.name)
        BY <2>4, <2>6, ToldParts, RewrittenNotPlain
    <3>2. ~Folds(second)
        BY <2>6 DEF Folds
    <3> QED BY <3>1, <3>2
  <2>8. \A y \in ToSet(n.in) : FreeOf(y, Converting)
      BY <1>0, <2>2 DEF StorageInv, StorageNamed
  <2>9. StorageNamed(h)
    <3>1. Folds(half) => Plain(half.name)
        BY <1>0, <2>2, <2>5
    <3>2. \A y \in ToSet(half.in) : FreeOf(y, Converting)
        BY <2>5, <2>8
    <3> QED BY <1>0, <2>3, <2>7, <3>1, <3>2 DEF StorageInv, StorageNamed
  <2>10. FreeOf(Factor(w), Converting) /\ FreeOf(w, Converting)
    <3>1. FreeOf(w, Converting)
        BY <2>2, <2>8
    <3> QED BY <2>4, <3>1, ToldParts, RewrittenFree DEF Factor
  <2>11. /\ h.conv = g.conv
         /\ \A y : FreeOf(y, Converting) \/ (y \in DOMAIN g.inits <=> y \in DOMAIN h.inits)
         /\ \A y \in DOMAIN g.inits : FreeOf(y, Converting) \/ h.inits[y] = g.inits[y]
      BY <2>2, <2>10 DEF Written, Overlaid
  <2> QED BY <2>9, <2>11, StoredAlone
<1>5. CASE Fused(g, h, a)
  <2>1. PICK b, p, new : FoldedAt(g, h, a.name, b, p, new)
      BY <1>5 DEF Fused
  <2> DEFINE bn == g.nodes[b]
             n == g.nodes[p]
             bias == Append(n.name, "fused_bias")
             heir == Heir(bn, n)
  <2>2. /\ bn \in ToSet(g.nodes) /\ n \in ToSet(g.nodes) /\ n.op \in {"Conv", "Gemm"}
        /\ Written(g, h, new) /\ \A y \in DOMAIN new : y \in ToSet(n.in) \/ y = bias
      BY <2>1 DEF FoldedAt, ToSet
  <2>3. ToSet(h.nodes) \subseteq ToSet(g.nodes) \cup {heir}
      BY <1>0, <2>1, FoldedNodes
  <2> HIDE DEF bn, n
  <2>4. NamedNode(n) /\ WellFormedNode(n) /\ NamedNode(bn) /\ WellFormedNode(bn)
      BY <1>0, <2>2, NodeOf
  <2>5. heir.name = n.name /\ heir.op = n.op /\ ToSet(heir.in) \subseteq ToSet(n.in) \cup {bias}
    <3>1. heir = Heir(bn, n)
        OBVIOUS
    <3> HIDE DEF heir
    <3>2. HeirHas(heir, bn, n)
        BY <2>4, <3>1, HeirFacts
    <3> QED BY <3>2 DEF HeirHas
  <2> HIDE DEF heir
  <2>6. Plain(n.name) /\ \A y \in ToSet(n.in) : FreeOf(y, Converting)
    <3>1. Folds(n)
        BY <2>2 DEF Folds
    <3> QED BY <2>2, <3>1 DEF StorageInv, StorageNamed
  <2>7. FreeOf(bias, Converting)
    <3>1. FreeOf(n.name, Converting)
        BY <2>6, ToldParts, FewerParts DEF Plain
    <3> QED BY <2>4, <3>1, ToldParts, RewrittenFree DEF NamedNode
  <2> HIDE DEF bias
  <2>8. StorageNamed(h)
      BY <1>0, <2>3, <2>5, <2>6, <2>7 DEF StorageInv, StorageNamed
  <2>9. /\ h.conv = g.conv
        /\ \A y : FreeOf(y, Converting) \/ (y \in DOMAIN g.inits <=> y \in DOMAIN h.inits)
        /\ \A y \in DOMAIN g.inits : FreeOf(y, Converting) \/ h.inits[y] = g.inits[y]
      BY <2>2, <2>6, <2>7 DEF Written, Overlaid
  <2> QED BY <2>8, <2>9, StoredAlone
<1>6. CASE Reweighted(g, h)
  <2>1. PICK i, at : Attributed(g, h, i, at)
      BY <1>6 DEF Reweighted
  <2> DEFINE n == g.nodes[i]
             m == [n EXCEPT !.attr = at]
  <2>2. IsList(g.nodes) /\ DOMAIN g.nodes = 1 .. Len(g.nodes) /\ i \in DOMAIN g.nodes
      BY <1>0, <2>1, ListFacts DEF InPass, WellFormed, Attributed
  <2>3. n \in ToSet(g.nodes)
      BY <2>2 DEF ToSet
  <2>4. h.inits = g.inits /\ h.conv = g.conv /\ h.nodes = [g.nodes EXCEPT ![i] = m]
      BY <2>1 DEF Attributed
  <2>5. WellFormedNode(n)
      BY <1>0, <2>3, NodeOf
  <2>6. m.name = n.name /\ m.op = n.op /\ m.in = n.in
      BY <2>5 DEF WellFormedNode
  <2> HIDE DEF m, n
  <2>7. ToSet(h.nodes) \subseteq ToSet(g.nodes) \cup {m}
      BY <2>2, <2>4 DEF ToSet
  <2>8. Folds(m) <=> Folds(n)
      BY <2>6 DEF Folds
  <2>9. StorageNamed(h)
      BY <1>0, <2>3, <2>6, <2>7, <2>8 DEF StorageInv, StorageNamed
  <2> QED BY <2>4, <2>9, StoredAlone
<1> QED BY <1>1, <1>2, <1>3, <1>4, <1>5, <1>6, <1>9

-----------------------------------------------------------------------------
(* A pass that stores less than there was.                                  *)

\* A file in which nothing is called as the transformer calls what it stores: names are lists,
\* no weight and no input of a node has a part of a stored tensor's name, and no node one that
\* the transformer calls its own.
PlainlyNamed(g) ==
    /\ ListNamed(g)
    /\ \A y \in DOMAIN g.inits : FreeOf(y, Converting)
    /\ \A i \in Nodes(g) : Plain(OpName(g, i))
    /\ \A n \in ToSet(g.nodes) : \A y \in ToSet(n.in) : FreeOf(y, Converting)

LEMMA StorageWeakens ==
    ASSUME NEW g, NEW r \in BOOLEAN, StorageInv(g, r)
    PROVE  StorageInv(g, FALSE)
    BY DEF StorageInv

LEMMA StartStored ==
    ASSUME NEW g, WellFormed(g), PlainlyNamed(g), NEW actions
    PROVE  StorageInv(Start(g, actions), TRUE)
<1> DEFINE h == Start(g, actions)
<1>1. InPass(h) /\ h.nodes = g.nodes /\ h.inits = g.inits /\ h.conv = {}
    BY StartIs DEF PlainlyNamed
<1> HIDE DEF h
<1>2. ASSUME NEW n \in ToSet(g.nodes) PROVE Plain(n.name)
  <2>1. PICK i \in Nodes(g) : n = g.nodes[i]
      BY DEF ToSet, Nodes
  <2>2. CASE n.name = NoName
    <3>1. Len(NoName) = 0
        BY DEF NoName
    <3>2. 1 .. Len(n.name) = {}
        BY <2>2, <3>1
    <3> QED BY <3>2 DEF Plain, FreeOf
  <2>3. CASE n.name # NoName
    <3>1. OpName(g, i) = n.name
        BY <2>1, <2>3 DEF OpName
    <3> QED BY <3>1 DEF PlainlyNamed
  <2> QED BY <2>2, <2>3
<1>3. StorageNamed(h)
    BY <1>1, <1>2 DEF StorageNamed, PlainlyNamed
<1>4. StorageInv(h, TRUE)
    BY <1>1, <1>3 DEF StorageInv, PlainlyNamed
<1> QED BY <1>4 DEF h

\* A run of the pass over such a file.
NamedPass ==
    /\ Sorted(todo)
    /\ PlainlyNamed(input) =>
          /\ \A a \in ToSet(asked) : Plain(a.name)
          /\ StorageInv(made, ToRewrite(todo))

\* The inductive invariant of the storage.
StoredPass == PassInv /\ (TransformInit \/ NamedPass)

LEMMA StoredBegins == ASSUME TransformBegin PROVE NamedPass'
<1>1. /\ InRun' /\ made' = Start(input', asked') /\ todo' = Ordered(asked')
      /\ \A a \in ToSet(asked') : \E i \in Nodes(input') : a.name = OpName(input', i)
    BY BeginIs
<1>2. WellFormed(input') /\ ActionList(asked')
    BY <1>1 DEF InRun
<1>3. Sorted(todo')
    BY <1>1, <1>2, OrderedSorted
<1>4. ASSUME PlainlyNamed(input')
      PROVE  /\ \A a \in ToSet(asked') : Plain(a.name)
             /\ StorageInv(made', ToRewrite(todo'))
  <2>1. \A a \in ToSet(asked') : Plain(a.name)
      BY <1>1, <1>4 DEF PlainlyNamed
  <2> DEFINE g == input'
             h == made'
             s == asked'
             r == ToRewrite(todo')
  <2>2. WellFormed(g) /\ PlainlyNamed(g) /\ h = Start(g, s)
      BY <1>1, <1>2, <1>4
  <2>3. r \in BOOLEAN
      BY DEF ToRewrite
  <2> HIDE DEF g, h, s, r
  <2>4. StorageInv(h, TRUE)
      BY <2>2, StartStored
  <2>5. StorageInv(h, FALSE)
      BY <2>4, StorageWeakens
  <2>6. CASE r = TRUE
      BY <2>1, <2>4, <2>6 DEF h, r
  <2>7. CASE r = FALSE
      BY <2>1, <2>5, <2>7 DEF h, r
  <2> QED BY <2>3, <2>6, <2>7
<1> QED BY <1>3, <1>4 DEF NamedPass

LEMMA StoredSteps ==
    ASSUME InRun, NamedPass, TransformStep
    PROVE  NamedPass'
<1> DEFINE a == Head(todo)
           s == todo
<1>1. /\ made' = Handle(made, a) /\ todo' = Tail(s) /\ s # <<>>
      /\ input' = input /\ asked' = asked
    BY DEF TransformStep
<1>2. /\ Sorted(Tail(s)) /\ (ToRewrite(Tail(s)) => ToRewrite(s))
      /\ a \in ToSet(s)
      /\ a.kind \in Rewrites => ToRewrite(s)
      /\ a.kind \in QuantKinds => ~ToRewrite(s)
    BY <1>1, SortedTail DEF InRun, ActionList, NamedPass
<1>3. a \in ToSet(asked) /\ WellFormedAction(a)
    BY <1>2 DEF InRun, ActionList
<1> HIDE DEF a, s
<1>4. Sorted(todo')
    BY <1>1, <1>2
<1>5. ASSUME PlainlyNamed(input) PROVE StorageInv(made', ToRewrite(todo'))
  <2> DEFINE u == Alone
             g == made
             h == made'
             r == ToRewrite(s)
             q == ToRewrite(Tail(s))
  <2>1. StorageInv(g, r) /\ Plain(a.name)
      BY <1>3, <1>5 DEF NamedPass, s
  <2>2. r \in BOOLEAN /\ q \in BOOLEAN /\ (q => r)
      BY <1>2 DEF ToRewrite
  <2>3. a.kind = "bn_fusion" => a.name \in u.fused
      BY <1>3, AloneIs DEF ToSet
  <2>4. Fits(u, a, r)
    <3>1. "bn_fusion" \in Rewrites /\ "low_rank_svd" \in Rewrites
        BY DEF Rewrites
    <3> HIDE DEF u
    <3> QED BY <1>2, <1>3, <2>1, <2>3, <3>1 DEF Fits
  <2>5. h = Handle(g, a)
      BY <1>1
  <2> HIDE DEF u, g, h, r
  <2>6. StorageInv(h, r)
      BY <2>1, <2>2, <2>4, <2>5, HandleStored
  <2>7. StorageInv(h, FALSE)
      BY <2>2, <2>6, StorageWeakens
  <2> HIDE DEF q
  <2>8. CASE q = TRUE
    <3>1. r = TRUE
        BY <2>2, <2>8
    <3>2. r = q
        BY <2>8, <3>1
    <3> QED BY <1>1, <2>6, <3>2 DEF h, q
  <2>9. CASE q = FALSE
      BY <1>1, <2>7, <2>9 DEF h, q
  <2> QED BY <2>2, <2>8, <2>9
<1>6. ASSUME PlainlyNamed(input) PROVE \A c \in ToSet(asked') : Plain(c.name)
    BY <1>1, <1>6 DEF NamedPass
<1> QED BY <1>1, <1>4, <1>5, <1>6 DEF NamedPass

LEMMA StoredKeeps == StoredPass /\ [TransformNext]_transformVars => StoredPass'
<1> SUFFICES ASSUME StoredPass, [TransformNext]_transformVars PROVE StoredPass'
    OBVIOUS
<1>0. PassInv'
    BY PassKeeps DEF StoredPass
<1>1. CASE TransformBegin
    BY <1>0, <1>1, StoredBegins DEF StoredPass
<1>2. CASE TransformStep
  <2>1. ~TransformInit
      BY <1>2 DEF TransformStep, TransformInit
  <2>2. InRun /\ NamedPass
      BY <2>1 DEF StoredPass, PassInv
  <2> QED BY <1>0, <1>2, <2>2, StoredSteps DEF StoredPass
<1>3. CASE UNCHANGED transformVars
  <2>1. UNCHANGED <<input, asked, made, todo>>
      BY <1>3 DEF transformVars
  <2>2. TransformInit => TransformInit'
      BY <2>1 DEF TransformInit
  <2>3. NamedPass => NamedPass'
      BY <2>1 DEF NamedPass
  <2> QED BY <1>0, <2>2, <2>3 DEF StoredPass
<1> QED BY <1>1, <1>2, <1>3 DEF TransformNext

\* The head of a list, item by item.
LEMMA HeadOfList ==
    ASSUME NEW y, IsList(y), NEW x, IsList(x), Len(y) > Len(x)
    PROVE  SubSeq(y, 1, Len(x)) = x <=> Begins(y, x)
<1>1. /\ Len(x) \in Nat /\ Len(y) \in Nat /\ x = [k \in 1 .. Len(x) |-> x[k]]
      /\ y \in Seq(ToSet(y))
    BY ListFacts DEF IsList
<1> DEFINE n == Len(x)
           T == ToSet(y)
<1>2. n \in Nat /\ n <= Len(y) /\ y \in Seq(T)
    BY <1>1
<1> HIDE DEF n, T
<1>3. SubSeq(y, 1, n) = [k \in 1 .. n |-> y[k]]
    BY <1>2
<1>4. SubSeq(y, 1, Len(x)) = [k \in 1 .. Len(x) |-> y[k]]
    BY <1>3 DEF n
<1>5. ASSUME \A k \in 1 .. Len(x) : y[k] = x[k] PROVE SubSeq(y, 1, Len(x)) = x
  <2>1. [k \in 1 .. Len(x) |-> y[k]] = [k \in 1 .. Len(x) |-> x[k]]
      BY <1>5
  <2> QED BY <1>1, <1>4, <2>1
<1>6. ASSUME SubSeq(y, 1, Len(x)) = x PROVE \A k \in 1 .. Len(x) : y[k] = x[k]
    BY <1>4, <1>6
<1>7. Len(y) >= Len(x)
    BY <1>1
<1> QED BY <1>5, <1>6, <1>7 DEF Begins

\* OnnxTransformer.apply stores a converted weight, with its scale and zero point, in less room
\* than its values took, whatever else is asked of the graph and however often the weight is
\* read; the exception is a convolution with one weight for each output channel.
THEOREM PassConvertedShrinks == TransformSpec => [](PlainlyNamed(input) => ConvertedShrinks)
<1>1. TransformInit => StoredPass
    BY DEF StoredPass, PassInv
<1>2. StoredPass /\ [TransformNext]_transformVars => StoredPass'
    BY StoredKeeps
<1>3. StoredPass => (PlainlyNamed(input) => ConvertedShrinks)
  <2> SUFFICES ASSUME StoredPass, PlainlyNamed(input), Applied PROVE ConvertedShrinks
      BY DEF ConvertedShrinks
  <2>1. NamedPass
    <3>1. ~TransformInit
        BY DEF TransformInit, Applied
    <3> QED BY <3>1 DEF StoredPass
  <2> DEFINE g == made
             r == ToRewrite(todo)
  <2>2. StorageInv(g, r)
      BY <2>1 DEF NamedPass
  <2>3. \A y \in DOMAIN input.inits : FreeOf(y, Converting)
      BY DEF PlainlyNamed
  <2> HIDE DEF r
  <2>4. ASSUME NEW x \in g.conv, NEW parts, parts \subseteq Converting
        PROVE  Stored(x, parts) = {y \in StoredOf(g, x) : y[Len(x) + 1] \in parts}
    <3>1. IsList(x)
        BY <2>2 DEF StorageInv
    <3>2. \A y \in DOMAIN g.inits : IsList(y)
        BY <2>2 DEF StorageInv, StorageNamed, InPass, ListNamed
    <3>3. \A y \in DOMAIN g.inits : Len(y) > Len(x) => (SubSeq(y, 1, Len(x)) = x <=> Begins(y, x))
        BY <3>1, <3>2, HeadOfList
    <3>4. ASSUME NEW y \in StoredOf(g, x) PROVE y \notin DOMAIN input.inits
      <4>1. IsList(y)
          BY <3>2 DEF StoredOf
      <4> QED BY <2>3, <3>1, <4>1, HeldNotFree
    <3>5. ASSUME NEW y PROVE y \in Stored(x, parts) => y \in StoredOf(g, x) /\ y[Len(x) + 1] \in parts
        BY <2>4, <3>3 DEF Stored, StoredOf
    <3>6. ASSUME NEW y \in StoredOf(g, x), y[Len(x) + 1] \in parts PROVE y \in Stored(x, parts)
        BY <3>3, <3>4, <3>6 DEF Stored, StoredOf
    <3> QED BY <3>5, <3>6
  <2>5. ASSUME NEW x \in g.conv, NEW y \in Stored(x, Values)
        PROVE  \/ TotalBytes(Stored(x, Converting)) < Size(g.inits[y]) * 4
               \/ Len(g.inits[y].dims) = 4 /\ Size(g.inits[y]) = g.inits[y].dims[1]
    <3>1. Values \subseteq Converting
        BY DEF Values, Converting
    <3>2. y \in StoredOf(g, x) /\ y[Len(x) + 1] \in Values
        BY <2>4, <3>1
    <3>3. Stored(x, Converting) = StoredOf(g, x)
        BY <2>4 DEF StoredOf
    <3>4. TotalBytes(Stored(x, Converting)) = BytesIn(g, StoredOf(g, x))
        BY <3>3 DEF TotalBytes, BytesIn
    <3>5. BytesIn(g, StoredOf(g, x)) < 4 * Size(g.inits[y]) \/ OnePerChannel(g.inits[y])
        BY <2>2, <3>2 DEF StorageInv, Compact
    <3>6. Size(g.inits[y]) \in Nat
        BY <2>2, <3>2, SizeIs DEF StorageInv, StorageNamed, InPass, WellFormed, StoredOf
    <3> DEFINE s == Size(g.inits[y])
    <3>7. 4 * s = s * 4
        BY <3>6
    <3> QED BY <3>4, <3>5, <3>7 DEF OnePerChannel
  <2>6. Width.f32 = 4
      BY DEF Width
  <2> HIDE DEF g
  <2>7. ASSUME NEW x \in made.conv, NEW y \in Stored(x, {"fp16", "q"})
        PROVE  LET t == made.inits[y]
               IN  \/ TotalBytes(Stored(x, {"fp16", "q", "scale", "zp"})) < Size(t) * Width.f32
                   \/ Len(t.dims) = 4 /\ Size(t) = t.dims[1]
    <3>1. x \in g.conv /\ y \in Stored(x, Values)
        BY <2>7 DEF g, Values
    <3>2. {"fp16", "q", "scale", "zp"} = Converting
        BY DEF Converting
    <3>3. \/ TotalBytes(Stored(x, Converting)) < Size(g.inits[y]) * 4
          \/ Len(g.inits[y].dims) = 4 /\ Size(g.inits[y]) = g.inits[y].dims[1]
        BY <2>5, <3>1
    <3> QED BY <2>6, <3>2, <3>3 DEF g
  <2> QED BY <2>7 DEF ConvertedShrinks
<1> QED BY <1>1, <1>2, <1>3, PTL DEF TransformSpec
=============================================================================
