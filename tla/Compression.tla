----------------------------- MODULE Compression -----------------------------
(***************************************************************************)
(* Compression actions and the graph transformer                           *)
(* (src/astra/core/compression_actions.py,                                 *)
(* src/astra/graph/onnx_transformer.py).                                   *)
(*                                                                         *)
(* A configuration per operator (precision, prune ratio in tenths, fuse,   *)
(* rank) is translated to concrete actions, which Apply carries out on a   *)
(* copy of the graph, phase after phase.  The graph under transformation   *)
(* has four more fields, the transformer's own state for one pass:        *)
(*   conv     the initializers already converted (_converted_inits)        *)
(*   noint8   DequantizeLinear is out of reach (_int8_unavailable)         *)
(*   err      a handler raised                                             *)
(*   hung     a handler does not return                                    *)
(***************************************************************************)
EXTENDS OnnxGraph

FP32 == 0
FP16 == 1
INT8 == 2
INT4 == 3

NoRank == 0
NoCompression == [prec |-> FP32, prune |-> 0, fuse |-> FALSE, rank |-> NoRank]

(***************************************************************************)
(* get_action_space.                                                       *)
(***************************************************************************)
Templates ==
    [ dense_compute |-> [prec |-> {FP32, FP16, INT8}, prune |-> 9, fuse |-> TRUE],
      normalization |-> [prec |-> {FP32, FP16}, prune |-> 0, fuse |-> TRUE],
      activation    |-> [prec |-> {FP32}, prune |-> 0, fuse |-> TRUE],
      embedding     |-> [prec |-> {FP32, FP16, INT8}, prune |-> 5, fuse |-> FALSE],
      tree_ensemble |-> [prec |-> {FP32, FP16}, prune |-> 9, fuse |-> TRUE],
      linear_model  |-> [prec |-> {FP32, FP16, INT8}, prune |-> 8, fuse |-> FALSE],
      svm           |-> [prec |-> {FP32, FP16}, prune |-> 8, fuse |-> FALSE] ]

\* An operator with less than 0.5% of the parameters gets a single choice.
IsTiny(o, total) ==
    /\ o.cat \in {"dense_compute", "embedding"}
    /\ 1000 * o.params < 5 * total

ActionSpace(o, protected, total) ==
    IF o.cat \notin DOMAIN Templates
    THEN [prec |-> {FP32}, prune |-> 0, fuse |-> FALSE]
    ELSE LET t == Templates[o.cat]
             light == IF protected THEN t.prec \cap {FP32, FP16} ELSE t.prec
         IN  IF IsTiny(o, total)
             THEN [prec |-> IF protected THEN {FP32} ELSE {Max(light)},
                   prune |-> 0, fuse |-> FALSE]
             ELSE [prec |-> light,
                   prune |-> IF protected THEN Min({t.prune, 3}) ELSE t.prune,
                   fuse |-> t.fuse]

(***************************************************************************)
(* ActionTranslator.translate: the actions a configuration asks for, in    *)
(* the order the category's translator appends them.                       *)
(***************************************************************************)
QuantKind ==
    [ dense_compute |-> "quantization", normalization |-> "param_quantization",
      embedding |-> "embedding_quantization", tree_ensemble |-> "leaf_quantization",
      linear_model |-> "coefficient_quantization",
      svm |-> "sv_coefficient_quantization" ]

PruneKind ==
    [ dense_compute |-> "channel_pruning", embedding |-> "vocabulary_pruning",
      tree_ensemble |-> "tree_pruning", linear_model |-> "feature_pruning",
      svm |-> "support_vector_pruning" ]

FuseKind ==
    [ dense_compute |-> "operator_fusion", normalization |-> "bn_fusion",
      activation |-> "activation_fusion", tree_ensemble |-> "leaf_merging" ]

RankKind ==
    [ dense_compute |-> "low_rank_svd", embedding |-> "embedding_dimension_reduction",
      tree_ensemble |-> "depth_limiting" ]

Translate(o, cfg) ==
    LET Asked(cond, kinds, arg) ==
            IF cond /\ o.cat \in DOMAIN kinds
            THEN <<[name |-> o.name, op |-> o.op, kind |-> kinds[o.cat], arg |-> arg]>>
            ELSE <<>>
        quant == Asked(cfg.prec > FP32, QuantKind, cfg.prec)
        prune == Asked(cfg.prune > 0, PruneKind, cfg.prune)
        fuse  == Asked(cfg.fuse, FuseKind, 0)
        rank  == Asked(cfg.rank # NoRank, RankKind, cfg.rank)
    IN  IF o.cat = "normalization" THEN fuse \o quant
        ELSE quant \o prune \o fuse \o rank

\* The actions of a whole configuration, operator after operator.
ActionsOf(ops, config) ==
    FoldLeft(LAMBDA s, o : s \o Translate(o, config[o.name]), <<>>, ops)

(***************************************************************************)
(* Lookups and naming in the graph under transformation.                   *)
(***************************************************************************)
\* _find_node: the first node of that name, 0 if there is none.
FindNode(g, name) == SelectInSeq(g.nodes, LAMBDA n : n.name = name)

\* _find_node_by_type: by name, else the first node of the type.
FindNodeByType(g, a) ==
    LET i == FindNode(g, a.name)
    IN  IF i > 0 THEN i ELSE SelectInSeq(g.nodes, LAMBDA n : n.op = a.op)

\* A name with a number after it; the number is written in strokes.
Stroke == "_"
Numbered(name, k) == name \o [j \in 1 .. k |-> Stroke]

\* _unique_name: neither a weight nor a node has it.
UniqueName(g, candidate) ==
    LET taken == DOMAIN g.inits \cup {g.nodes[i].name : i \in Nodes(g)}
        free == {k \in 2 .. Cardinality(taken) + 2 : Numbered(candidate, k) \notin taken}
    IN  IF candidate \notin taken THEN candidate ELSE Numbered(candidate, Min(free))

WithInits(g, new) == [g EXCEPT !.inits = Overlaid(@, new)]

WithInit(g, x, t) == WithInits(g, [y \in {x} |-> t])

WithoutInit(g, x) ==
    [g EXCEPT !.inits = Restrict(@, DOMAIN @ \ {x}), !.ins = @ \ {x}]

PrependLast(g, node) == [g EXCEPT !.nodes = @ \o <<node>>]

Prepend(g, node) == [g EXCEPT !.nodes = <<node>> \o @]

NewNode(name, op, in, out) ==
    [name |-> name, op |-> op, ml |-> FALSE, in |-> in, out |-> out, attr |-> <<>>,
     rows |-> 1, group |-> 1]

(***************************************************************************)
(* Weight quantization with reduced storage.                               *)
(***************************************************************************)
MinQuantBytesNone == 0

MinQuantBytes == 1024

\* _store_fp16: float16 storage behind a Cast that keeps the tensor's name.
StoreFp16(g, x) ==
    LET h == UniqueName(g, Append(x, "fp16"))
        cast == UniqueName(g, Append(x, "fp16_cast"))
        t == [g.inits[x] EXCEPT !.dtype = "f16"]
    IN  Prepend(WithInit(WithoutInit(g, x), h, t), NewNode(cast, "Cast", <<h>>, <<x>>))

\* _store_int8: int8 storage, a scale and a zero point behind a DequantizeLinear;
\* one scale per output channel for a convolution's four-dimensional weight.
StoreInt8(g, x, level, consumer) ==
    LET t == g.inits[x]
        perChannel == /\ consumer.op = "Conv" /\ Len(t.dims) = 4
                      /\ g.opset >= 13 /\ t.dims[1] > 1
        shape == IF perChannel THEN <<t.dims[1]>> ELSE <<>>
        q  == UniqueName(g, Append(x, "q"))
        sc == UniqueName(g, Append(x, "scale"))
        zp == UniqueName(g, Append(x, "zp"))
        dq == UniqueName(g, Append(x, "dq"))
        stored == [t EXCEPT !.dtype = "i8",
                            !.tags = @ \cup {IF level = INT8 THEN "int8" ELSE "int4"}]
        scales == [dtype |-> "f32", dims |-> shape, tags |-> {}]
        zeros == [dtype |-> "i8", dims |-> shape, tags |-> {}]
        weights == [y \in {q, sc, zp} |-> IF y = q THEN stored ELSE IF y = sc THEN scales ELSE zeros]
    IN  IF g.noint8 \/ g.opset < 10 THEN StoreFp16(g, x)
        ELSE Prepend(WithInits(WithoutInit(g, x), weights),
                     NewNode(dq, "DequantizeLinear", <<q, sc, zp>>, <<x>>))

\* A weight read by several nodes is converted at most once a pass.
WorthConverting(g, x, level) ==
    /\ x \notin g.conv
    /\ x \in DOMAIN g.inits
    /\ g.inits[x].dtype = "f32"
    /\ Bytes(g.inits[x]) >= MinQuantBytes
    /\ level \in {INT8, INT4} => Len(g.inits[x].dims) >= 2

Convert(g, x, level, consumer) ==
    LET stored == IF level = FP16 THEN StoreFp16(g, x) ELSE StoreInt8(g, x, level, consumer)
    IN  IF WorthConverting(g, x, level) THEN [stored EXCEPT !.conv = @ \cup {x}] ELSE g

\* _apply_weight_quantization: every weight the node reads.
QuantizeWeights(g, a) ==
    LET i == FindNode(g, a.name)
        n == g.nodes[i]
    IN  IF i = 0 THEN g ELSE FoldLeft(LAMBDA h, x : Convert(h, x, a.arg, n), g, n.in)

(***************************************************************************)
(* Neural handlers that change values and shapes.                          *)
(***************************************************************************)
Weight(g, n) == IF Len(n.in) >= 2 /\ n.in[2] \in DOMAIN g.inits THEN n.in[2] ELSE NoName

Tagged(t, tag) == [t EXCEPT !.tags = @ \cup {tag}]

Keep(n, ratio) == Max({1, (n * (10 - ratio)) \div 10})

\* _apply_channel_pruning: the output axis of the weight, and the bias with it.
PruneChannels(g, a) ==
    LET i == FindNode(g, a.name)
        n == g.nodes[i]
        w == Weight(g, n)
        t == g.inits[w]
        axis == IF n.op = "MatMul" /\ Len(t.dims) = 2 THEN 2 ELSE 1
        kept == Keep(t.dims[axis], a.arg)
        slim == WithInit(g, w, Tagged([t EXCEPT !.dims[axis] = kept], "pruned"))
        bias == n.in[3]
    IN  IF i = 0 \/ a.arg <= 0 THEN g
        ELSE IF w = NoName THEN g
        ELSE IF Len(n.in) < 3 THEN slim
        ELSE IF bias \notin DOMAIN g.inits THEN slim
        ELSE IF g.inits[bias].dims[1] # t.dims[axis] THEN slim
        ELSE WithInit(slim, bias, Tagged([g.inits[bias] EXCEPT !.dims[1] = kept], "pruned"))

\* _apply_low_rank_svd: the weight becomes two factors and the node two nodes.
LowRank(g, a) ==
    LET i == FindNode(g, a.name)
        n == g.nodes[i]
        w == Weight(g, n)
        t == g.inits[w]
        r == Min({a.arg, t.dims[1], t.dims[2]})
        v == Append(w, "svd_v")
        mid == Append(n.out[1], "svd_mid")
        factors == [y \in {w, v} |->
                        Tagged([t EXCEPT !.dims[IF y = w THEN 2 ELSE 1] = r], "svd")]
        halved == [WithInits(g, factors) EXCEPT !.nodes[i].out[1] = mid]
        second == NewNode(Append(a.name, "svd_v"), "MatMul", <<mid, v>>, <<n.out[1]>>)
    IN  IF i = 0 THEN g
        ELSE IF w = NoName THEN g
        ELSE IF Len(t.dims) # 2 THEN g
        ELSE [halved EXCEPT !.nodes = InsertAt(@, i + 1, second)]

\* The node that writes a tensor.
WriterAdjacent(g, x) == SelectInSeq(g.nodes, LAMBDA n : Contains(n.in, x)) - 1

Writer(g, x) == SelectInSeq(g.nodes, LAMBDA n : Contains(n.out, x))

\* _apply_bn_fusion: fold a BatchNormalization into the Conv or Gemm that writes
\* its input.  Neither other readers of that output, nor other readers of the
\* weight, are looked at.  A BatchNormalization whose parameters are not
\* initializers makes the handler raise.
FuseBatchNorm(g, a) ==
    LET b == FindNode(g, a.name)
        bn == g.nodes[b]
        p == Writer(g, bn.in[1])
        prev == g.nodes[p]
        w == Weight(g, prev)
        bias == IF Len(prev.in) > 2 THEN prev.in[3] ELSE Append(prev.name, "fused_bias")
        biases == IF Len(prev.in) <= 2 \/ bias \in DOMAIN g.inits THEN {bias} ELSE {}
        folded == [y \in {w} \cup biases |->
                      IF y = bias /\ Len(prev.in) <= 2
                      THEN [dtype |-> "f32", dims |-> g.inits[bn.in[2]].dims, tags |-> {"bn"}]
                      ELSE Tagged(g.inits[y], "bn")]
        heir == [prev EXCEPT !.in = IF Len(@) > 2 THEN @ ELSE Append(@, bias),
                             !.out[1] = bn.out[1]]
        fused == [WithInits(g, folded) EXCEPT !.nodes[p] = heir]
    IN  IF b = 0 THEN g
        ELSE IF bn.op # "BatchNormalization" \/ p = 0 THEN g
        ELSE IF prev.op \notin {"Conv", "Gemm"} \/ w = NoName THEN g
        ELSE IF ~(ToSet(Tail(bn.in)) \subseteq DOMAIN g.inits) THEN [g EXCEPT !.err = TRUE]
        ELSE IF Len(g.inits[w].dims) \notin {2, 4} THEN g
        ELSE [fused EXCEPT !.nodes = RemoveAt(@, b)]

(***************************************************************************)
(* ai.onnx.ml handlers: the parameters are attributes of the node.         *)
(*   nodes   the tree nodes: tree, id, mode and children, one entry each   *)
(*   target  the leaves' weights, each with its tree                       *)
(*   cls     the class weights of a classifier, each with its tree         *)
(*   coefs   the coefficients of a linear model or an SVM                  *)
(*   rounded the precision the values were rounded to                      *)
(***************************************************************************)
MlAttr(g, a) ==
    LET i == FindNodeByType(g, a)
    IN  IF i = 0 THEN <<>> ELSE g.nodes[i].attr

\* A handler that finds no node, or none of its attributes there, returns the graph.
WithAttr(g, a, at) ==
    IF MlAttr(g, a) = <<>> THEN g ELSE [g EXCEPT !.nodes[FindNodeByType(g, a)].attr = at]

\* _filter_attr: the entries of the kept trees, in the node, target and class arrays.
FilterTrees(at, kept) ==
    LET InKept(es) == MembersAt(es, {k \in DOMAIN es : es[k].tree \in kept})
    IN  [at EXCEPT !.nodes = InKept(@), !.target = InKept(@), !.cls = InKept(@)]

\* _apply_tree_pruning: the lowest tree ids stay.
PruneTrees(g, a) ==
    LET at == MlAttr(g, a)
        ids == {at.nodes[k].tree : k \in DOMAIN at.nodes}
        nKeep == Keep(Cardinality(ids), a.arg)
        kept == {t \in ids : Cardinality({u \in ids : u < t}) < nKeep}
    IN  IF a.arg <= 0 THEN g ELSE WithAttr(g, a, FilterTrees(at, kept))

\* _compute_node_depths: breadth first from the first entry of each tree, with no
\* record of what was visited.  Down[d] are the entries met at depth d.
Down(at) ==
    LET Child(k, c) == {j \in DOMAIN at.nodes : at.nodes[j].tree = at.nodes[k].tree
                                              /\ at.nodes[j].id \in c}
        Root(k) == Min({j \in DOMAIN at.nodes : at.nodes[j].tree = at.nodes[k].tree})
        D[d \in 0 .. Len(at.nodes)] ==
            IF d = 0 THEN {Root(k) : k \in DOMAIN at.nodes}
            ELSE UNION {Child(k, {at.nodes[k].yes, at.nodes[k].no}) : k \in D[d - 1]}
    IN  D

\* A leaf whose unused child ids name the root makes the walk endless.
Endless(at) == Down(at)[Len(at.nodes)] # {}

Depth(at, k) == Max({0} \cup {d \in DOMAIN Down(at) : k \in Down(at)[d]})

\* _apply_depth_limiting: deep branches turn into leaves.
LimitDepth(g, a) ==
    LET at == MlAttr(g, a)
        cut == [k \in DOMAIN at.nodes |->
                    IF Depth(at, k) >= a.arg THEN [at.nodes[k] EXCEPT !.mode = "LEAF"]
                    ELSE at.nodes[k]]
    IN  IF at # <<>> /\ Endless(at) THEN [g EXCEPT !.hung = TRUE]
        ELSE WithAttr(g, a, [at EXCEPT !.nodes = cut])

\* _apply_leaf_merging: sorted leaf weights closer than a threshold to the first
\* of their group become the group's mean, here the group's first value.
MergeLeaves(g, a) ==
    LET at == MlAttr(g, a)
        values == SetToSortSeq({at.target[k].w : k \in DOMAIN at.target}, <)
        Heads == FoldLeft(LAMBDA hs, v :
                    IF hs = <<>> THEN <<v>>
                    ELSE IF v - hs[Len(hs)] < at.near THEN hs ELSE Append(hs, v),
                    <<>>, values)
        Group(w) == Max({h \in ToSet(Heads) : h <= w})
    IN  WithAttr(g, a, [at EXCEPT !.target = [k \in DOMAIN @ |-> [@[k] EXCEPT !.w = Group(@)]]])

\* _apply_leaf_quantization and _apply_coefficient_quantization round the values;
\* the attribute keeps its four bytes per value.
RoundLeaves(g, a) == WithAttr(g, a, [MlAttr(g, a) EXCEPT !.rounded = @ \cup {"leaves"}])

RoundCoefficients(g, a) ==
    IF a.arg \notin {FP16, INT8} THEN g
    ELSE WithAttr(g, a, [MlAttr(g, a) EXCEPT !.rounded = @ \cup {"coefs"}])

\* _apply_feature_pruning and _apply_sv_pruning: zero the values below the
\* percentile of the magnitudes (linear interpolation, scaled by ten).
Magnitude(v) == IF v < 0 THEN 0 - v ELSE v

ZeroSmall(g, a) ==
    LET at == MlAttr(g, a)
        n == Len(at.coefs)
        sorted == SortSeq([k \in DOMAIN at.coefs |-> Magnitude(at.coefs[k])], <)
        pos == (n - 1) * a.arg
        low == pos \div 10 + 1
        threshold == 10 * sorted[low]
            + (IF low < n THEN (pos % 10) * (sorted[low + 1] - sorted[low]) ELSE 0)
    IN  IF a.arg <= 0 THEN g
        ELSE WithAttr(g, a, [at EXCEPT !.coefs =
                 [k \in DOMAIN @ |-> IF 10 * Magnitude(@[k]) < threshold THEN 0 ELSE @[k]]])

(***************************************************************************)
(* apply(): a copy of the graph, upgraded when int8 needs a newer opset,   *)
(* then the handlers in the order of their phases.                         *)
(***************************************************************************)
Phases ==
    << {"bn_fusion"},
       {"channel_pruning", "tree_pruning", "feature_pruning",
        "support_vector_pruning", "depth_limiting"},
       {"low_rank_svd", "leaf_merging", "operator_fusion", "activation_fusion",
        "vocabulary_pruning", "embedding_dimension_reduction",
        "sv_coefficient_quantization"},
       {"quantization", "param_quantization", "embedding_quantization",
        "coefficient_quantization", "leaf_quantization"} >>

Ordered(actions) ==
    LET Of(p) == MembersAt(actions, {k \in DOMAIN actions : actions[k].kind \in Phases[p]})
    IN  Of(1) \o Of(2) \o Of(3) \o Of(4)

\* The action types with a handler (_get_handler); the others do nothing.
Handled ==
    {"quantization", "channel_pruning", "low_rank_svd", "bn_fusion",
     "param_quantization", "embedding_quantization", "coefficient_quantization",
     "leaf_quantization", "tree_pruning", "leaf_merging", "depth_limiting",
     "feature_pruning", "support_vector_pruning"}

Handle(g, a) ==
    IF g.err \/ g.hung \/ a.kind \notin Handled THEN g
    ELSE CASE a.kind \in {"quantization", "param_quantization", "embedding_quantization"}
                                                  -> QuantizeWeights(g, a)
           [] a.kind = "channel_pruning"          -> PruneChannels(g, a)
           [] a.kind = "low_rank_svd"             -> LowRank(g, a)
           [] a.kind = "bn_fusion"                -> FuseBatchNorm(g, a)
           [] a.kind = "coefficient_quantization" -> RoundCoefficients(g, a)
           [] a.kind = "leaf_quantization"        -> RoundLeaves(g, a)
           [] a.kind = "tree_pruning"             -> PruneTrees(g, a)
           [] a.kind = "leaf_merging"             -> MergeLeaves(g, a)
           [] a.kind = "depth_limiting"           -> LimitDepth(g, a)
           [] OTHER                               -> ZeroSmall(g, a)

\* conv13: whether onnx's version converter manages this graph.
Start(g, actions) ==
    LET wants == \E k \in DOMAIN actions :
            /\ actions[k].kind \in {"quantization", "param_quantization",
                                    "embedding_quantization"}
            /\ actions[k].arg \in {INT8, INT4}
        old == wants /\ g.opset < 10
    IN  Overlaid([g EXCEPT !.opset = IF old /\ g.conv13 THEN 13 ELSE @],
                 [conv |-> {}, noint8 |-> old /\ ~g.conv13, err |-> FALSE, hung |-> FALSE])

Apply(g, actions) == FoldLeft(Handle, Start(g, actions), Ordered(actions))

(***************************************************************************)
(* ByteSize(): the weights, the values kept in attributes, and a constant  *)
(* share of structure per node.                                            *)
(***************************************************************************)
NodeBytes == 64

AttrBytes(at) ==
    IF at = <<>> THEN 0
    ELSE 4 * (Len(at.nodes) + Len(at.target) + Len(at.cls) + Len(at.coefs))

ByteSize(g) ==
    InitializerBytes(g)
    + SumFunction([i \in Nodes(g) |-> NodeBytes + AttrBytes(g.nodes[i].attr)])
=============================================================================
