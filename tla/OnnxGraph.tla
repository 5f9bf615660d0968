------------------------------ MODULE OnnxGraph ------------------------------
(***************************************************************************)
(* An ONNX graph as the engine sees it, and what the analyzer derives from *)
(* it (src/astra/graph/onnx_analyzer.py).                                  *)
(*                                                                         *)
(* A graph is a record:                                                    *)
(*   nodes    the node list, in file order; a node has a name (possibly    *)
(*            empty), an op type, its input and output tensor names, its   *)
(*            attributes, its group count, and in rows the positions (or   *)
(*            rows) of its output as shape inference knows them            *)
(*   inits    the initializers: a function from names to tensors           *)
(*   ins      the declared graph inputs (old files declare initializers    *)
(*            there too), outs the graph outputs                           *)
(*   opset    the operator-set version                                     *)
(* Names are sequences of strings, so that a derived name such as          *)
(* "{name}_fp16" is the name with "fp16" appended.                         *)
(***************************************************************************)
EXTENDS Integers, SequencesExt, Selections

NoName == <<>>

(***************************************************************************)
(* Tensors: element type, dimensions, and the set of value changes made to *)
(* them since the file was read (a fusion, a pruning, a rounding).         *)
(***************************************************************************)
Width == [f32 |-> 4, f16 |-> 2, i8 |-> 1, i64 |-> 8]

Size(t) == FoldLeft(LAMBDA n, d : n * d, 1, t.dims)
Bytes(t) == Size(t) * Width[t.dtype]

\* initializer_bytes: the stored bytes of all weights.
InitializerBytes(g) ==
    SumFunction([x \in DOMAIN g.inits |-> Bytes(g.inits[x])])

(***************************************************************************)
(* What any ONNX file is: lists of nodes and of a node's inputs, tensors   *)
(* of a known element type, attributes that are lists, and at least the    *)
(* scale among a normalization's parameters.                               *)
(***************************************************************************)
IsList(s) == s \in Seq(ToSet(s))

WellFormedTensor(t) ==
    /\ {"dtype", "dims", "tags"} \subseteq DOMAIN t
    /\ t.dtype \in DOMAIN Width /\ t.dims \in Seq(Nat)

WellFormedAttr(at) ==
    at = <<>> \/ \A f \in {"nodes", "target", "cls", "coefs"} : f \in DOMAIN at /\ IsList(at[f])

WellFormedNode(n) ==
    /\ {"name", "op", "in", "out", "attr"} \subseteq DOMAIN n
    /\ IsList(n.in) /\ WellFormedAttr(n.attr)
    /\ n.op = "BatchNormalization" => Len(n.in) >= 2

WellFormed(g) ==
    /\ {"nodes", "inits", "ins", "outs", "opset"} \subseteq DOMAIN g
    /\ IsList(g.nodes) /\ \A n \in ToSet(g.nodes) : WellFormedNode(n)
    /\ IsFiniteSet(DOMAIN g.inits) /\ \A x \in DOMAIN g.inits : WellFormedTensor(g.inits[x])

(***************************************************************************)
(* Names and lookups.                                                      *)
(***************************************************************************)
Nodes(g) == DOMAIN g.nodes

\* The analyzer names an unnamed node by its type and its position.
OpName(g, i) ==
    IF g.nodes[i].name # NoName THEN g.nodes[i].name
    ELSE <<g.nodes[i].op, ToString(i - 1)>>

NameList(g) == [i \in Nodes(g) |-> OpName(g, i)]
Names(g) == {OpName(g, i) : i \in Nodes(g)}

\* output_to_node: the last node of the list that writes a tensor wins.
Producer(g, x) ==
    SelectLastInSeq(g.nodes, LAMBDA n : \E k \in DOMAIN n.out : n.out[k] = x)

(***************************************************************************)
(* Categories (_CATEGORY_MAP, _classify_operator).                         *)
(***************************************************************************)
CategoryMembers ==
    [ dense_compute |-> {"Conv", "ConvTranspose", "MatMul", "Gemm",
                         "MatMulInteger", "ConvInteger"},
      normalization |-> {"BatchNormalization", "LayerNormalization",
                         "InstanceNormalization", "GroupNormalization"},
      activation    |-> {"Relu", "LeakyRelu", "Sigmoid", "Tanh", "Gelu", "Selu",
                         "Softmax", "Elu"},
      pooling       |-> {"AveragePool", "MaxPool", "GlobalAveragePool",
                         "GlobalMaxPool"},
      embedding     |-> {"Gather", "GatherElements"},
      data_movement |-> {"Reshape", "Transpose", "Concat", "Split", "Slice",
                         "Pad", "Flatten", "Squeeze", "Unsqueeze"},
      tree_ensemble |-> {"TreeEnsembleClassifier", "TreeEnsembleRegressor",
                         "TreeEnsemble"},
      linear_model  |-> {"LinearClassifier", "LinearRegressor"},
      svm           |-> {"SVMClassifier", "SVMRegressor"},
      preprocessing |-> {"Normalizer", "Scaler", "OneHotEncoder", "LabelEncoder",
                         "Binarizer", "Imputer", "ZipMap"} ]

\* Every ai.onnx.ml operator with Tree, Linear or SVM in its name is in the map.
Category(n) ==
    IF \E c \in DOMAIN CategoryMembers : n.op \in CategoryMembers[c]
    THEN CHOOSE c \in DOMAIN CategoryMembers : n.op \in CategoryMembers[c]
    ELSE IF n.ml THEN "preprocessing" ELSE "other"

CompressibleCategories ==
    {"dense_compute", "normalization", "activation", "embedding",
     "tree_ensemble", "linear_model", "svm"}

(***************************************************************************)
(* analyze(): one OperatorInfo per node, in file order.                    *)
(***************************************************************************)
\* A tensor read twice by a node is counted twice.
ParamCount(g, n) ==
    FoldLeft(LAMBDA c, x : IF x \in DOMAIN g.inits THEN c + Size(g.inits[x]) ELSE c,
             0, n.in)

\* _estimate_flops.  The shape map holds inputs, outputs and inferred values, not
\* initializers: a product with a weight that is no declared input counts nothing.
Flops(g, n) ==
    LET weight == Len(n.in) >= 2 /\ n.in[2] \in DOMAIN g.inits
        w == g.inits[n.in[2]]
    IN  CASE n.op \in {"Conv", "ConvTranspose"} ->
                IF weight THEN 2 * n.rows * (Size(w) \div w.dims[2]) * (w.dims[2] \div n.group)
                ELSE 0
          [] n.op \in {"MatMul", "Gemm"} ->
                IF ~weight THEN 2 * n.rows
                ELSE IF n.in[2] \in g.ins THEN 2 * n.rows * Size(w) ELSE 0
          [] n.op \in {"BatchNormalization", "LayerNormalization"} -> 4 * n.rows
          [] OTHER -> 0

Operators(g) ==
    [i \in Nodes(g) |->
        [ name |-> OpName(g, i),
          op   |-> g.nodes[i].op,
          ml   |-> g.nodes[i].ml,
          cat  |-> Category(g.nodes[i]),
          params |-> ParamCount(g, g.nodes[i]),
          flops  |-> Flops(g, g.nodes[i]),
          attr   |-> g.nodes[i].attr,
          compressible |-> Category(g.nodes[i]) \in CompressibleCategories ]]

Compressible(ops) == MembersAt(ops, {i \in DOMAIN ops : ops[i].compressible})

\* _build_adjacency: the operators that read what an operator writes, each once.
Successors(g, name) ==
    LET Reads(i) == \E k \in DOMAIN g.nodes[i].in :
            LET p == Producer(g, g.nodes[i].in[k])
            IN  p > 0 /\ OpName(g, p) = name
    IN  Once(MembersAt(NameList(g), {i \in Nodes(g) : Reads(i)}))

\* _topological_sort: Kahn's algorithm over the operators' names.
Adjacency(g) == [n \in Names(g) |-> Successors(g, n)]

Pop(adj, s) ==
    LET n == Head(s.queue)
        freed == {k \in DOMAIN adj[n] : s.degree[adj[n][k]] = 1}
    IN  IF s.queue = <<>> THEN s
        ELSE [ queue  |-> Tail(s.queue) \o MembersAt(adj[n], freed),
               degree |-> [m \in DOMAIN adj |->
                              IF Contains(adj[n], m) THEN s.degree[m] - 1 ELSE s.degree[m]],
               order  |-> Append(s.order, n) ]

Unqueued(g) ==
    LET adj == Adjacency(g)
        names == Once(NameList(g))
        degree == [n \in Names(g) |-> Cardinality({m \in Names(g) : Contains(adj[m], n)})]
    IN  [queue |-> MembersAt(names, {k \in DOMAIN names : degree[names[k]] = 0}),
         degree |-> degree, order |-> <<>>]

TopologicalOrder(g) ==
    LET adj == Adjacency(g)
    IN  FoldLeft(LAMBDA s, n : Pop(adj, s), Unqueued(g), g.nodes).order

(***************************************************************************)
(* Reference notions the properties are stated with.                       *)
(***************************************************************************)
\* onnxruntime loads a graph when every tensor a node reads is a weight, an
\* input, or written by an earlier node, every output is written, and no tensor
\* has two sources.
Runnable(g) ==
    LET Written(i) == UNION {ToSet(g.nodes[j].out) : j \in 1 .. i - 1}
        given == DOMAIN g.inits \cup g.ins
    IN  /\ \A i \in Nodes(g) : ToSet(g.nodes[i].in) \subseteq given \cup Written(i)
        /\ g.outs \subseteq Written(Len(g.nodes) + 1)
        /\ \A i \in Nodes(g) : ToSet(g.nodes[i].out) \cap (given \cup Written(i)) = {}
=============================================================================
