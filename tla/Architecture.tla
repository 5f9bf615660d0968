----------------------------- MODULE Architecture ------------------------------
(***************************************************************************)
(* The architecture view of a graph                                        *)
(* (src/app/services/mappers/architecture_mapper.py and layout.py): the    *)
(* operators worth showing, in topological order, edges bridged over the   *)
(* dropped ones, and a position for each node.                             *)
(***************************************************************************)
EXTENDS OnnxGraph

\* op_kind.py: the types with a layer kind; the others are dropped.
ShownOps ==
    {"Conv", "ConvInteger", "ConvTranspose", "Resize", "Upsample", "BatchNormalization",
     "InstanceNormalization", "LayerNormalization", "GroupNormalization", "Relu",
     "LeakyRelu", "Sigmoid", "Tanh", "Gelu", "Selu", "Elu", "Clip", "Softmax",
     "LogSoftmax", "AveragePool", "MaxPool", "GlobalAveragePool", "GlobalMaxPool",
     "MatMul", "MatMulInteger", "Gemm", "Gather", "GatherElements", "LSTM", "GRU", "RNN",
     "Loop", "Scan", "TreeEnsembleClassifier", "TreeEnsembleRegressor", "TreeEnsemble",
     "LinearClassifier", "LinearRegressor", "SVMClassifier", "SVMRegressor"}

\* The names shown, in topological order; a graph with nothing to show is shown whole.
KeptOrder(g) ==
    LET OpOf(n) == g.nodes[SelectLastInSeq(NameList(g), LAMBDA m : m = n)].op
        order == TopologicalOrder(g)
        kept == {k \in DOMAIN order : OpOf(order[k]) \in ShownOps}
    IN  IF kept = {} THEN order ELSE MembersAt(order, kept)

\* kept_successors: the shown operators next downstream, for every operator; memo holds
\* the operators already done, the last ones of the order first.
SuccessorsUnbridged(g, kept) ==
    [n \in ToSet(TopologicalOrder(g)) |-> ToSet(Successors(g, n)) \cap kept]

Bridge(g, kept, memo, n) ==
    Overlaid(memo, [x \in {n} |-> UNION {IF s \in kept THEN {s} ELSE memo[s] :
                                            s \in ToSet(Successors(g, n))}])

KeptSuccessors(g, kept) ==
    FoldLeft(LAMBDA memo, n : Bridge(g, kept, memo, n), [n \in {} |-> {}],
             Reverse(TopologicalOrder(g)))

Edges(g, kept) ==
    LET next == KeptSuccessors(g, kept)
    IN  {e \in kept \X kept : e[2] \in next[e[1]]}

(***************************************************************************)
(* compute_layout: depth is the longest path from a source; the nodes of a *)
(* depth are spread symmetrically in one column, or in a grid when there   *)
(* are more than four.  Offsets are in halves of the column gap.           *)
(***************************************************************************)
GridThreshold == 4

Place(edges, depth, n) ==
    LET before == {depth[e[1]] : e \in {f \in edges : f[2] = n}}
    IN  Overlaid(depth, [x \in {n} |-> IF before = {} THEN 0 ELSE 1 + Max(before)])

Depths(order, edges) ==
    FoldLeft(LAMBDA depth, n : Place(edges, depth, n), [n \in {} |-> 0], order)

Columns(k) == Min({c \in 1 .. k : c * c >= k})

Layout(order, depth) ==
    LET Level(d) == MembersAt(order, {k \in DOMAIN order : depth[order[k]] = d})
        Spread(i, k) == 2 * i - (k - 1)
        Rows(k, c) == (k + c - 1) \div c
        At(n) ==
            LET level == Level(depth[n])
                k == Len(level)
                i == SelectInSeq(level, LAMBDA m : m = n) - 1
                c == Columns(k)
            IN  IF k <= GridThreshold
                THEN [depth |-> depth[n], col |-> Spread(i, k), z |-> 0]
                ELSE [depth |-> depth[n], col |-> Spread(i % c, c),
                      z |-> Spread(i \div c, Rows(k, c))]
    IN  [n \in ToSet(order) |-> At(n)]

(***************************************************************************)
(* The view of any graph of Shapes.                                        *)
(***************************************************************************)
CONSTANT Shapes

VARIABLE viewed

NothingViewed == [shown |-> {}]

ViewInit == viewed = NothingViewed

\* map_architecture: the nodes, the edges between them, then the positions.
View ==
    /\ viewed = NothingViewed
    /\ \E g \in Shapes : \E order \in {KeptOrder(g)} :
        \E edges \in {Edges(g, ToSet(order))} : \E depth \in {Depths(order, edges)} :
            viewed' = [graph |-> g, shown |-> ToSet(order), edges |-> edges,
                       place |-> Layout(order, depth)]

ViewSpec == ViewInit /\ [][View]_viewed

Path(g, p) == \A k \in 1 .. Len(p) - 1 : Contains(Successors(g, p[k]), p[k + 1])

Dropped(g, shown) == {i \in Nodes(g) : OpName(g, i) \notin shown}

\* The view shows the graph's own flow: there is an edge between two shown operators
\* exactly when a path of dropped ones, or nothing, lies between them; every edge
\* leads to a greater depth; no two operators are drawn at one place.
ViewFaithful ==
    viewed # NothingViewed =>
        LET g == viewed.graph
            Between(D) == MembersAt(NameList(g), D)
        IN  /\ viewed.shown # {}
            /\ viewed.edges = {e \in viewed.shown \X viewed.shown :
                                  \E D \in SUBSET Dropped(g, viewed.shown) :
                                      Path(g, <<e[1]>> \o Between(D) \o <<e[2]>>)}
            /\ \A e \in viewed.edges : viewed.place[e[1]].depth < viewed.place[e[2]].depth
            /\ \A a, b \in viewed.shown : viewed.place[a] = viewed.place[b] => a = b
===============================================================================
