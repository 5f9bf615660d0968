------------------------------- MODULE Transform -------------------------------
(***************************************************************************)
(* One pass of OnnxTransformer.apply, a step per handler, over the whole   *)
(* vocabulary of configurations: the search samples a part of it, the      *)
(* library's callers may ask for all of it (pruning, ranks, int4).         *)
(***************************************************************************)
EXTENDS Compression

CONSTANTS
    Inputs,    \* the graphs
    OpConfigs  \* what may be asked of one operator

\* The inputs are ONNX graphs; ratios and ranks are numbers.
ASSUME TransformAssumption ==
    /\ \A g \in Inputs : WellFormed(g)
    /\ \A c \in OpConfigs : c.prune \in Nat /\ c.rank \in Nat

VARIABLES
    input,   \* the graph given to apply(), NoGraph before
    asked,   \* the actions given to it
    made,    \* the copy under transformation
    todo     \* the actions left, in the order of their phases

transformVars == <<input, asked, made, todo>>

NoGraph == [nodes |-> <<>>]

TransformInit == input = NoGraph /\ asked = <<>> /\ made = NoGraph /\ todo = <<>>

TransformBegin ==
    /\ input = NoGraph
    /\ \E g \in Inputs :
        LET ops == Compressible(Operators(g))
        IN  \E config \in [{o.name : o \in ToSet(ops)} -> OpConfigs] :
                /\ input' = g
                /\ asked' = ActionsOf(ops, config)
                /\ made' = Start(g, asked')
                /\ todo' = Ordered(asked')

TransformStep ==
    /\ todo # <<>>
    /\ ~made.err /\ ~made.hung
    /\ made' = Handle(made, Head(todo))
    /\ todo' = Tail(todo)
    /\ UNCHANGED <<input, asked>>

TransformNext == TransformBegin \/ TransformStep

(***************************************************************************)
(* Properties.                                                             *)
(***************************************************************************)
Applied == input # NoGraph /\ ~made.err

\* Readers of a tensor among the nodes of a graph.
Readers(g, x) == {i \in Nodes(g) : Contains(g.nodes[i].in, x)}

\* A BatchNormalization whose fusion was asked for and whose input somebody else
\* needs: fusing it takes that tensor away.
SharedBatchNorm ==
    \E k \in {k \in DOMAIN asked : asked[k].kind = "bn_fusion"} :
        LET i == FindNode(input, asked[k].name)
            x == input.nodes[i].in[1]
        IN  i # 0 /\ (Cardinality(Readers(input, x)) > 1 \/ x \in input.outs)

\* Pruning and cutting take a tree's nodes, leaf weights and class weights away
\* together, and leave a tree.
TreesConsistent ==
    Applied =>
        \A i \in {j \in Nodes(made) : made.nodes[j].attr # <<>>} :
            LET at == made.nodes[i].attr
                TreesOf(s) == {s[k].tree : k \in DOMAIN s}
            IN  /\ TreesOf(at.nodes) = TreesOf(at.target) \cup TreesOf(at.cls)
                /\ at.coefs = <<>> => at.nodes # <<>>

\* After every handler the graph is still wired: a tensor a node reads is a weight,
\* an input or written by an earlier node, and has one source; moving a weight
\* behind a Cast or a DequantizeLinear, splitting a node for a low rank and
\* removing a BatchNormalization must all keep the list in order.  The exception
\* is a BatchNormalization whose input has another reader.  A tree ensemble stays in
\* one piece.
StaysWired ==
    /\ Applied => Runnable(made) \/ ~Runnable(input) \/ SharedBatchNorm
    /\ TreesConsistent

\* The initializers an action may touch: those its own node reads, for a fusion
\* those of the producer it folds into; by type, when a node has no name.
Reach(a) ==
    LET i == FindNode(input, a.name)
        Weights(j) == ToSet(input.nodes[j].in) \cap DOMAIN input.inits
        producers == {j \in Nodes(input) : Contains(input.nodes[j].out, input.nodes[i].in[1])}
    IN  IF i = 0 THEN {}
        ELSE IF a.kind = "bn_fusion" THEN Weights(i) \cup UNION {Weights(j) : j \in producers}
        ELSE Weights(i)

\* A weight nobody asked to change is in the result, bit for bit.
OnlyAskedChanges ==
    Applied =>
        \A x \in DOMAIN input.inits :
            (\E k \in DOMAIN asked : x \in Reach(asked[k]))
            \/ (x \in DOMAIN made.inits /\ made.inits[x] = input.inits[x])

\* The tensors a conversion of weight x stores: the values, and for int8 a scale and
\* a zero point.
Stored(x, parts) ==
    {y \in DOMAIN made.inits \ DOMAIN input.inits :
                               /\ Len(y) > Len(x) /\ SubSeq(y, 1, Len(x)) = x
                               /\ y[Len(x) + 1] \in parts}

TotalBytes(xs) == SumFunction([y \in xs |-> Bytes(made.inits[y])])

\* A converted weight takes less room than its values did, however it is stored:
\* float16 or int8, per tensor or per channel.  A convolution with one weight per
\* output channel is the exception: its scales outweigh the gain.
ConvertedShrinks ==
    Applied =>
        \A x \in made.conv : \A y \in Stored(x, {"fp16", "q"}) :
            LET t == made.inits[y]
            IN  \/ TotalBytes(Stored(x, {"fp16", "q", "scale", "zp"})) < Size(t) * Width.f32
                \/ Len(t.dims) = 4 /\ Size(t) = t.dims[1]
===============================================================================
