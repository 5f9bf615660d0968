------------------------------- MODULE MCEngine -------------------------------
(***************************************************************************)
(* Pipeline over a catalogue of small graphs.  Weights of 256 elements and *)
(* more are above the 1024 bytes below which the transformer converts      *)
(* nothing.                                                                *)
(***************************************************************************)
EXTENDS Pipeline, Transform, Architecture, MCWeights

N(name, op, in, out, rows) ==
    [name |-> name, op |-> op, ml |-> FALSE, in |-> in, out |-> out, rows |-> rows,
     group |-> 1, attr |-> <<>>]

Ml(name, op, in, out, attr) == [N(name, op, in, out, 0) EXCEPT !.ml = TRUE, !.attr = attr]

W(dims) == [dtype |-> "f32", dims |-> dims, tags |-> {}]

G(nodes, inits, outs) ==
    [nodes |-> nodes, inits |-> inits, ins |-> {<<"x">>}, outs |-> outs,
     opset |-> 17, conv13 |-> TRUE]

\* Two layers; the second has the more parameters.
Mlp == G(<<N(<<"fc1">>, "Gemm", <<<<"x">>, <<"w1">>, <<"b1">>>>, <<<<"h">>>>, 10),
           N(<<"fc2">>, "Gemm", <<<<"h">>, <<"w2">>, <<"b2">>>>, <<<<"y">>>>, 20)>>,
         <<"w1">> :> W(<<32, 16>>) @@ <<"b1">> :> W(<<32>>)
         @@ <<"w2">> :> W(<<40, 32>>) @@ <<"b2">> :> W(<<40>>),
         {<<"y">>})

\* A convolution whose output is read by its BatchNormalization and by a skip.
Skip == G(<<N(<<"conv">>, "Conv", <<<<"x">>, <<"cw">>>>, <<<<"h">>>>, 30),
            N(<<"bn">>, "BatchNormalization",
              <<<<"h">>, <<"g">>, <<"b">>, <<"m">>, <<"v">>>>, <<<<"n">>>>, 2),
            N(<<"add">>, "Add", <<<<"n">>, <<"h">>>>, <<<<"y">>>>, 1)>>,
          <<"cw">> :> W(<<4, 8, 3, 3>>) @@ <<"g">> :> W(<<4>>) @@ <<"b">> :> W(<<4>>)
          @@ <<"m">> :> W(<<4>>) @@ <<"v">> :> W(<<4>>),
          {<<"y">>})

\* An embedding whose table is the output layer's weight too.
Tied == G(<<N(<<"emb">>, "Gather", <<<<"E">>, <<"x">>>>, <<<<"h">>>>, 1),
            N(<<"head">>, "MatMul", <<<<"h">>, <<"E">>>>, <<<<"y">>>>, 10)>>,
          <<"E">> :> W(<<32, 32>>), {<<"y">>})

TreeNode(t, id, mode, yes, no) == [tree |-> t, id |-> id, mode |-> mode, yes |-> yes, no |-> no]
Leaf(t, w) == [tree |-> t, w |-> w]

\* Two trees of a branch and two leaves; child is what a leaf names as its children.
Forest(w, child) ==
    [nodes |-> <<TreeNode(0, 0, "BRANCH_LEQ", 1, 2), TreeNode(0, 1, "LEAF", child, child),
                 TreeNode(0, 2, "LEAF", child, child), TreeNode(3, 0, "BRANCH_LEQ", 1, 2),
                 TreeNode(3, 1, "LEAF", child, child), TreeNode(3, 2, "LEAF", child, child)>>,
     target |-> <<Leaf(0, w), Leaf(0, w + 1), Leaf(3, w + 4), Leaf(3, w + 9)>>,
     cls |-> <<>>, coefs |-> <<>>, rounded |-> {}, near |-> 2]

Classifier == [Forest(5, -1) EXCEPT !.cls = <<Leaf(0, 5), Leaf(0, 6), Leaf(3, 9), Leaf(3, 14)>>,
                                   !.target = <<>>]

NoTrees == [Classifier EXCEPT !.nodes = <<>>, !.cls = <<>>]

\* Two unnamed ensembles of one type: neither is found by its name.
Forests == G(<<Ml(NoName, "TreeEnsembleRegressor", <<<<"x">>>>, <<<<"t">>>>, Forest(1, 0)),
               Ml(NoName, "TreeEnsembleRegressor", <<<<"t">>>>, <<<<"y">>>>, Forest(20, -1))>>,
             [x \in {} |-> 0], {<<"y">>})

\* A model older than DequantizeLinear that cannot be upgraded, whose weights are
\* declared as inputs too.
Old == [G(<<N(<<"mm">>, "MatMul", <<<<"x">>, <<"w">>>>, <<<<"y">>>>, 5)>>,
          <<"w">> :> W(<<16, 32>>), {<<"y">>})
        EXCEPT !.opset = 9, !.conv13 = FALSE, !.ins = {<<"x">>, <<"w">>}]

Plain == G(<<N(<<"sum">>, "Add", <<<<"x">>, <<"x">>>>, <<<<"y">>>>, 1)>>,
           [x \in {} |-> 0], {<<"y">>})

\* A normalization whose parameters are computed, and a graph that does not load.
Computed == [Skip EXCEPT !.nodes = <<N(<<"scale">>, "Abs", <<<<"x">>>>, <<<<"g">>>>, 1)>> \o @,
                         !.inits = [x \in DOMAIN @ \ {<<"g">>} |-> @[x]]]

Broken == [Plain EXCEPT !.nodes = <<N(<<"mm">>, "MatMul", <<<<"x">>, <<"gone">>>>, <<<<"y">>>>, 5)>>]

Catalogue == {Mlp, Skip, Tied, Forests, Old, Plain, Computed, Broken}

NoPruning == {0}
Rungs == LadderV2

(***************************************************************************)
(* For single passes of the transformer: the catalogue and more.           *)
(***************************************************************************)
\* One weight per output channel, with a bias and a normalization of its own; a
\* small layer between them in the node list.
Depthwise ==
    G(<<N(<<"dw">>, "Conv", <<<<"x">>, <<"k">>, <<"kb">>>>, <<<<"h">>>>, 5),
        N(<<"temp">>, "Gemm", <<<<"x">>, <<"t">>>>, <<<<"s">>>>, 1),
        N(<<"bn">>, "BatchNormalization",
          <<<<"h">>, <<"g">>, <<"b">>, <<"m">>, <<"v">>>>, <<<<"n">>>>, 2),
        N(<<"mul">>, "Mul", <<<<"n">>, <<"s">>>>, <<<<"y">>>>, 1)>>,
      <<"t">> :> W(<<1, 1>>) @@ <<"k">> :> W(<<256, 1, 1, 1>>) @@ <<"kb">> :> W(<<256>>) @@ <<"g">> :> W(<<256>>)
      @@ <<"b">> :> W(<<256>>) @@ <<"m">> :> W(<<256>>) @@ <<"v">> :> W(<<256>>),
      {<<"y">>})

\* A tree classifier and a linear model.
Classic ==
    G(<<Ml(<<"trees">>, "TreeEnsembleClassifier", <<<<"x">>>>, <<<<"t">>>>, Classifier),
        Ml(<<"lin">>, "LinearRegressor", <<<<"t">>>>, <<<<"y">>>>,
           [NoTrees EXCEPT !.coefs = <<-3, 1, 2, 8>>])>>,
      [x \in {} |-> 0], {<<"y">>})

\* The search's graphs and these, and a result that has been compressed already:
\* the names a conversion would take are taken.
Passes == {Mlp, Skip, Tied, Forests, Old, Depthwise, Classic, Computed,
           [Mlp EXCEPT !.inits = <<"w1", "fp16">> :> W(<<2>>) @@ <<"w1", "q">> :> W(<<2>>) @@ @]}

Asked ==
    { NoCompression,
      [NoCompression EXCEPT !.prec = FP16],
      [NoCompression EXCEPT !.prec = INT8],
      [NoCompression EXCEPT !.fuse = TRUE],
      [NoCompression EXCEPT !.prec = INT4, !.prune = 5],
      [NoCompression EXCEPT !.prec = FP16, !.prune = 9, !.fuse = TRUE],
      [NoCompression EXCEPT !.prec = INT8, !.fuse = TRUE, !.rank = 1] }

(***************************************************************************)
(* For the architecture view: every flow graph of four operators, some of  *)
(* them not shown, and two wide ones.                                      *)
(***************************************************************************)
Shape(n, flow, shown) ==
    LET Id(i) == ToString(i)
        In(i) == <<<<"x">>>> \o SetToSeq({<<"t", Id(j)>> : j \in {k \in 1 .. n : <<k, i>> \in flow}})
    IN  G([i \in 1 .. n |-> N(<<Id(i)>>, IF i \in shown THEN "Relu" ELSE "Reshape",
                              In(i), <<<<"t", Id(i)>>>>, 1)],
          [x \in {} |-> 0], {<<"t", Id(n)>>})

Forward(n) == {e \in (1 .. n) \X (1 .. n) : e[1] < e[2]}

FlowGraphs ==
    {Shape(4, flow, shown) : flow \in SUBSET Forward(4), shown \in {{}, {1, 4}, {1, 2, 4}, {1, 3}}}
    \cup {Shape(n, {<<1, i>> : i \in 2 .. n}, 1 .. n) : n \in {6, 8}}

(***************************************************************************)
(* A run of the pipeline, a pass of the transformer, a view, or the way of *)
(* one file and the weight-only pipeline.                                  *)
(***************************************************************************)
RunInit == Init /\ TransformInit /\ ViewInit /\ WeightInit

\* Two of the graphs are compressed with interrupts, the others to the end.
SomeAreCancelled ==
    cancel = {} \/ pc = "ingest" \/ graph \in {Tied, Old}

RunNext ==
    \/ /\ TransformInit /\ ViewInit /\ WeightInit /\ Next /\ SomeAreCancelled'
       /\ UNCHANGED <<transformVars, viewed, weightVars>>
    \/ /\ Init /\ ViewInit /\ WeightInit /\ TransformNext
       /\ UNCHANGED <<vars, viewed, weightVars>>
    \/ /\ Init /\ TransformInit /\ WeightInit /\ View
       /\ UNCHANGED <<vars, transformVars, weightVars>>
    \/ /\ Init /\ TransformInit /\ ViewInit /\ WeightNext
       /\ UNCHANGED <<vars, transformVars, viewed>>

RunSpec == RunInit /\ [][RunNext]_<<vars, transformVars, viewed, weightVars>>
===============================================================================
