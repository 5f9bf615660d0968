------------------------------- MODULE WeightOnly ------------------------------
(***************************************************************************)
(* The worker's way with one file, and the weight-only pipeline            *)
(* (src/app/engine/statedict_pipeline.py) for a file that cannot be        *)
(* executed: its tensors grouped into layers, each layer judged by the     *)
(* damage int8 does to its heaviest tensor, the layers' graph drawn, and   *)
(* the matrices stored as int8.                                            *)
(*                                                                         *)
(* A tensor: its key (a sequence of segments; slashed when they are joined *)
(* by "/"), its dimensions, size, element type, and the SQNR in decibels   *)
(* int8 would leave it with.                                               *)
(***************************************************************************)
EXTENDS Formats

CONSTANT Files   \* the files that arrive

Tensors == [key : Seq(STRING) \ {<<>>}, slashed : BOOLEAN, ndim : Nat, size : Nat,
            type : STRING, sqnr : Int]

\* A layer as a container stores it: the layers it reads, by name, or the blobs it
\* reads and writes.
StoredLayers ==
    [name : Seq(STRING) \ {<<>>}, reads : Seq(Seq(STRING)), blobs : Seq(STRING),
     writes : Seq(STRING)]

\* What the readers hand over: tensors in order and, of a container with a layer
\* graph (a GGUF file has none), a layer for every tensor.  Keras and CoreML give
\* each layer of a model a name of its own.
Readable(f) ==
    /\ f.tensors \in Seq(Tensors) /\ f.layers \in Seq(StoredLayers)
    /\ f.ext = ".gguf" => f.layers = NoGraphStored
    /\ \A i, j \in DOMAIN f.layers : f.layers[i].name = f.layers[j].name => i = j
    /\ f.layers # NoGraphStored =>
          \A t \in ToSet(f.tensors) : \E l \in ToSet(f.layers) : l.name[1] = t.key[1]

\* An executable file is called what it is, where capabilities.py lists its name, and
\* nobody declares the shape of an uploaded file's input.
WellNamed(f) ==
    /\ f.uploaded => ~f.shaped
    /\ Tier(f.ext) # "unknown" =>
          /\ f.body = "graph" => f.ext = ".onnx" \/ Tier(f.ext) = "convertible"
          /\ f.body = "estimator" => f.ext \in {".pkl", ".joblib"} /\ f.head \notin {"torch_zip", "hdf5"}
          /\ f.body = "module" => f.ext \in TorchExts

ASSUME WeightAssumption == \A f \in Files : Readable(f) /\ WellNamed(f)

VARIABLES
    stage,   \* "new", "ingested", "measured", "packed", or how it ended
    source,  \* the file, once dispatched
    specs,   \* the layers: [name, inputs, keys]
    sqnr,    \* what each measured layer was measured at
    view,    \* the drawing: [edges, depth], NoView before
    packed   \* the positions of the tensors stored as int8

weightVars == <<stage, source, specs, sqnr, view, packed>>

NoFile == FileOf("none", "none", "none")
NoView == [edges |-> {}, depth |-> <<>>]

WeightInit ==
    /\ stage = "new" /\ source = NoFile /\ specs = <<>> /\ sqnr = <<>>
    /\ view = NoView /\ packed = {}

\* check_cancel between the phases.
OrCancelled(next) == stage' \in {next, "cancelled"}

(***************************************************************************)
(* Layers.                                                                 *)
(***************************************************************************)
ParamSuffixes ==
    {"weight", "bias", "running_mean", "running_var", "num_batches_tracked",
     "weight_ih_l0", "weight_hh_l0", "bias_ih_l0", "bias_hh_l0",
     "gamma", "beta", "moving_mean", "moving_variance", "kernel"}

\* nn.DataParallel saves everything under "module.".
Stripped(t) == IF t.key[1] = "module" /\ ~t.slashed THEN Tail(t.key) ELSE t.key

LayerPath(t) ==
    LET key == Stripped(t)
    IN  IF t.slashed THEN <<key[1]>>
        ELSE IF Len(key) > 1 /\ key[Len(key)] \in ParamSuffixes THEN Front(key) ELSE key

Chain(names) == [i \in DOMAIN names |-> IF i = 1 THEN <<>> ELSE <<names[i - 1]>>]

\* _bundle_from_flat_tensors: the layers in order of appearance, each following the
\* one before; the keys it lists are the stripped ones.
FlatLayers(tensors) ==
    LET paths == Once([k \in DOMAIN tensors |-> LayerPath(tensors[k])])
        Own(p) == {k \in DOMAIN tensors : LayerPath(tensors[k]) = p}
    IN  [i \in DOMAIN paths |->
            [name |-> paths[i], inputs |-> Chain(paths)[i],
             keys |-> {Stripped(tensors[k]) : k \in Own(paths[i])}]]

\* _layers_from_keras_config: inbound layers, else the layer listed before.
KerasLayers(f) ==
    LET keys(name) == {f.tensors[k].key : k \in {j \in DOMAIN f.tensors :
                                                    f.tensors[j].key[1] = name[1]}}
        names == [i \in DOMAIN f.layers |-> f.layers[i].name]
    IN  [i \in DOMAIN f.layers |->
            [name |-> names[i], keys |-> keys(names[i]),
             inputs |-> IF f.layers[i].reads # <<>> THEN f.layers[i].reads
                        ELSE Chain(names)[i]]]

\* load_coreml: a layer reads the layers that last wrote its input blobs.
CoreMLLayers(f) ==
    LET Writer(i, blob) == {j \in 1 .. i - 1 : blob \in ToSet(f.layers[j].writes)}
        Read(i) == MembersAt(f.layers[i].blobs,
                             {k \in DOMAIN f.layers[i].blobs :
                                 Writer(i, f.layers[i].blobs[k]) # {}})
    IN  [i \in DOMAIN f.layers |->
            [name |-> f.layers[i].name,
             keys |-> {t.key : t \in {u \in ToSet(f.tensors) : u.key[1] = f.layers[i].name[1]}},
             inputs |-> [k \in DOMAIN Read(i) |->
                            f.layers[Max(Writer(i, Read(i)[k]))].name]]]

\* load_gguf: one layer per tensor, chained; a quantized tensor has no float weights.
GgufLayers(f) ==
    LET names == [i \in DOMAIN f.tensors |-> f.tensors[i].key]
    IN  [i \in DOMAIN f.tensors |->
            [name |-> names[i], inputs |-> Chain(names)[i],
             keys |-> IF f.tensors[i].type = "quantized" THEN {} ELSE {names[i]}]]

Layers(f) ==
    IF f.ext = ".gguf" THEN GgufLayers(f)
    ELSE IF f.layers = NoGraphStored THEN FlatLayers(f.tensors)
    ELSE IF f.ext = ".mlmodel" THEN CoreMLLayers(f) ELSE KerasLayers(f)

\* The tensors as the loaders hand them over: CoreML's and GGUF's are flattened, and
\* a GGUF bundle holds the float ones only.
Loaded(f) ==
    LET Flat(t) == IF f.ext \in {".mlmodel", ".gguf"} THEN [t EXCEPT !.ndim = 1] ELSE t
    IN  [k \in DOMAIN f.tensors |-> Flat(f.tensors[k])]

Held(f) == {k \in DOMAIN f.tensors : f.tensors[k].type # "quantized"}

(***************************************************************************)
(* Measurement.                                                            *)
(***************************************************************************)
\* The largest tensor of at least two dimensions, else the largest; the first wins.
HeaviestOfAll(f, keys) ==
    LET own == {k \in Held(f) : f.tensors[k].key \in keys /\ f.tensors[k].size > 0}
        Larger(j, k) == \/ f.tensors[j].size > f.tensors[k].size
                        \/ f.tensors[j].size = f.tensors[k].size /\ j < k
    IN  {k \in own : ~\E j \in own : Larger(j, k)}

Heaviest(f, keys) ==
    LET own == {k \in Held(f) : f.tensors[k].key \in keys /\ f.tensors[k].size > 0}
        matrices == {k \in own : Loaded(f)[k].ndim >= 2}
        judged == IF matrices # {} THEN matrices ELSE own
        Larger(j, k) == \/ f.tensors[j].size > f.tensors[k].size
                        \/ f.tensors[j].size = f.tensors[k].size /\ j < k
    IN  {k \in judged : ~\E j \in judged : Larger(j, k)}

Measurements(f, layers) ==
    LET judged == {i \in DOMAIN layers : Heaviest(f, layers[i].keys) # {}}
    IN  [i \in judged |-> f.tensors[CHOOSE k \in Heaviest(f, layers[i].keys) : TRUE].sqnr]

RiskLevel == IF \E i \in DOMAIN sqnr : sqnr[i] < 20 THEN "review" ELSE "safe"

(***************************************************************************)
(* The drawing.                                                            *)
(***************************************************************************)
Named(layers) == {layers[i].name : i \in DOMAIN layers}

HasTopology(f) == f.layers # NoGraphStored \/ f.ext = ".gguf"

Branches(f, layers) == HasTopology(f) /\ \E i \in DOMAIN layers : layers[i].inputs # <<>>

\* by_name: of the layers of a name, the last one.
LayerAt(layers, p) == Max({i \in DOMAIN layers : layers[i].name = p})

Parents(layers, i) ==
    MembersAt(layers[i].inputs,
              {k \in DOMAIN layers[i].inputs : layers[i].inputs[k] \in Named(layers)})

\* A call of resolve: for a layer, from those on its path, with the depths known so far,
\* 0 for none.
Calls(layers) ==
    [layer : DOMAIN layers, path : SUBSET DOMAIN layers, memo : [DOMAIN layers -> Nat]]

Descend(resolve, path, memo, i) == resolve[[layer |-> i, path |-> path, memo |-> memo]]

\* The depths known after the call: depth first, those of the layers it reads and its own;
\* a layer met again on its own path counts 0.
Resolved(layers, resolve, call) ==
    LET parents == Parents(layers, call.layer)
        path == call.path \cup {call.layer}
        after == FoldLeft(LAMBDA memo, p : Descend(resolve, path, memo, LayerAt(layers, p)),
                          call.memo, parents)
    IN  IF call.memo[call.layer] # 0 \/ call.layer \in call.path THEN call.memo
        ELSE [after EXCEPT ![call.layer] =
                 1 + Max({0} \cup {after[LayerAt(layers, p)] : p \in ToSet(parents)})]

\* _topo_depths.
TopoDepths(layers) ==
    LET resolve[call \in Calls(layers)] == Resolved(layers, resolve, call)
    IN  FoldLeft(LAMBDA memo, i : Descend(resolve, {}, memo, i),
                 [i \in DOMAIN layers |-> 0], [i \in DOMAIN layers |-> i])

InNode == 0
OutNode(layers) == Len(layers) + 1

Inner(layers) ==
    {e \in (DOMAIN layers) \X (DOMAIN layers) : Contains(layers[e[2]].inputs, layers[e[1]].name)}

RootsWithoutInputs(layers) == {i \in DOMAIN layers : layers[i].inputs = <<>>}

Roots(layers) == {i \in DOMAIN layers : ToSet(layers[i].inputs) \cap Named(layers) = {}}

Unconsumed(layers) == {i \in DOMAIN layers : ~\E j \in DOMAIN layers : <<i, j>> \in Inner(layers)}

Drawing(f, layers) ==
    IF Branches(f, layers)
    THEN [edges |-> ({InNode} \X Roots(layers)) \cup Inner(layers)
                    \cup (Unconsumed(layers) \X {OutNode(layers)}),
          depth |-> TopoDepths(layers)]
    ELSE [edges |-> {<<i, i + 1>> : i \in 0 .. Len(layers)},
          depth |-> [i \in DOMAIN layers |-> i]]

(***************************************************************************)
(* The steps.                                                              *)
(***************************************************************************)
Arrive ==
    /\ stage = "new"
    /\ \E f \in Files :
        LET sent == IF f.uploaded THEN f ELSE Synthesized(f)
            way == Dispatch(sent)
        IN  /\ source' = IF way.to = "failed" THEN sent ELSE way.file
            /\ \/ /\ way.to = "weights"
                  /\ specs' = Layers(sent)
                  /\ OrCancelled("ingested")
               \/ /\ way.to = "engine"
                  /\ stage' = IF Ingested(way.file) THEN "engine" ELSE "failed"
                  /\ UNCHANGED specs
               \/ way.to = "failed" /\ stage' = "failed" /\ UNCHANGED specs
    /\ UNCHANGED <<sqnr, view, packed>>

Judge ==
    /\ stage = "ingested"
    /\ sqnr' = Measurements(source, specs)
    /\ OrCancelled("measured")
    /\ UNCHANGED <<source, specs, view, packed>>

\* The float32 matrices become int8 with a scale; nothing is stored for a container
\* that is quantized already or holds no float tensor.
Pack ==
    /\ stage = "measured"
    /\ view' = Drawing(source, specs)
    /\ packed' = IF \E t \in ToSet(source.tensors) : t.type = "quantized" THEN {}
                 ELSE {k \in DOMAIN source.tensors :
                         /\ source.tensors[k].type = "float32"
                         /\ Loaded(source)[k].ndim >= 2 /\ source.tensors[k].size > 0}
    /\ OrCancelled("packed")
    /\ UNCHANGED <<source, specs, sqnr>>

Deliver ==
    /\ stage = "packed"
    /\ stage' = "delivered"
    /\ UNCHANGED <<source, specs, sqnr, view, packed>>

WeightNext == Arrive \/ Judge \/ Pack \/ Deliver

WeightSpec == WeightInit /\ [][WeightNext]_weightVars

(***************************************************************************)
(* Properties.                                                             *)
(***************************************************************************)
\* capabilities.py and the worker agree: a weights-only extension never reaches the
\* engine, and a sound executable file of an extension the table lists is ingested
\* by it.  Not so for an uploaded torch module, whose input shape nobody declares.
RoutingAsPromised ==
    stage # "new" =>
        /\ Tier(source.ext) = "weights_only" => stage # "engine"
        /\ source.sound /\ Tier(source.ext) # "unknown"
                        /\ source.body \in {"module", "graph", "estimator"}
                        /\ (source.body = "module" => source.shaped)
           => stage = "engine"

DataParallel(f) == \E t \in ToSet(f.tensors) : t.key[1] = "module"

\* A delivered report does not call weights safe that int8 ruins: a float matrix
\* below 20 dB puts the file under review.  The report misses it when a larger
\* matrix of its layer hides it, when an nn.DataParallel prefix keeps every layer
\* from being measured, and when the container's vectors outweigh it.
LayersJudged ==
    stage = "delivered" /\ ~DataParallel(source) =>
        \A k \in Held(source) :
            LET t == source.tensors[k]
                Same(u) == \E i \in DOMAIN specs : {t.key, u.key} \subseteq specs[i].keys
            IN  t.ndim >= 2 /\ t.size > 0 /\ t.sqnr < 20 =>
                    \/ RiskLevel = "review"
                    \/ \E u \in ToSet(source.tensors) \ {t} :
                          /\ Same(u) /\ u.size >= t.size
                          /\ u.ndim >= 2 \/ source.ext \in {".mlmodel", ".gguf"}

\* What a container with a stored graph is drawn as: between its layers exactly its
\* own connections, a blob being read from the layer that wrote it last; every layer
\* entered and left; and depth growing along each edge.  A layer listed without inbound
\* nodes after others is drawn behind the layer before it, layers that read none of each
\* other are drawn as a chain, and depth is not defined around a cycle: where, of some
\* layers, each is entered from one of them.
TopologyKept ==
    stage = "delivered" /\ source.layers # NoGraphStored =>
        LET real == {e \in (DOMAIN specs) \X (DOMAIN specs) :
                        IF source.ext = ".mlmodel"
                        THEN \E b \in ToSet(source.layers[e[2]].blobs) :
                                /\ e[1] < e[2] /\ b \in ToSet(source.layers[e[1]].writes)
                                /\ \A k \in e[1] + 1 .. e[2] - 1 :
                                      b \notin ToSet(source.layers[k].writes)
                        ELSE Contains(source.layers[e[2]].reads, source.layers[e[1]].name)}
            listed == {<<i - 1, i>> : i \in {j \in 2 .. Len(specs) :
                          source.ext # ".mlmodel" /\ source.layers[j].reads = <<>>}}
            between == view.edges \cap ((DOMAIN specs) \X (DOMAIN specs))
            Cyclic == \E S \in (SUBSET DOMAIN specs) \ {{}} :
                        \A i \in S : \E j \in S : <<j, i>> \in between
        IN  /\ real # {} => real \subseteq between /\ between \subseteq real \cup listed
            /\ \A i \in DOMAIN specs : /\ \E e \in view.edges : e[2] = i
                                       /\ \E e \in view.edges : e[1] = i
            /\ Cyclic \/ \A e \in between : view.depth[e[1]] < view.depth[e[2]]
===============================================================================
