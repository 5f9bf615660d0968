------------------------------- MODULE MCWeights -------------------------------
(***************************************************************************)
(* Files for WeightOnly: one per loader, converter and rule of the         *)
(* detection, and containers whose layers and graphs are irregular.        *)
(***************************************************************************)
EXTENDS WeightOnly

Tensor(key, ndim, size, db) ==
    [key |-> key, slashed |-> FALSE, ndim |-> ndim, size |-> size, type |-> "float32", sqnr |-> db]

Slashed(layer, param, ndim, size, db) ==
    [Tensor(<<layer, param>>, ndim, size, db) EXCEPT !.slashed = TRUE]

Upload(ext, head, body) == [FileOf(ext, head, body) EXCEPT !.uploaded = TRUE, !.shaped = FALSE]

Unsound(f) == [f EXCEPT !.sound = FALSE]

With(f, tensors, layers) == [f EXCEPT !.tensors = tensors, !.layers = layers]

\* A linear layer, a recurrent one whose smaller matrix suffers, a batch norm, a
\* layer whose bias is larger than its matrix, and a tensor of its own.
Checkpoint1 ==
    << Tensor(<<"fc", "weight">>, 2, 12, 50), Tensor(<<"fc", "bias">>, 1, 3, 80),
       Tensor(<<"rnn", "weight_ih_l0">>, 2, 40, 45), Tensor(<<"rnn", "weight_hh_l0">>, 2, 16, 15),
       Tensor(<<"bn", "running_mean">>, 1, 4, 10),
       [Tensor(<<"bn", "num_batches_tracked">>, 0, 1, 80) EXCEPT !.type = "int64"],
       Tensor(<<"scale">>, 0, 0, 80) >>

Ruined == Append(Checkpoint1, Tensor(<<"fc", "proj", "weight">>, 2, 20, 12))

BigBias == << Tensor(<<"gate", "bias">>, 1, 64, 60), Tensor(<<"gate", "weight">>, 2, 8, 12) >>

Parallel(tensors) ==
    [k \in DOMAIN tensors |-> [tensors[k] EXCEPT !.key = <<"module">> \o @]]

Keras(name, reads) == [name |-> <<name>>, reads |-> reads, blobs |-> <<>>, writes |-> <<>>]
CoreML(name, blobs, writes) == [name |-> <<name>>, reads |-> <<>>, blobs |-> blobs, writes |-> writes]

KerasWeights == << Slashed("a", "kernel", 2, 12, 30), Slashed("a", "bias", 1, 3, 70),
                   Slashed("b", "kernel", 2, 9, 18) >>

\* Two inputs that meet; a branch that reads a layer of an inner model; a chain;
\* layers listed against their flow; a shared layer that reads what reads it.
TwoInputs == << Keras("x", <<>>), Keras("z", <<>>), Keras("a", << <<"x">> >>),
                Keras("b", << <<"z">>, <<"a">> >>) >>
InnerModel == << Keras("x", <<>>), Keras("a", << <<"x">> >>), Keras("b", << <<"inner">> >>),
                 Keras("c", << <<"b">>, <<"a">> >>) >>
Sequential == << Keras("a", <<>>), Keras("b", <<>>) >>
Unsorted == << Keras("a", << <<"x">> >>), Keras("x", <<>>) >>
Shared == << Keras("x", <<>>), Keras("a", << <<"x">>, <<"b">> >>), Keras("b", << <<"a">> >>) >>

Diamond == << CoreML("conv", <<"x">>, <<"h">>), CoreML("l", <<"h">>, <<"p">>),
              CoreML("r", <<"h">>, <<"q">>), CoreML("add", <<"p", "q">>, <<"y">>) >>

\* A layer that writes over the blob it reads.
InPlace == << CoreML("conv", <<"x">>, <<"h">>), CoreML("r", <<"h">>, <<"h">>),
              CoreML("fc", <<"h">>, <<"y">>) >>

Parted == << CoreML("l", <<"x">>, <<"p">>), CoreML("r", <<"x">>, <<"q">>) >>
CoreMLWeights == << Slashed("conv", "weights", 4, 72, 16), Slashed("conv", "bias", 1, 8, 60),
                    Slashed("r", "weights", 2, 8, 60) >>

Quantized == << [Tensor(<<"token_embd">>, 2, 90, 80) EXCEPT !.type = "quantized"],
                Tensor(<<"output_norm">>, 1, 9, 17) >>

H5(tensors, layers) == With(Upload(".h5", "hdf5", "weights"), tensors, layers)
Torch(ext, body, tensors) == With(Upload(ext, "torch_zip", body), tensors, NoGraphStored)

Uploads ==
    { Torch(".pt", "state_dict", Checkpoint1), Torch(".bin", "state_dict", Ruined),
      Torch(".ckpt", "trainer", BigBias), Torch(".pth", "state_dict", Parallel(Ruined)),
      Torch(".bin", "module", <<>>), Upload(".ckpt", "pickle2", "module"),
      With(Upload(".safetensors", "other", "weights"), Ruined, NoGraphStored),
      Unsound(Upload(".safetensors", "other", "weights")),
      With(Upload(".mlmodel", "other", "weights"), CoreMLWeights, Diamond),
      With(Upload(".mlmodel", "other", "weights"), <<>>, Parted),
      With(Upload(".mlmodel", "other", "weights"), <<>>, InPlace),
      With(Upload(".gguf", "other", "weights"), Quantized, NoGraphStored),
      With(Upload(".gguf", "other", "weights"), Tail(Quantized), NoGraphStored),
      Upload(".h5", "hdf5", "graph"), H5(KerasWeights, TwoInputs), H5(KerasWeights, InnerModel),
      H5(KerasWeights, Sequential), H5(KerasWeights, Shared), H5(<<>>, Unsorted), H5(KerasWeights, NoGraphStored),
      Upload(".keras", "zip", "graph"), Unsound(Upload(".keras", "zip", "graph")),
      Upload(".tflite", "other", "graph"), Unsound(Upload(".pb", "other", "graph")),
      Upload(".onnx", "other", "graph"), Upload(".joblib", "other", "estimator"),
      Upload(".pkl", "pickle", "estimator"), Upload(".pkl", "pickle", "garbage"),
      Upload(".hdf5", "hdf5", "graph"), Upload(".zip", "zip", "garbage") }
    \cup { FileOf(ext, "none", "none") : ext \in {".pkl", ".pt", ".mlmodel"} }
    \cup { FileOf(".onnx", "none", "tree") }
===============================================================================
