-------------------------------- MODULE Formats --------------------------------
(***************************************************************************)
(* What becomes of an uploaded file before a pipeline sees it: the         *)
(* dispatch by extension of the worker (src/app/services/jobs.py), the     *)
(* weight loaders and the converters it calls (src/app/engine), and the    *)
(* detection by content of the engine's own ingestion                      *)
(* (src/astra/core/ingestion.py).                                          *)
(*                                                                         *)
(* A file is a record: its extension ext, what its first bytes say (head), *)
(* what is in it (body), whether its reader or converter manages it        *)
(* (sound), whether an input shape is known for it, the tensors stored in  *)
(* it in order, and the layer graph it carries, NoGraphStored for none.    *)
(***************************************************************************)
EXTENDS Integers, SequencesExt, Selections

NoGraphStored == <<>>

\* Without uploaded bytes, synthesize() builds a model for the declared extension,
\* an estimator also for a name that sounds like trees.
\* An upload never comes with an input shape (routers/models.py, enqueue_pipeline).
FileOf(ext, head, body) ==
    [ext |-> ext, head |-> head, body |-> body, sound |-> TRUE, shaped |-> TRUE,
     uploaded |-> FALSE, tensors |-> <<>>, layers |-> NoGraphStored]

Synthesized(f) ==
    IF f.ext \in {".pkl", ".joblib"} \/ f.body = "tree" THEN FileOf(".pkl", "pickle", "estimator")
    ELSE IF f.ext \in {".pt", ".pth"} THEN FileOf(".pt", "torch_zip", "module")
    ELSE FileOf(".onnx", "other", "graph")

TorchExts == {".pt", ".pth", ".bin", ".ckpt"}

\* What the loaders and converters make of a file: a bundle of weights for the
\* weight-only pipeline, a file for the engine, or an error that fails the job.
ToEngine(f) == [to |-> "engine", file |-> f]
ToWeights(f) == [to |-> "weights", file |-> f]
Refused == [to |-> "failed", file |-> <<>>]

\* load_torch_state_dict: a mapping of tensors, also one a trainer wrapped; any other
\* content, and any content a safe load refuses, is left to the engine.
TorchBundle(f) ==
    IF f.body \in {"state_dict", "trainer"} THEN ToWeights(f) ELSE ToEngine(f)

\* load_safetensors, load_coreml, load_gguf and load_keras_h5 raise for a file their
\* reader cannot parse; only a .keras file, a zip archive, is never HDF5.
Bundle(f) == IF f.sound THEN ToWeights(f) ELSE Refused

H5Bundle(f) == IF f.head = "hdf5" THEN ToWeights(f) ELSE Refused

\* A converter writes an ONNX file and returns its path, or raises ConversionError.
Converted(f) == [FileOf(".onnx", "other", "graph") EXCEPT !.uploaded = f.uploaded]

Convertible(f) == f.body = "graph" /\ f.sound

\* run_job's dispatch.
Dispatch(f) ==
    CASE f.ext \in TorchExts -> TorchBundle(f)
      [] f.ext \in {".safetensors", ".mlmodel", ".gguf"} -> Bundle(f)
      [] f.ext \in {".h5", ".keras"} ->
            IF Convertible(f) THEN ToEngine(Converted(f)) ELSE H5Bundle(f)
      [] f.ext \in {".tflite", ".pb"} ->
            IF Convertible(f) THEN ToEngine(Converted(f)) ELSE Refused
      [] OTHER -> ToEngine(f)

(***************************************************************************)
(* detect_format: the first rule that applies.                             *)
(***************************************************************************)
PickledKind(f) == IF f.body = "garbage" THEN "unknown" ELSE "sklearn"

DetectFormatByHead(f) ==
    IF f.ext = ".onnx" THEN "onnx"
    ELSE IF f.head = "torch_zip" THEN "pytorch"
    ELSE IF f.head = "hdf5" THEN "tf_h5"
    ELSE IF f.head \in {"pickle2", "pickle"} THEN PickledKind(f)
    ELSE "unknown"

DetectFormat(f) ==
    IF f.ext = ".onnx" THEN "onnx"
    ELSE IF f.head = "torch_zip" THEN "pytorch"
    ELSE IF /\ f.head = "pickle2" \/ (f.ext \in {".pt", ".pth"} /\ f.head # "zip")
            /\ f.ext \in {".pt", ".pth", ".bin"}
    THEN "pytorch"
    ELSE IF f.head = "hdf5" THEN "tf_h5"
    ELSE IF f.ext = ".pb" THEN "tf_saved_model"
    ELSE IF f.ext \in {".pkl", ".joblib", ".pickle"} THEN PickledKind(f)
    ELSE IF f.head \in {"pickle2", "pickle"} /\ f.ext \notin {".pt", ".pth"} THEN PickledKind(f)
    ELSE IF f.ext \in {".h5", ".hdf5", ".keras"} THEN "tf_h5"
    ELSE "unknown"

\* ingest: the converter of the detected format.  A module needs the declared input
\* shape; an estimator needs a feature count; from_keras does not work with Keras 3.
Ingested(f) ==
    LET format == DetectFormat(f)
    IN  f.sound /\ CASE format = "onnx"    -> f.body = "graph"
                     [] format = "pytorch" -> f.body = "module" /\ f.shaped
                     [] format = "sklearn" -> f.body = "estimator"
                     [] OTHER              -> FALSE

(***************************************************************************)
(* services/capabilities.py: the tier a user is told for an extension.     *)
(***************************************************************************)
Tier(ext) ==
    CASE ext \in {".onnx", ".pt", ".pth", ".bin", ".ckpt", ".pkl", ".joblib"} -> "full"
      [] ext \in {".pb", ".h5", ".keras", ".tflite"} -> "convertible"
      [] ext \in {".mlmodel", ".safetensors", ".gguf"} -> "weights_only"
      [] OTHER -> "unknown"
===============================================================================
