---------------------------- MODULE MCLifecycle ----------------------------
(* Model-checking instance of Lifecycle.                                    *)
EXTENDS Lifecycle

CONSTANTS u1, u2

Both == {u1, u2}
One == {u1}
NoImport == {}
BothImported == {u1, u2}
AnyOutcome == {"onnx", "npz", "none"}
WeightsOnly == {"npz"}
=============================================================================
