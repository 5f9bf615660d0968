------------------------------ MODULE Guarantee ------------------------------
(***************************************************************************)
(* The guarantee ladder (src/astra/core/guarantee.py): rungs from the most *)
(* aggressive to the most conservative, one action per rung, and a gate    *)
(* that admits the first candidate at or above the fidelity floor that is  *)
(* strictly smaller than the original.                                     *)
(*                                                                         *)
(* onnxruntime's dynamic quantizer and the float16 converter are external: *)
(* they raise, or return a graph whose size is one of ExternalSizes, in    *)
(* percent of the original.                                                *)
(***************************************************************************)
EXTENDS Sensitivity

CONSTANTS
    Tau,             \* the fidelity floor, in percent
    Ladder,          \* the rungs before the original: "v1", "v2" or a list
    ExternalSizes

ASSUME GuaranteeAssumption ==
    /\ Tau \in 0 .. 100
    /\ ExternalSizes \subseteq Nat
    /\ Ladder \in Seq({"INT8_uniform", "INT8_uosa_mixed", "W8_weight_only", "FP16"})

LadderV1 == <<"INT8_uniform", "INT8_uosa_mixed", "FP16">>
LadderV2 == <<"INT8_uniform", "INT8_uosa_mixed", "W8_weight_only", "FP16">>

VARIABLES
    reports,   \* the ladder's reports: [rung, reason, ofs, size]
    ladder     \* its result: [rung, ofs, size, runs], or NoLadder

ladderVars == <<reports, ladder>>

NoLadder == [rung |-> "none", ofs |-> 0, size |-> 0, runs |-> FALSE]

OrigSize == ByteSize(graph)

(***************************************************************************)
(* _build_candidate: what a rung may build.  An outcome is "error", "n/a"  *)
(* or a candidate: its size, its possible fidelities, whether it runs.     *)
(***************************************************************************)
StandardCategories == {"dense_compute", "normalization", "embedding"}
MlCategories == {"tree_ensemble", "linear_model", "svm"}

HasStandard == \E o \in ToSet(Compressible(ops)) : o.cat \in StandardCategories
HasMl == \E o \in ToSet(Compressible(ops)) : o.cat \in MlCategories

Built(c) == [kind |-> "built", size |-> ByteSize(c), fidelities |-> Fidelities(graph, c),
             runs |-> Runnable(c)]

Failed(what) == [kind |-> what, size |-> 0, fidelities |-> {}, runs |-> FALSE]

\* What the transformer makes of the operators in cats outside keep.
NativeActions(cats, keep, prec) ==
    LET chosen == SelectSeq(Compressible(ops), LAMBDA o : o.cat \in cats /\ o.name \notin keep)
        cfg == [NoCompression EXCEPT !.prec = prec]
    IN  FoldLeft(LAMBDA s, o : s \o Translate(o, cfg), <<>>, chosen)

Native(cats, keep, prec) ==
    LET actions == NativeActions(cats, keep, prec)
        c == Apply(graph, actions)
    IN  IF actions = <<>> THEN Built(graph)
        ELSE IF c.err THEN Failed("error") ELSE Built(c)

\* External conversions: an isolated child that may crash, time out or succeed.
External ==
    {Failed("error")} \cup
    {[kind |-> "built", size |-> (OrigSize * s) \div 100, fidelities |-> OfsLevels,
      runs |-> TRUE] : s \in ExternalSizes}

\* What a rung converts natively: the weights of the dense and embedding operators,
\* or the ai.onnx.ml operators, less the protected ones on the mixed rung.
Scope(rung) ==
    CASE rung = "INT8_uniform"   -> [cats |-> MlCategories, keep |-> {}, prec |-> INT8]
      [] rung = "INT8_uosa_mixed" ->
            [cats |-> MlCategories, keep |-> ProtectionSet(profile, 30), prec |-> INT8]
      [] rung = "W8_weight_only" ->
            [cats |-> {"dense_compute", "embedding"}, keep |-> {}, prec |-> INT8]
      [] rung = "FP16"           -> [cats |-> MlCategories, keep |-> {}, prec |-> FP16]

NotApplicable(rung) ==
    \/ ~HasStandard /\ ~HasMl
    \/ rung = "INT8_uosa_mixed" /\ profile = <<>>
    \/ /\ rung = "W8_weight_only"
       /\ \A o \in ToSet(Compressible(ops)) : o.cat \notin Scope(rung).cats

\* A graph with standard operators is converted by ONNX Runtime and onnxconverter.
Candidates(rung) ==
    IF NotApplicable(rung) THEN {Failed("n/a")}
    ELSE IF HasStandard /\ rung # "W8_weight_only" THEN External
    ELSE {Native(Scope(rung).cats, Scope(rung).keep, Scope(rung).prec)}

(***************************************************************************)
(* guarantee_compress: a report per rung; the first accepted one is served.*)
(***************************************************************************)
Refusal(c, ofs) ==
    IF c.kind # "built" THEN c.kind
    ELSE IF ofs < Tau THEN "fidelity below tau"
    ELSE IF c.size < OrigSize THEN "accepted"
    ELSE "no size reduction"

Report(rung, c, ofs) ==
    [rung |-> rung, reason |-> Refusal(c, ofs), ofs |-> ofs, size |-> c.size]

Climbing == pc = "ladder" /\ ladder = NoLadder

\* gate_check of a candidate: an error while validating scores zero.
Gate(c) == IF c.kind = "built" THEN c.fidelities \cup {0} ELSE {0}

NextRungUp == Ladder[Len(Ladder) - Len(reports)]

NextRung == Ladder[Len(reports) + 1]

TryRung ==
    /\ Climbing
    /\ Len(reports) < Len(Ladder)
    /\ LET rung == NextRung
       IN  \E c \in Candidates(rung) : \E ofs \in Gate(c) :
            /\ reports' = Append(reports, Report(rung, c, ofs))
            /\ ladder' = IF Refusal(c, ofs) = "accepted"
                         THEN [rung |-> rung, ofs |-> ofs, size |-> c.size, runs |-> c.runs]
                         ELSE ladder

\* R0: the original is always admissible.
Fallback ==
    /\ Climbing
    /\ Len(reports) = Len(Ladder)
    /\ reports' = Append(reports, [rung |-> "ORIGINAL", reason |-> "accepted",
                                   ofs |-> 100, size |-> OrigSize])
    /\ ladder' = [rung |-> "ORIGINAL", ofs |-> 100, size |-> OrigSize,
                  runs |-> Runnable(graph)]

(***************************************************************************)
(* Properties.                                                             *)
(***************************************************************************)
\* The ladder's promise: what it serves clears the floor, and is strictly smaller
\* than the original unless it is the original (guarantee.py, Proposition 1).
LadderCertified ==
    ladder # NoLadder =>
        /\ ladder.ofs >= Tau
        /\ ladder.rung # "ORIGINAL" => ladder.size < OrigSize

\* The rung served is the most aggressive admissible one: every rung above it was
\* tried, in the ladder's order, and refused for a reason its own measurements
\* bear out.
MostAggressiveFirst ==
    \A k \in DOMAIN reports :
        /\ reports[k].rung = IF k <= Len(Ladder) THEN Ladder[k] ELSE "ORIGINAL"
        /\ reports[k].reason = "accepted" <=>
              /\ reports[k].ofs >= Tau
              /\ reports[k].size < OrigSize \/ reports[k].rung = "ORIGINAL"
              /\ k = Len(reports) /\ ladder.rung = reports[k].rung
=============================================================================
