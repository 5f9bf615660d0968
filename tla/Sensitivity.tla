----------------------------- MODULE Sensitivity -----------------------------
(***************************************************************************)
(* The first half of a compression run (src/app/engine/adapter.py):        *)
(* ingestion of the graph, analysis, the cap on searched operators, and    *)
(* the operators' sensitivities (src/astra/core/uosa.py), with the         *)
(* data-free quality score (src/astra/core/validation.py) every later      *)
(* phase measures candidates with.                                         *)
(*                                                                         *)
(* The run polls should_cancel between phases and once per trial           *)
(* (src/app/services/cancel.py): a passed deadline always answers yes, a   *)
(* flag in Redis answers yes unless that one read fails.                   *)
(***************************************************************************)
EXTENDS Compression

CONSTANTS
    Graphs,        \* the graphs ingestion may produce
    MaxOps,        \* max_compressible_ops
    Levels,        \* the sensitivities one operator may be measured at
    OfsLevels,     \* the output fidelities, in percent, of a changed candidate
    Interrupts,    \* what may stop the run: "flag", "deadline"
    RedisFaults    \* whether a read of the cancel flag may fail

ASSUME SensitivityAssumption ==
    /\ \A g \in Graphs : WellFormed(g)
    /\ MaxOps \in Nat
    /\ Levels \subseteq Nat /\ OfsLevels \subseteq 0 .. 100
    /\ Interrupts \subseteq {"flag", "deadline"}
    /\ RedisFaults \in BOOLEAN

VARIABLES
    pc,       \* the phase the run is in
    graph,    \* the ingested graph
    ops,      \* graph_info.operators, is_compressible after the cap
    profile,  \* the sensitivities of the compressible operators, in file order
    cancel,   \* the interrupts that happened
    seen      \* a poll of this run answered yes

runVars == <<graph, ops, profile>>

(***************************************************************************)
(* Cancellation.                                                           *)
(***************************************************************************)
Polls ==
    IF "deadline" \in cancel THEN {TRUE}
    ELSE IF "flag" \in cancel THEN (IF RedisFaults THEN BOOLEAN ELSE {TRUE})
    ELSE {FALSE}

\* check_cancel(): go on to the next phase, or raise PipelineCancelled.
Checkpoint(next) ==
    \E yes \in Polls :
        /\ seen' = (seen \/ yes)
        /\ pc' = IF yes THEN "cancelled" ELSE next

Running == pc \notin {"done", "failed", "cancelled"}

\* A cancel request sets the flag; the deadline is the clock's.
Interrupt ==
    /\ Running
    /\ \E what \in Interrupts \ cancel : cancel' = cancel \cup {what}
    /\ UNCHANGED <<pc, seen, runVars>>

(***************************************************************************)
(* Phases 1 and 2: ingestion, analysis and the cap.                        *)
(***************************************************************************)
Ingest ==
    /\ pc = "ingest"
    /\ graph' \in Graphs
    /\ Checkpoint("analyze")
    /\ UNCHANGED <<ops, profile, cancel>>

\* The operators with the most FLOPs (then parameters) stay searchable.
Capped(all) ==
    LET index == {i \in DOMAIN all : all[i].compressible}
        Heavier(i, j) == \/ all[i].flops > all[j].flops
                         \/ all[i].flops = all[j].flops /\ all[i].params > all[j].params
                         \/ /\ all[i].flops = all[j].flops
                            /\ all[i].params = all[j].params
                            /\ i < j
        Rank(i) == Cardinality({j \in index : Heavier(j, i)})
    IN  [i \in DOMAIN all |->
            [all[i] EXCEPT !.compressible = (@ /\ (Rank(i) < MaxOps))]]

Analyze ==
    /\ pc = "analyze"
    /\ ops' = Capped(Operators(graph))
    /\ Checkpoint("sense")
    /\ UNCHANGED <<graph, profile, cancel>>

(***************************************************************************)
(* UOSA.  A neural operator is perturbed by noise added to its first       *)
(* output; an ai.onnx.ml operator by noise on one of its attributes, found *)
(* by name or, for an unnamed node, by type.  What cannot be perturbed     *)
(* reads zero.                                                             *)
(***************************************************************************)
Perturbable(o) ==
    /\ o.attr # <<>>
    /\ \/ o.cat = "tree_ensemble" /\ (o.attr.cls # <<>> \/ o.attr.target # <<>>)
       \/ o.cat \in {"linear_model", "svm"} /\ o.attr.coefs # <<>>

\* The node whose perturbation is measured for operator i, 0 if none.
Perturbed(g, all, i) ==
    LET o == all[i]
    IN  IF ~o.ml THEN (IF g.nodes[i].out = <<>> THEN 0 ELSE i)
        ELSE IF ~Perturbable(o) THEN 0
        ELSE SelectInSeq(g.nodes, LAMBDA n : n.attr # <<>>
                /\ (n.name = o.name \/ (n.name = NoName /\ n.op = o.op)))

Measured(g, all, reading) ==
    LET index == Ascending({i \in DOMAIN all : all[i].compressible})
        At(p) == IF p = 0 THEN 0 ELSE reading[p]
    IN  [k \in DOMAIN index |->
            [name |-> all[index[k]].name, s |-> At(Perturbed(g, all, index[k]))]]

\* A graph onnxruntime refuses makes the baseline run, hence the job, fail.
Sense ==
    /\ pc = "sense"
    /\ \E reading \in [Nodes(graph) -> Levels] :
        /\ \A i \in Nodes(graph) :
              ~ops[i].compressible => reading[i] = CHOOSE s \in Levels : TRUE
        /\ profile' = Measured(graph, ops, reading)
    /\ IF Compressible(ops) # <<>> /\ ~Runnable(graph)
       THEN pc' = "failed" /\ UNCHANGED seen
       ELSE Checkpoint("search")
    /\ UNCHANGED <<graph, ops, cancel>>

\* get_protection_set(top_p): the most sensitive operators, at least one.
ProtectionSetFloor(results, percent) ==
    LET n == (Len(results) * percent) \div 100
        Above(i) == {j \in DOMAIN results : \/ results[j].s > results[i].s
                                            \/ results[j].s = results[i].s /\ j < i}
    IN  {results[i].name : i \in {k \in DOMAIN results : Cardinality(Above(k)) < n}}

ProtectionSet(results, percent) ==
    LET n == Max({1, (Len(results) * percent) \div 100})
        Above(i) == {j \in DOMAIN results : \/ results[j].s > results[i].s
                                            \/ results[j].s = results[i].s /\ j < i}
    IN  {results[i].name : i \in {k \in DOMAIN results : Cardinality(Above(k)) < n}}

\* normalized_scores() compared with a threshold, in tenths of the highest score.
NormalizedAbove(results, name, tenths) ==
    LET top == Max({results[i].s : i \in DOMAIN results})
    IN  \E i \in DOMAIN results : results[i].name = name /\ 10 * results[i].s > tenths * top

(***************************************************************************)
(* DFCV: output, weight and structural scores of a candidate, in percent.  *)
(***************************************************************************)
Unchanged(g, c) == c.nodes = g.nodes /\ c.inits = g.inits

\* The measured OFS: zero when a session cannot be created, one for a copy.
Fidelities(g, c) ==
    IF ~Runnable(c) THEN {0} ELSE IF Unchanged(g, c) THEN {100} ELSE OfsLevels

Near == 90   \* the score of a value that was only rounded or folded

\* _reconstruct_quantized_weight knows the converted names without a suffix.
WeightScore(g, c, x) ==
    IF x \in DOMAIN c.inits
    THEN IF c.inits[x].dims # g.inits[x].dims THEN 0
         ELSE IF c.inits[x].tags = g.inits[x].tags THEN 100 ELSE Near
    ELSE IF Append(x, "fp16") \in DOMAIN c.inits THEN Near
    ELSE IF {Append(x, "q"), Append(x, "scale")} \subseteq DOMAIN c.inits THEN Near
    ELSE 0

\* The attributes of ai.onnx.ml nodes, keyed by node name, or type when unnamed.
AttrKeys(g) ==
    {IF n.name # NoName THEN n.name ELSE <<n.op>> :
        n \in {m \in ToSet(g.nodes) : m.attr # <<>>}}

AttrOf(g, key) ==
    g.nodes[SelectLastInSeq(g.nodes, LAMBDA n : n.attr # <<>>
                /\ (IF n.name # NoName THEN n.name ELSE <<n.op>>) = key)].attr

AttrScore(g, c, key) ==
    LET a == AttrOf(g, key)
        b == AttrOf(c, key)
    IN  IF key \notin AttrKeys(c) THEN 0
        ELSE IF <<Len(a.cls), Len(a.target), Len(a.coefs)>>
                # <<Len(b.cls), Len(b.target), Len(b.coefs)>> THEN 0
        ELSE IF a = b THEN 100 ELSE Near

WeightFidelity(g, c) ==
    LET weights == DOMAIN g.inits
        keys == AttrKeys(g)
        total == SumFunction([x \in weights |-> WeightScore(g, c, x)])
               + SumFunction([k \in keys |-> AttrScore(g, c, k)])
    IN  IF weights \cup keys = {} THEN 100
        ELSE total \div (Cardinality(weights) + Cardinality(keys))

\* Executability counts a quarter; an unexecutable candidate keeps the rest.
StructuralIntegrity(c) == IF Runnable(c) THEN 100 ELSE 75

Quality(g, c, ofs) ==
    (50 * ofs + 30 * WeightFidelity(g, c) + 20 * StructuralIntegrity(c)) \div 100

=============================================================================
