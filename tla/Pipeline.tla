------------------------------ MODULE Pipeline -------------------------------
(***************************************************************************)
(* A whole compression run: run_pipeline of src/app/engine/adapter.py,     *)
(* composed of the sensitivity analysis, the Pareto search, the guarantee  *)
(* ladder, and the selection of the artifact that is served.               *)
(***************************************************************************)
EXTENDS Search, Guarantee

CONSTANT GuaranteeMode   \* settings.guarantee_mode

ASSUME PipelineAssumption == GuaranteeMode \in BOOLEAN

VARIABLE served   \* the selected artifact and its provenance, or NotServed

vars == <<pc, graph, ops, profile, cancel, seen, searchVars, ladderVars, served>>

NotServed == [source |-> "none", trial |-> -1, rung |-> "none", ofs |-> 0, size |-> 0,
              runs |-> FALSE, precisions |-> <<>>]

Init ==
    /\ pc = "ingest" /\ graph = [nodes |-> <<>>] /\ ops = <<>> /\ profile = <<>>
    /\ cancel = {} /\ seen = FALSE
    /\ budget = 0 /\ values = <<>> /\ points = <<>> /\ hv = <<>> /\ stopped = FALSE
    /\ pareto = NoResult
    /\ reports = <<>> /\ ladder = NoLadder /\ served = NotServed

(***************************************************************************)
(* The ladder's place in the run: it runs in guarantee mode, is not polled *)
(* between rungs, and an exception of it is survived.                      *)
(***************************************************************************)
LadderRuns == GuaranteeMode /\ Compressible(ops) # <<>>

EndLadder ==
    /\ pc = "ladder"
    /\ ~LadderRuns \/ ladder # NoLadder
    /\ Checkpoint("select")
    /\ reports' = <<>>
    /\ UNCHANGED <<runVars, cancel, searchVars, ladder, served>>

LadderRaises ==
    /\ Climbing /\ LadderRuns
    /\ Checkpoint("select")
    /\ reports' = <<>>
    /\ UNCHANGED <<runVars, cancel, searchVars, ladder, served>>

(***************************************************************************)
(* _reconstruct_model: a trial's graph from its recorded configuration.    *)
(* The per-trial export (src/app/services/trial_export.py) does the same   *)
(* from the stored graph, analysed anew and without the cap.               *)
(***************************************************************************)
RebuiltBackwards(all, config) ==
    LET known == Reverse(Compressible(all))
        Mapped(name) == known[SelectLastInSeq(known, LAMBDA o : o.name = name)]
        order == Once([k \in DOMAIN known |-> known[k].name])
        wanted == MembersAt(order, {k \in DOMAIN order : order[k] \in DOMAIN config})
    IN  ActionsOf([k \in DOMAIN wanted |-> Mapped(wanted[k])], config)

Rebuilt(all, config) ==
    LET known == Compressible(all)
        \* op_map keeps the last operator of a name
        Mapped(name) == known[SelectLastInSeq(known, LAMBDA o : o.name = name)]
        order == Once([k \in DOMAIN known |-> known[k].name])
        wanted == MembersAt(order, {k \in DOMAIN order : order[k] \in DOMAIN config})
    IN  ActionsOf([k \in DOMAIN wanted |-> Mapped(wanted[k])], config)

Reconstruct(g, all, config) ==
    LET actions == Rebuilt(all, config)
    IN  IF actions = <<>> THEN g ELSE Apply(g, actions)

Export(p) == Reconstruct(graph, Operators(graph), p.config)

(***************************************************************************)
(* Phase 4, the selection.                                                 *)
(***************************************************************************)
\* The frontier sorted by accuracy: the first point within 95% of the baseline,
\* else the first point.
Pick ==
    LET f == pareto.front
        Before(i, j) == f[i].acc > f[j].acc \/ (f[i].acc = f[j].acc /\ i < j)
        order == SetToSortSeq(DOMAIN f, Before)
        good == SelectSeq(order, LAMBDA i : 100 * f[i].acc >= 95 * pareto.origAcc)
    IN  IF good # <<>> THEN f[good[1]] ELSE f[order[1]]

RungPrecision(rung) ==
    IF rung \in {"INT8_uniform", "INT8_uosa_mixed", "W8_weight_only"} THEN INT8
    ELSE IF rung = "FP16" THEN FP16 ELSE FP32

\* The precisions shown for the operators when the ladder's candidate is served.
LadderPrecisions ==
    LET kept == IF profile = <<>> THEN {} ELSE Protected
        names == {o.name : o \in ToSet(Compressible(ops))}
    IN  IF ladder.rung = "ORIGINAL" THEN <<>>
        ELSE [n \in names |-> IF ladder.rung = "INT8_uosa_mixed" /\ n \in kept
                              THEN FP32 ELSE RungPrecision(ladder.rung)]

TrialPrecisions(c) == [n \in DOMAIN c |-> c[n].prec]

ServeTrial(p, c, rung, ofs) ==
    [source |-> "pareto", trial |-> p.num, rung |-> rung, ofs |-> ofs,
     size |-> ByteSize(c), runs |-> Runnable(c),
     precisions |-> TrialPrecisions(p.config)]

ServeLadder ==
    [source |-> "ladder", trial |-> -1, rung |-> ladder.rung, ofs |-> ladder.ofs,
     size |-> ladder.size, runs |-> ladder.runs,
     precisions |-> LadderPrecisions]

\* The same gate the ladder's candidates pass.
CertifiedBySize(ofs, c) == ByteSize(c) < ladder.size

Certified(ofs, c) == ofs >= Tau /\ ByteSize(c) < ladder.size

\* A Pareto pick is served when it passes the ladder's gate and is strictly smaller
\* than the ladder's candidate; without a ladder it is served as it is.
SelectTrial ==
    /\ pc = "select" /\ pareto.front # <<>>
    /\ \E c \in {Reconstruct(graph, ops, Pick.config)} :
           IF ladder = NoLadder
           THEN served' = ServeTrial(Pick, c, "none", 0)
           ELSE \E ofs \in Fidelities(graph, c) \cup {0} :
                    /\ Certified(ofs, c)
                    /\ served' = ServeTrial(Pick, c, "PARETO_CERTIFIED", ofs)
    /\ pc' = "publish"
    /\ UNCHANGED <<runVars, cancel, seen, searchVars, ladderVars>>

\* The gate's measurement refuses the pick, or there is none.
SelectLadder ==
    /\ pc = "select" /\ ladder # NoLadder
    /\ pareto.front # <<>> =>
          \E c \in {Reconstruct(graph, ops, Pick.config)} :
              \E ofs \in Fidelities(graph, c) \cup {0} : ~Certified(ofs, c)
    /\ served' = ServeLadder
    /\ pc' = "publish"
    /\ UNCHANGED <<runVars, cancel, seen, searchVars, ladderVars>>

\* Neither search nor ladder: one pass at each operator's strongest precision,
\* protecting the operators above 0.3 of the highest sensitivity.
FallbackSpace(o) ==
    ActionSpace(o, NormalizedAbove(profile, o.name, 3), 0)

FallbackActions ==
    FoldLeft(LAMBDA s, o : s \o Translate(o, [NoCompression EXCEPT
                                                !.prec = Max(FallbackSpace(o).prec)]),
             <<>>, Compressible(ops))

SelectFallback ==
    /\ pc = "select" /\ ladder = NoLadder /\ pareto.front = <<>>
    /\ \E c \in {IF FallbackActions = <<>> THEN graph ELSE Apply(graph, FallbackActions)} :
           served' = [NotServed EXCEPT !.source = "fallback", !.size = ByteSize(c),
                                          !.runs = Runnable(c),
                                          !.precisions =
                [n \in {o.name : o \in ToSet(Compressible(ops))} |->
                    Max(UNION {FallbackSpace(o).prec :
                                 o \in {p \in ToSet(Compressible(ops)) : p.name = n}})]]
    /\ pc' = "publish"
    /\ UNCHANGED <<runVars, cancel, seen, searchVars, ladderVars>>

(***************************************************************************)
(* The artifact is written, then benchmarked: two more checkpoints, and    *)
(* none after the last measurement.                                        *)
(***************************************************************************)
SaveArtifact ==
    /\ pc = "publish"
    /\ Checkpoint("benchmark")
    /\ UNCHANGED <<runVars, cancel, searchVars, ladderVars, served>>

BenchmarkOriginal ==
    /\ pc = "benchmark"
    /\ Checkpoint("finish")
    /\ UNCHANGED <<runVars, cancel, searchVars, ladderVars, served>>

Finish ==
    /\ pc = "finish"
    /\ pc' = "done"
    /\ UNCHANGED <<runVars, cancel, seen, searchVars, ladderVars, served>>

SearchStep ==
    /\ SkipSearch \/ StartSearch \/ Trial \/ FinishSearch
    /\ UNCHANGED <<ladderVars, served>>

LadderStep ==
    /\ LadderRuns
    /\ TryRung \/ Fallback
    /\ UNCHANGED <<pc, runVars, cancel, seen, searchVars, served>>

Prepare ==
    /\ Ingest \/ Analyze \/ Sense
    /\ UNCHANGED <<searchVars, ladderVars, served>>

Next ==
    \/ Prepare \/ SearchStep \/ LadderStep \/ LadderRaises \/ EndLadder
    \/ SelectTrial \/ SelectLadder \/ SelectFallback
    \/ SaveArtifact \/ BenchmarkOriginal \/ Finish
    \/ Interrupt /\ UNCHANGED <<searchVars, ladderVars, served>>

Spec == Init /\ [][Next]_vars

(***************************************************************************)
(* Properties.                                                             *)
(***************************************************************************)
Stages == {"ingest", "analyze", "sense", "search", "trial", "ladder", "select", "publish",
           "benchmark", "finish", "done", "failed", "cancelled"}

\* The types of a run's state: a study never exceeds its budget, every measured
\* trial is one of it, and a score is a percentage.
TypeOK ==
    /\ pc \in Stages
    /\ cancel \subseteq Interrupts /\ seen \in BOOLEAN /\ stopped \in BOOLEAN
    /\ Len(values) <= budget /\ Len(points) <= budget
    /\ \A k \in DOMAIN values :
          values[k].num = k - 1 /\ values[k].acc \in 0 .. 100 /\ values[k].size \in Nat
    /\ \A k \in DOMAIN points :
          points[k].num \in 0 .. budget - 1 /\ points[k].acc \in 0 .. 100
    /\ Len(reports) <= Len(Ladder) + 1
    /\ served.source \in {"none", "pareto", "ladder", "fallback"}

\* The frontier handed to the selection (pareto_search.py, search): measured trials
\* that no measured trial beats, and none only when nothing was measured, although
\* the study it is read from also holds trials that were never measured.
FrontierSound ==
    pareto.front # <<>> \/ pc \in {"select", "publish"} =>
        /\ ToSet(pareto.front) \subseteq ToSet(points)
        /\ \A p \in ToSet(pareto.front) : ~\E q \in ToSet(points) : Dominates(q, p)
        /\ points # <<>> => pareto.front # <<>>

\* The swept hypervolume is the area the study's points dominate, column by column.
HypervolumeExact ==
    hv # <<>> =>
        LET pts == {Loss(t, pareto.origAcc, OrigSize) : t \in ToSet(values)}
            Column(x) == HvRef - Min({HvRef} \cup {p.y : p \in {q \in pts : q.x <= x}})
        IN  hv[Len(hv)] = SumFunction([x \in 0 .. HvRef - 1 |-> Column(x)])

\* What is published when the ladder gave a result: the ladder's candidate, or a
\* trial that clears the same floor and is smaller (adapter.py, phase 4); and, with
\* a floor above zero, a graph that can be executed.
ServedCertified ==
    served # NotServed /\ ladder # NoLadder =>
        /\ served.ofs >= Tau
        /\ Tau > 0 => served.runs
        /\ \/ served.source = "ladder" /\ served.rung = ladder.rung /\ served.size = ladder.size
           \/ served.source = "pareto" /\ served.size < ladder.size

\* A trial exported later, rebuilt from its recorded configuration, has the size
\* the search measured, when the operators' names tell them apart.
ExportMatchesTrial ==
    pc = "done" /\ Cardinality(Names(graph)) = Len(graph.nodes) =>
        \A k \in DOMAIN points : ByteSize(Export(points[k])) = points[k].size

\* The operator the profile found the most sensitive never gets int8 weights of its
\* own in a trial; a weight shared with another operator may be converted for that.
MostSensitiveStaysLight ==
    pc = "ladder" =>
        \A i \in DOMAIN profile :
            (\A j \in DOMAIN profile \ {i} : profile[j].s < profile[i].s) =>
                \A k \in DOMAIN points :
                    LET made == Apply(graph, ActionsOf(Compressible(ops), points[k].config))
                        Users(x) == {OpName(graph, n) : n \in {m \in Nodes(graph) :
                                        Contains(graph.nodes[m].in, x)}}
                    IN  \A x \in DOMAIN graph.inits :
                            Users(x) = {profile[i].name} => Append(x, "q") \notin DOMAIN made.inits

\* After a poll answered yes the run reaches neither the ladder nor the selection: it
\* may go on with trials, and then ends cancelled (or failed).
SeenStops == seen => pc \in {"trial", "failed", "cancelled"}

\* adapter.py calls the poll in dfcv_eval "the hook to (a) abort a long search
\* mid-phase": no trial starts after a poll answered yes.
CancelAbortsSearch == [][seen => values' = values \/ pc # "trial"]_vars
=============================================================================
