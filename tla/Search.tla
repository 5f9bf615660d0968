------------------------------- MODULE Search --------------------------------
(***************************************************************************)
(* The Pareto search over accuracy and size                                *)
(* (src/astra/search/pareto_search.py) as the run drives it: one action    *)
(* per Optuna trial.  The sampler is external: any configuration of the    *)
(* operators' action spaces may come next.  Latency is only reported and   *)
(* is left out.                                                            *)
(***************************************************************************)
EXTENDS Sensitivity

CONSTANTS
    Adaptive, PerDim, Startup, MinTrials, MaxTrials,   \* the trial budget
    EarlyStop, Patience, Epsilon,   \* hypervolume plateau, Epsilon in thousandths
    Prunes                          \* the prune ratios sampled; {0} without pruning

ASSUME SearchAssumption ==
    /\ {PerDim, Startup, MinTrials, MaxTrials, Patience, Epsilon} \subseteq Nat
    /\ {Adaptive, EarlyStop} \subseteq BOOLEAN
    /\ 0 \in Prunes /\ Prunes \subseteq 0 .. 9

VARIABLES
    budget,    \* n_trials of this study
    values,    \* the study's trials in order: [num, acc, size]
    points,    \* all_trials, the measured ones: [num, acc, size, config]
    hv,        \* hv_history
    stopped,   \* study.stop() was called
    pareto     \* the result: the frontier and the original's score, or NoResult

searchVars == <<budget, values, points, hv, stopped, pareto>>

NoResult == [front |-> <<>>, origAcc |-> 0]

(***************************************************************************)
(* Action spaces and the budget.                                           *)
(***************************************************************************)
FuseEffective == {"normalization", "tree_ensemble"}

TotalParams == Max({1, FoldLeft(LAMBDA n, o : n + o.params, 0, ops)})

Protected == ProtectionSet(profile, 30)

SpaceOf(o) == ActionSpace(o, o.name \in Protected, TotalParams)

\* _effective_dimensionality: one dimension per suggest_* call.
Dimensions(o) ==
    LET sp == SpaceOf(o)
        One(p) == IF p THEN 1 ELSE 0
    IN  One(Cardinality(sp.prec) > 1)
        + One(sp.fuse /\ o.cat \in FuseEffective)
        + One(Prunes # {0} /\ sp.prune > 0)

Budget ==
    LET searched == Compressible(ops)
        d == SumFunction([k \in DOMAIN searched |-> Dimensions(searched[k])])
    IN  IF Adaptive THEN Min({MaxTrials, Max({MinTrials, PerDim * d + Startup})})
        ELSE MaxTrials

\* What the sampler may choose for an operator.
Choices1(o) ==
    LET sp == SpaceOf(o)
    IN  [prec : sp.prec,
         prune : {r \in Prunes : r <= sp.prune},
         fuse : IF sp.fuse /\ o.cat \in FuseEffective THEN BOOLEAN ELSE {FALSE},
         rank : {NoRank}]

\* The configurations of a trial, by operator name.
Configs ==
    LET searched == ToSet(Compressible(ops))
        names == {o.name : o \in searched}
        all == UNION {Choices1(o) : o \in searched}
    IN  {c \in [names -> all] : \A o \in searched : c[o.name] \in Choices1(o)}

(***************************************************************************)
(* Dominance: accuracy up, size down.                                      *)
(***************************************************************************)
Dominates(q, p) ==
    /\ q.acc >= p.acc /\ q.size <= p.size
    /\ q.acc > p.acc \/ q.size < p.size

NonDominated(s) ==
    MembersAt(s, {k \in DOMAIN s : ~\E j \in DOMAIN s : Dominates(s[j], s[k])})

\* study.best_trials keeps the non-dominated trials; those that were measured
\* are the frontier, and when there is none the measured ones among themselves.
FrontierMapped ==
    LET best == NonDominated(values)
        nums == {best[k].num : k \in DOMAIN best}
    IN  MembersAt(points, {k \in DOMAIN points : points[k].num \in nums})

Frontier ==
    LET best == NonDominated(values)
        nums == {best[k].num : k \in DOMAIN best}
        mapped == MembersAt(points, {k \in DOMAIN points : points[k].num \in nums})
    IN  IF mapped # <<>> THEN mapped ELSE NonDominated(points)

(***************************************************************************)
(* The optional early stop: the hypervolume, in percent of the original on *)
(* both axes, dominated up to the reference point (110, 110).              *)
(***************************************************************************)
HvRef == 110

Clip(v) == Max({0, Min({v, HvRef})})

Loss(t, origAcc, origSize) ==
    [x |-> Clip(100 - (IF origAcc > 0 THEN (100 * t.acc) \div origAcc ELSE 0)),
     y |-> Clip(IF origSize > 0 THEN (100 * t.size) \div origSize ELSE 0)]

Losses(origAcc, origSize) ==
    {Loss(t, origAcc, origSize) : t \in ToSet(NonDominated(values'))}

HypervolumeStrict(pts) ==
    LET xs == Ascending({p.x : p \in pts} \cup {HvRef})
        Lowest(x) == Min({HvRef} \cup {p.y : p \in {q \in pts : q.x < x}})
    IN  SumFunction([k \in 1 .. Len(xs) - 1 |-> (xs[k + 1] - xs[k]) * (HvRef - Lowest(xs[k]))])

Hypervolume(pts) ==
    LET xs == Ascending({p.x : p \in pts} \cup {HvRef})
        Lowest(x) == Min({HvRef} \cup {p.y : p \in {q \in pts : q.x <= x}})
    IN  SumFunction([k \in 1 .. Len(xs) - 1 |-> (xs[k + 1] - xs[k]) * (HvRef - Lowest(xs[k]))])

\* The callback after a trial; quiet before the floor.
PlateauCallback ==
    LET floor == Max({Startup, Min({MinTrials, budget})})
        v == Hypervolume(Losses(pareto.origAcc, ByteSize(graph)))
        past == hv[Len(hv) + 1 - Patience]
        flat == IF past > 0 THEN 1000 * (v - past) < Epsilon * past ELSE FALSE
    IN  IF ~(EarlyStop /\ Adaptive) \/ Len(values') < floor
        THEN UNCHANGED <<hv, stopped>>
        ELSE /\ hv' = Append(hv, v)
             /\ stopped' = (stopped \/ (Len(hv) + 1 > Patience /\ flat))

(***************************************************************************)
(* search(): the baseline, the trials, the frontier.                       *)
(***************************************************************************)
Reset == /\ values' = <<>> /\ hv' = <<>> /\ stopped' = FALSE

\* Without a compressible operator the search is skipped.
SkipSearch ==
    /\ pc = "search"
    /\ Compressible(ops) = <<>>
    /\ Checkpoint("ladder")
    /\ UNCHANGED <<runVars, cancel, searchVars>>

\* The baseline evaluation is outside the objective: a cancel seen there raises.
StartSearch ==
    /\ pc = "search"
    /\ Compressible(ops) # <<>>
    /\ Checkpoint("trial")
    /\ budget' = Budget
    /\ pareto' = [NoResult EXCEPT !.origAcc = Quality(graph, graph, 100)]
    /\ UNCHANGED <<runVars, cancel, values, points, hv, stopped>>

SearchingOnceMore == pc = "trial" /\ Len(values) <= budget /\ ~stopped

Searching == pc = "trial" /\ Len(values) < budget /\ ~stopped

Finished(acc, size) ==
    values' = Append(values, [num |-> Len(values), acc |-> acc, size |-> size])

\* Nothing to apply: the trial scores as the original and is not measured.
EmptyTrial ==
    /\ Finished(pareto.origAcc, ByteSize(graph))
    /\ PlateauCallback
    /\ UNCHANGED <<pc, runVars, cancel, seen, budget, points, pareto>>

\* The transformer raises: nothing around study.optimize catches it.
BrokenTrial(candidate) ==
    /\ candidate.err
    /\ pc' = "failed"
    /\ UNCHANGED <<runVars, cancel, seen, searchVars>>

\* The evaluation polls first; the PipelineCancelled it raises is an Exception,
\* which the objective turns into a worst score.
CancelledTrial(candidate) ==
    /\ ~candidate.err
    /\ TRUE \in Polls
    /\ seen' = TRUE
    /\ Finished(0, ByteSize(graph))
    /\ PlateauCallback
    /\ UNCHANGED <<pc, runVars, cancel, budget, points, pareto>>

MeasuredTrial(c, candidate) ==
    /\ ~candidate.err
    /\ FALSE \in Polls
    /\ \E ofs \in Fidelities(graph, candidate), size \in {ByteSize(candidate)} :
          \E acc \in {Quality(graph, candidate, ofs)} :
            /\ Finished(acc, size)
            /\ points' = Append(points, [num |-> Len(values), acc |-> acc,
                                         size |-> size, config |-> c])
    /\ PlateauCallback
    /\ UNCHANGED <<pc, runVars, cancel, seen, budget, pareto>>

Trial ==
    /\ Searching
    /\ \E c \in Configs : \E actions \in {ActionsOf(Compressible(ops), c)} :
        \/ actions = <<>> /\ EmptyTrial
        \/ /\ actions # <<>>
           /\ \E candidate \in {Apply(graph, actions)} :
                \/ BrokenTrial(candidate)
                \/ CancelledTrial(candidate)
                \/ MeasuredTrial(c, candidate)

FinishSearch ==
    /\ pc = "trial"
    /\ ~Searching
    /\ Checkpoint("ladder")
    /\ pareto' = [pareto EXCEPT !.front = Frontier]
    /\ Reset
    /\ UNCHANGED <<runVars, cancel, budget, points>>
=============================================================================
