--------------------------- MODULE PipelineProofs ---------------------------
(***************************************************************************)
(* Theorems about the two compression pipelines.                           *)
(* Pipeline, for any graphs, ladder, floor, budget, sampler and outcome of *)
(* the external conversions: what the ladder and the selection promise,    *)
(* that a cancel seen between phases is obeyed, that a trial's export is   *)
(* the graph that was measured, the types, the frontier, the hypervolume,  *)
(* and that the most sensitive operator is spared.                         *)
(* WeightOnly, for any files whose readers manage them and that are called *)
(* what they are: where the worker sends a file, and that a damaged matrix *)
(* is reported.                                                            *)
(***************************************************************************)
EXTENDS Pipeline, WeightOnly, TransformProofs

Early == {"ingest", "analyze", "sense", "search", "trial"}
Late == {"publish", "benchmark", "finish", "done", "cancelled"}

\* The phases follow each other: there is no result of the ladder before it, no
\* report outside of it, and nothing is served before the selection.
PhasesInOrder ==
    /\ pc \in Stages
    /\ pc \in Early => ladder = NoLadder
    /\ reports # <<>> => pc = "ladder"
    /\ served # NotServed => pc \in Late

\* Past the sensitivities, only a graph that runs has operators to compress.
ExecutableIfCompressible ==
    pc \notin {"ingest", "analyze", "sense", "failed", "cancelled"}
        /\ Compressible(ops) # <<>> => Runnable(graph)

\* While the ladder is climbed, every report so far is a refusal.
Climbed ==
    /\ reports \in Seq(Range(reports))
    /\ Len(reports) <= Len(Ladder) + 1
    /\ Climbing =>
          /\ Len(reports) <= Len(Ladder)
          /\ \A k \in DOMAIN reports : reports[k].reason # "accepted"

\* What the ladder hands on, with the reason why it can be executed.
LadderSound == LadderCertified /\ (ladder # NoLadder /\ Tau > 0 => ladder.runs)

PipelineInv ==
    /\ PhasesInOrder /\ ExecutableIfCompressible /\ Climbed
    /\ MostAggressiveFirst /\ LadderSound /\ ServedCertified
----------------------------------------------------------------------------
(* The candidates and their measurement.                                    *)

\* A graph that does not run measures zero.
LEMMA FidelityFacts ==
    ASSUME NEW g, NEW c, NEW ofs \in Fidelities(g, c)
    PROVE  ofs \in Percent /\ (ofs > 0 => Runnable(c))
BY SensitivityAssumption DEF Fidelities, Percent

\* A candidate that could not be built measures zero; one above zero runs.
LEMMA CandidateFacts ==
    ASSUME NEW rung, NEW c \in Candidates(rung), NEW ofs \in Gate(c)
    PROVE  /\ c.kind \in {"built", "error", "n/a"}
           /\ ofs \in Percent
           /\ ofs > 0 => c.runs
<1>1. ASSUME NEW what, c = Failed(what), what \in {"error", "n/a"}
      PROVE  c.kind \in {"error", "n/a"} /\ ofs = 0
    BY <1>1 DEF Failed, Gate
<1>2. ASSUME NEW g, c = Built(g)
      PROVE  c.kind = "built" /\ ofs \in Percent /\ (ofs > 0 => c.runs)
  <2>1. ofs \in Fidelities(graph, g) \cup {0} /\ c.runs = Runnable(g) /\ c.kind = "built"
      BY <1>2 DEF Built, Gate
  <2>2. CASE ofs = 0
      BY <2>1, <2>2 DEF Percent
  <2>3. CASE ofs \in Fidelities(graph, g)
      BY <2>1, <2>3, FidelityFacts
  <2> QED BY <2>1, <2>2, <2>3
<1>3. ASSUME c \in External
      PROVE  c.kind \in {"built", "error"} /\ ofs \in Percent /\ (ofs > 0 => c.runs)
  <2>1. CASE c = Failed("error")
    <3>1. c.kind = "error" /\ ofs = 0
        BY <2>1 DEF Failed, Gate
    <3> QED BY <3>1 DEF Percent
  <2>2. CASE \E s \in ExternalSizes :
                 c = [kind |-> "built", size |-> (OrigSize * s) \div 100,
                      fidelities |-> OfsLevels, runs |-> TRUE]
    <3>1. c.kind = "built" /\ c.fidelities = OfsLevels /\ c.runs = TRUE
        BY <2>2
    <3>2. ofs \in OfsLevels \cup {0}
        BY <3>1 DEF Gate
    <3> QED BY <3>1, <3>2, SensitivityAssumption DEF Percent
  <2> QED BY <1>3, <2>1, <2>2 DEF External
<1>4. ASSUME NEW cats, NEW keep, NEW prec, c = Native(cats, keep, prec)
      PROVE  c = Failed("error") \/ \E g : c = Built(g)
    BY <1>4 DEF Native
<1>5. \/ c = Failed("n/a") \/ c \in External
      \/ c = Native(Scope(rung).cats, Scope(rung).keep, Scope(rung).prec)
    BY DEF Candidates
<1> QED BY <1>1, <1>2, <1>3, <1>4, <1>5 DEF Percent

LEMMA CheckpointMoves ==
    ASSUME NEW next, Checkpoint(next)
    PROVE  pc' \in {next, "cancelled"}
BY DEF Checkpoint
----------------------------------------------------------------------------
(* The invariant, part by part.                                             *)

LEMMA PipelineInvInit == Init => PipelineInv
<1> SUFFICES ASSUME Init PROVE PipelineInv
    OBVIOUS
<1>1. PhasesInOrder /\ ExecutableIfCompressible
    BY DEF Init, PhasesInOrder, Stages, Early, ExecutableIfCompressible
<1>2. Climbed
    BY DEF Init, Climbed, Climbing
<1>3. MostAggressiveFirst
    BY DEF Init, MostAggressiveFirst
<1>4. LadderSound
    BY DEF Init, LadderSound, LadderCertified
<1>5. ServedCertified
    BY DEF Init, ServedCertified
<1> QED BY <1>1, <1>2, <1>3, <1>4, <1>5 DEF PipelineInv

LEMMA PhasesStep ==
    ASSUME PhasesInOrder, [Next]_vars
    PROVE  PhasesInOrder'
<1> USE CheckpointMoves DEF PhasesInOrder, Stages, Early, Late
<1>1. CASE Prepare
    BY <1>1 DEF Prepare, Ingest, Analyze, Sense, ladderVars
<1>2. CASE SearchStep
  <2>1. CASE SkipSearch
      BY <1>2, <2>1 DEF SearchStep, SkipSearch, ladderVars
  <2>2. CASE StartSearch
      BY <1>2, <2>2 DEF SearchStep, StartSearch, ladderVars
  <2>3. CASE Trial
    <3>1. pc = "trial" /\ pc' \in {"trial", "failed"}
        BY <2>3 DEF Trial, Searching, EmptyTrial, BrokenTrial, CancelledTrial, MeasuredTrial
    <3> QED BY <1>2, <3>1 DEF SearchStep, ladderVars
  <2>4. CASE FinishSearch
      BY <1>2, <2>4 DEF SearchStep, FinishSearch, ladderVars
  <2> QED BY <1>2, <2>1, <2>2, <2>3, <2>4 DEF SearchStep
<1>3. CASE LadderStep
    BY <1>3 DEF LadderStep, TryRung, Fallback, Climbing
<1>4. CASE LadderRaises
    BY <1>4 DEF LadderRaises, Climbing
<1>5. CASE EndLadder
    BY <1>5 DEF EndLadder
<1>6. CASE SelectTrial
    BY <1>6 DEF SelectTrial, ladderVars
<1>7. CASE SelectLadder
    BY <1>7 DEF SelectLadder, ladderVars
<1>8. CASE SelectFallback
    BY <1>8 DEF SelectFallback, ladderVars
<1>9. CASE SaveArtifact
    BY <1>9 DEF SaveArtifact, ladderVars
<1>10. CASE BenchmarkOriginal
    BY <1>10 DEF BenchmarkOriginal, ladderVars
<1>11. CASE Finish
    BY <1>11 DEF Finish, ladderVars
<1>12. CASE Interrupt /\ UNCHANGED <<searchVars, ladderVars, served>>
    BY <1>12 DEF Interrupt, ladderVars
<1>13. CASE UNCHANGED vars
    BY <1>13 DEF vars, ladderVars
<1> QED BY <1>1, <1>2, <1>3, <1>4, <1>5, <1>6, <1>7, <1>8, <1>9, <1>10, <1>11, <1>12,
           <1>13 DEF Next

\* Only the ladder's own steps write reports or a result; other steps leave the
\* reports or clear them, and only the preparation changes the graph.
LEMMA LadderFrame ==
    ASSUME [Next]_vars, ~LadderStep
    PROVE  ladder' = ladder /\ reports' \in {reports, <<>>}
<1> USE DEF ladderVars
<1>1. CASE Prepare
    BY <1>1 DEF Prepare
<1>2. CASE SearchStep
    BY <1>2 DEF SearchStep
<1>3. CASE LadderRaises
    BY <1>3 DEF LadderRaises
<1>4. CASE EndLadder
    BY <1>4 DEF EndLadder
<1>5. CASE SelectTrial
    BY <1>5 DEF SelectTrial
<1>6. CASE SelectLadder
    BY <1>6 DEF SelectLadder
<1>7. CASE SelectFallback
    BY <1>7 DEF SelectFallback
<1>8. CASE SaveArtifact
    BY <1>8 DEF SaveArtifact
<1>9. CASE BenchmarkOriginal
    BY <1>9 DEF BenchmarkOriginal
<1>10. CASE Finish
    BY <1>10 DEF Finish
<1>11. CASE UNCHANGED ladderVars
    BY <1>11
<1> QED BY <1>1, <1>2, <1>3, <1>4, <1>5, <1>6, <1>7, <1>8, <1>9, <1>10, <1>11
        DEF Next, vars

LEMMA GraphFrame ==
    ASSUME [Next]_vars, ~Prepare
    PROVE  UNCHANGED runVars
<1> USE DEF runVars
<1>1. CASE SearchStep
  <2>1. ASSUME Trial PROVE UNCHANGED runVars
      BY <2>1 DEF Trial, EmptyTrial, BrokenTrial, CancelledTrial, MeasuredTrial
  <2> QED BY <1>1, <2>1 DEF SearchStep, SkipSearch, StartSearch, FinishSearch
<1>2. CASE LadderStep
    BY <1>2 DEF LadderStep
<1>3. CASE LadderRaises
    BY <1>3 DEF LadderRaises
<1>4. CASE EndLadder
    BY <1>4 DEF EndLadder
<1>5. CASE SelectTrial
    BY <1>5 DEF SelectTrial
<1>6. CASE SelectLadder
    BY <1>6 DEF SelectLadder
<1>7. CASE SelectFallback
    BY <1>7 DEF SelectFallback
<1>8. CASE SaveArtifact
    BY <1>8 DEF SaveArtifact
<1>9. CASE BenchmarkOriginal
    BY <1>9 DEF BenchmarkOriginal
<1>10. CASE Finish
    BY <1>10 DEF Finish
<1>11. CASE Interrupt
    BY <1>11 DEF Interrupt
<1> QED BY <1>1, <1>2, <1>3, <1>4, <1>5, <1>6, <1>7, <1>8, <1>9, <1>10, <1>11
        DEF Next, vars

LEMMA ExecutableStep ==
    ASSUME PhasesInOrder, PhasesInOrder', ExecutableIfCompressible, [Next]_vars
    PROVE  ExecutableIfCompressible'
<1> USE CheckpointMoves DEF ExecutableIfCompressible
<1>1. CASE Prepare
  <2>1. CASE Ingest
      BY <2>1 DEF Ingest
  <2>2. CASE Analyze
      BY <2>2 DEF Analyze
  <2>3. CASE Sense
      BY <2>3 DEF Sense
  <2> QED BY <1>1, <2>1, <2>2, <2>3 DEF Prepare
<1>2. CASE ~Prepare
  <2>1. UNCHANGED <<graph, ops>>
      BY <1>2, GraphFrame DEF runVars
  <2>2. pc \notin {"ingest", "analyze", "sense", "failed", "cancelled"} \/ pc' = pc
    <3>1. ASSUME Interrupt \/ UNCHANGED vars PROVE pc' = pc
        BY <3>1 DEF Interrupt, vars
    <3>2. ASSUME SearchStep \/ LadderStep \/ LadderRaises \/ EndLadder
          PROVE  pc \in {"search", "trial", "ladder"}
        BY <3>2 DEF SearchStep, SkipSearch, StartSearch, Trial, Searching, FinishSearch,
           LadderStep, TryRung, Fallback, LadderRaises, EndLadder, Climbing
    <3>3. ASSUME SelectTrial \/ SelectLadder \/ SelectFallback
                 \/ SaveArtifact \/ BenchmarkOriginal \/ Finish
          PROVE  pc \in {"select", "publish", "benchmark", "finish"}
        BY <3>3 DEF SelectTrial, SelectLadder, SelectFallback, SaveArtifact,
           BenchmarkOriginal, Finish
    <3> QED BY <1>2, <3>1, <3>2, <3>3 DEF Next
  <2> QED BY <2>1, <2>2
<1> QED BY <1>1, <1>2

\* A step that is not the ladder's leaves nothing to climb but an empty start.
LEMMA NotClimbing ==
    ASSUME PhasesInOrder, PhasesInOrder', [Next]_vars, ~LadderStep
    PROVE  /\ reports' # <<>> => reports' = reports /\ UNCHANGED <<graph, ops, profile>>
           /\ ladder # NoLadder => UNCHANGED graph
<1>1. CASE Prepare
  <2>1. pc \in {"ingest", "analyze", "sense"}
      BY <1>1 DEF Prepare, Ingest, Analyze, Sense
  <2> QED BY <2>1, LadderFrame DEF PhasesInOrder, Early
<1>2. CASE ~Prepare
    BY <1>2, GraphFrame, LadderFrame DEF runVars
<1> QED BY <1>1, <1>2

\* A sequence and one more element.
LEMMA AppendFacts ==
    ASSUME NEW s, s \in Seq(Range(s)), NEW e
    PROVE  LET t == Append(s, e)
               n == Len(s)
           IN  /\ t \in Seq(Range(t)) /\ Len(t) = n + 1
               /\ DOMAIN s = 1 .. n /\ DOMAIN t = 1 .. n + 1
               /\ t[n + 1] = e /\ \A k \in 1 .. n : t[k] = s[k]
<1> DEFINE S == Range(s) \cup {e}
           t == Append(s, e)
<1>1. s \in Seq(S)
    OBVIOUS
<1>2. /\ t \in Seq(S) /\ Len(t) = Len(s) + 1
      /\ \A k \in 1 .. Len(s) : t[k] = s[k]
      /\ t[Len(s) + 1] = e
    BY <1>1
<1>3. DOMAIN s = 1 .. Len(s) /\ DOMAIN t = 1 .. Len(t) /\ Len(t) \in Nat
    BY <1>1, <1>2
<1> HIDE DEF t
<1>4. t \in Seq(Range(t))
  <2>1. t = [k \in 1 .. Len(t) |-> t[k]]
      BY <1>2
  <2>2. \A k \in 1 .. Len(t) : t[k] \in Range(t)
      BY <1>3 DEF Range
  <2> QED BY <1>3, <2>1, <2>2
<1> QED BY <1>2, <1>3, <1>4 DEF t

LEMMA ClimbedStep ==
    ASSUME PhasesInOrder, PhasesInOrder', Climbed, MostAggressiveFirst, [Next]_vars
    PROVE  Climbed' /\ MostAggressiveFirst'
<1> USE GuaranteeAssumption
<1>1. CASE ~LadderStep
  <2>1. CASE reports' = <<>>
      BY <2>1 DEF Climbed, MostAggressiveFirst
  <2>2. CASE reports' # <<>>
    <3>1. reports' = reports /\ ladder' = ladder /\ OrigSize' = OrigSize
        BY <1>1, <2>2, NotClimbing, LadderFrame DEF OrigSize
    <3>2. Climbing' => Climbing
        BY <2>2, <3>1 DEF PhasesInOrder, Climbing
    <3> QED BY <3>1, <3>2 DEF Climbed, MostAggressiveFirst
  <2> QED BY <2>1, <2>2
<1>2. CASE LadderStep
  <2>0. UNCHANGED <<pc, graph>> /\ OrigSize' = OrigSize /\ Climbing
        /\ reports \in Seq(Range(reports)) /\ Len(reports) \in Nat
        /\ \A k \in DOMAIN reports :
              reports[k].rung = Ladder[k] /\ reports[k].reason # "accepted"
      BY <1>2 DEF LadderStep, runVars, OrigSize, TryRung, Fallback, Climbed, MostAggressiveFirst
  <2>1. CASE TryRung
    <3>1. PICK c \in Candidates(NextRung) : \E ofs \in Gate(c) :
            /\ reports' = Append(reports, Report(NextRung, c, ofs))
            /\ ladder' = IF Refusal(c, ofs) = "accepted"
                         THEN [rung |-> NextRung, ofs |-> ofs, size |-> c.size, runs |-> c.runs]
                         ELSE ladder
        BY <2>1 DEF TryRung
    <3>2. PICK ofs \in Gate(c) :
            /\ reports' = Append(reports, Report(NextRung, c, ofs))
            /\ ladder' = IF Refusal(c, ofs) = "accepted"
                         THEN [rung |-> NextRung, ofs |-> ofs, size |-> c.size, runs |-> c.runs]
                         ELSE ladder
        BY <3>1
    <3> DEFINE n == Len(reports)
    <3>3. /\ reports' \in Seq(Range(reports')) /\ Len(reports') = n + 1
          /\ DOMAIN reports = 1 .. n /\ DOMAIN reports' = 1 .. n + 1
          /\ reports'[n + 1] = Report(NextRung, c, ofs)
          /\ \A k \in 1 .. n : reports'[k] = reports[k]
      <4>1. reports' = Append(reports, Report(NextRung, c, ofs))
          BY <3>2
      <4> QED BY ONLY <2>0, <4>1, AppendFacts
    <3>4. n + 1 \in 1 .. Len(Ladder) /\ NextRung = Ladder[n + 1]
          /\ NextRung \notin {"ORIGINAL", "none"}
        BY <2>0, <2>1 DEF TryRung, NextRung
    <3>5. Refusal(c, ofs) = "accepted" => ofs >= Tau /\ c.size < OrigSize
      <4>1. c.kind \in {"built", "error", "n/a"} /\ ofs \in Percent
          BY <3>1, <3>2, CandidateFacts
      <4> QED BY <4>1 DEF Refusal, Percent
    <3>6. /\ reports'[n + 1].rung = NextRung /\ reports'[n + 1].reason = Refusal(c, ofs)
          /\ reports'[n + 1].ofs = ofs /\ reports'[n + 1].size = c.size
        BY <3>3 DEF Report
    <3>7. \A k \in 1 .. n : reports'[k].rung = Ladder[k] /\ reports'[k].reason # "accepted"
        BY <2>0, <3>3
    <3>8. CASE Refusal(c, ofs) = "accepted"
      <4>1. ladder'.rung = NextRung /\ ~Climbing'
          BY <3>2, <3>4, <3>8 DEF Climbing, NoLadder
      <4> QED BY <2>0, <3>3, <3>4, <3>5, <3>6, <3>7, <3>8, <4>1
              DEF Climbed, MostAggressiveFirst
    <3>9. CASE Refusal(c, ofs) # "accepted"
      <4>1. ladder'.rung = "none"
          BY <2>0, <3>2, <3>9 DEF Climbing, NoLadder
      <4>2. Climbed'
          BY <2>0, <3>3, <3>4, <3>6, <3>7, <3>9 DEF Climbed
      <4>3. MostAggressiveFirst'
          BY <2>0, <3>3, <3>4, <3>6, <3>7, <3>9, <4>1 DEF MostAggressiveFirst
      <4> QED BY <4>2, <4>3
    <3> QED BY <3>8, <3>9
  <2>2. CASE Fallback
    <3> DEFINE n == Len(reports)
    <3>1. /\ reports' \in Seq(Range(reports')) /\ Len(reports') = n + 1
          /\ DOMAIN reports = 1 .. n /\ DOMAIN reports' = 1 .. n + 1
          /\ reports'[n + 1] = [rung |-> "ORIGINAL", reason |-> "accepted",
                                ofs |-> 100, size |-> OrigSize]
          /\ \A k \in 1 .. n : reports'[k] = reports[k]
      <4>1. reports' = Append(reports, [rung |-> "ORIGINAL", reason |-> "accepted",
                                        ofs |-> 100, size |-> OrigSize])
          BY <2>2 DEF Fallback
      <4> QED BY ONLY <2>0, <4>1, AppendFacts
    <3>2. n = Len(Ladder) /\ ladder'.rung = "ORIGINAL" /\ ~Climbing'
        BY <2>2 DEF Fallback, Climbing, NoLadder
    <3>3. \A k \in 1 .. n : reports'[k].rung = Ladder[k] /\ reports'[k].reason # "accepted"
        BY <2>0, <3>1
    <3>4. Climbed'
        BY <3>1, <3>2 DEF Climbed
    <3>5. /\ reports'[n + 1].rung = "ORIGINAL" /\ reports'[n + 1].reason = "accepted"
          /\ reports'[n + 1].ofs >= Tau
        BY <3>1
    <3>6. ASSUME NEW k \in 1 .. n
          PROVE  /\ reports'[k].rung = Ladder[k] /\ k <= Len(Ladder)
                 /\ reports'[k].reason # "accepted" /\ k # Len(reports')
        BY <2>0, <3>1, <3>2, <3>3
    <3>7. MostAggressiveFirst'
        BY <2>0, <3>1, <3>2, <3>5, <3>6 DEF MostAggressiveFirst
    <3> QED BY <3>4, <3>7
  <2> QED BY <1>2, <2>1, <2>2 DEF LadderStep
<1> QED BY <1>1, <1>2

LEMMA LadderSoundStep ==
    ASSUME PhasesInOrder, PhasesInOrder', ExecutableIfCompressible, LadderSound, [Next]_vars
    PROVE  LadderSound'
<1> USE GuaranteeAssumption
<1>1. CASE ~LadderStep
  <2>1. ladder' = ladder
      BY <1>1, LadderFrame
  <2>2. ladder # NoLadder => OrigSize' = OrigSize
      BY <1>1, NotClimbing DEF OrigSize
  <2> QED BY <2>1, <2>2 DEF LadderSound, LadderCertified
<1>2. CASE LadderStep
  <2>1. OrigSize' = OrigSize
      BY <1>2 DEF LadderStep, runVars, OrigSize
  <2>2. CASE TryRung
    <3>1. PICK c \in Candidates(NextRung) : \E ofs \in Gate(c) :
            ladder' = IF Refusal(c, ofs) = "accepted"
                      THEN [rung |-> NextRung, ofs |-> ofs, size |-> c.size, runs |-> c.runs]
                      ELSE ladder
        BY <2>2 DEF TryRung
    <3>2. PICK ofs \in Gate(c) :
            ladder' = IF Refusal(c, ofs) = "accepted"
                      THEN [rung |-> NextRung, ofs |-> ofs, size |-> c.size, runs |-> c.runs]
                      ELSE ladder
        BY <3>1
    <3>3. /\ c.kind \in {"built", "error", "n/a"} /\ ofs \in Percent
          /\ ofs > 0 => c.runs
        BY <3>1, <3>2, CandidateFacts
    <3>4. CASE Refusal(c, ofs) = "accepted"
      <4>1. ofs >= Tau /\ c.size < OrigSize
          BY <3>3, <3>4 DEF Refusal, Percent
      <4>2. Tau > 0 => c.runs
          BY <3>3, <4>1 DEF Percent
      <4>3. ladder'.ofs = ofs /\ ladder'.size = c.size /\ ladder'.runs = c.runs
          BY <3>2, <3>4
      <4> QED BY <2>1, <4>1, <4>2, <4>3 DEF LadderSound, LadderCertified
    <3>5. CASE Refusal(c, ofs) # "accepted"
        BY <2>1, <3>2, <3>5 DEF LadderSound, LadderCertified
    <3> QED BY <3>4, <3>5
  <2>3. CASE Fallback
    <3>1. ladder'.rung = "ORIGINAL" /\ ladder'.ofs = 100 /\ ladder'.runs = Runnable(graph)
        BY <2>3 DEF Fallback
    <3>2. Runnable(graph)
        BY <1>2, <2>3 DEF LadderStep, LadderRuns, Fallback, Climbing, ExecutableIfCompressible
    <3> QED BY <3>1, <3>2 DEF LadderSound, LadderCertified
  <2> QED BY <1>2, <2>2, <2>3 DEF LadderStep
<1> QED BY <1>1, <1>2

LEMMA ServedStep ==
    ASSUME PhasesInOrder, LadderSound, ServedCertified, [Next]_vars
    PROVE  ServedCertified'
<1> USE GuaranteeAssumption DEF ServedCertified
<1>1. CASE SelectTrial /\ ladder # NoLadder
  <2>1. PICK c \in {Reconstruct(graph, ops, Pick.config)} :
          \E ofs \in Fidelities(graph, c) \cup {0} :
              Certified(ofs, c) /\ served' = ServeTrial(Pick, c, "PARETO_CERTIFIED", ofs)
      BY <1>1 DEF SelectTrial
  <2>2. PICK ofs \in Fidelities(graph, c) \cup {0} :
              Certified(ofs, c) /\ served' = ServeTrial(Pick, c, "PARETO_CERTIFIED", ofs)
      BY <2>1
  <2>3. ofs \in Percent /\ (ofs > 0 => Runnable(c))
      BY <2>2, FidelityFacts DEF Percent
  <2>4. /\ served'.source = "pareto" /\ served'.ofs = ofs
        /\ served'.size = ByteSize(c) /\ served'.runs = Runnable(c)
      BY <2>2 DEF ServeTrial
  <2>5. ladder' = ladder
      BY <1>1 DEF SelectTrial, ladderVars
  <2> QED BY <2>2, <2>3, <2>4, <2>5 DEF Certified, Percent
<1>2. CASE SelectLadder
  <2>1. /\ served'.source = "ladder" /\ served'.rung = ladder.rung /\ served'.ofs = ladder.ofs
        /\ served'.size = ladder.size /\ served'.runs = ladder.runs /\ ladder' = ladder
      BY <1>2 DEF SelectLadder, ServeLadder, ladderVars
  <2> QED BY <1>2, <2>1 DEF SelectLadder, LadderSound, LadderCertified
<1>3. CASE (SelectTrial /\ ladder = NoLadder) \/ SelectFallback
    BY <1>3 DEF SelectTrial, SelectFallback, ladderVars
<1>4. CASE LadderStep
    BY <1>4 DEF LadderStep, TryRung, Fallback, Climbing, PhasesInOrder, Late
<1>5. CASE ~(SelectTrial \/ SelectLadder \/ SelectFallback \/ LadderStep)
  <2>1. ladder' = ladder
      BY <1>5, LadderFrame
  <2>2. served' = served
      BY <1>5 DEF Next, vars, Prepare, SearchStep, LadderRaises, EndLadder, SaveArtifact,
         BenchmarkOriginal, Finish
  <2> QED BY <2>1, <2>2
<1> QED BY <1>1, <1>2, <1>3, <1>4, <1>5
----------------------------------------------------------------------------
\* The inductive invariant of a run: the reports kept so far, the ladder's result
\* they lead to and the artifact selected from it (guarantee_compress, run_pipeline).
THEOREM PipelineInvariant == Spec => []PipelineInv
<1>1. PipelineInv /\ [Next]_vars => PipelineInv'
  <2> SUFFICES ASSUME PipelineInv, [Next]_vars PROVE PipelineInv'
      OBVIOUS
  <2>1. PhasesInOrder'
      BY PhasesStep DEF PipelineInv
  <2> QED BY <2>1, ExecutableStep, ClimbedStep, LadderSoundStep, ServedStep DEF PipelineInv
<1> QED BY PipelineInvInit, <1>1, PTL DEF Spec

\* The rung served is the most aggressive admissible one, whatever the ladder, the
\* floor and the outcomes of the conversions are (guarantee_compress).
THEOREM LadderInOrder == Spec => []MostAggressiveFirst
<1>1. PipelineInv => MostAggressiveFirst
    BY DEF PipelineInv
<1> QED BY <1>1, PipelineInvariant, PTL

\* The ladder's result clears the floor, and is smaller than the original unless it
\* is the original (Proposition 1 of guarantee.py).
THEOREM LadderKeepsFloor == Spec => []LadderCertified
<1>1. PipelineInv => LadderCertified
    BY DEF PipelineInv, LadderSound
<1> QED BY <1>1, PipelineInvariant, PTL

\* What a run publishes after a ladder clears the same floor, is the ladder's
\* candidate or smaller, and can be executed when the floor is above zero
\* (run_pipeline, phase 4).
THEOREM PublishedCertified == Spec => []ServedCertified
<1>1. PipelineInv => ServedCertified
    BY DEF PipelineInv
<1> QED BY <1>1, PipelineInvariant, PTL
----------------------------------------------------------------------------
(* Cancellation.                                                            *)

CancelInv ==
    /\ cancel \subseteq {"flag", "deadline"} /\ seen \in BOOLEAN
    /\ seen => cancel # {}
    /\ SeenStops

\* After a poll answered yes the run reaches neither the ladder nor the selection,
\* provided that no read of the flag fails (make_should_cancel takes a failed read
\* for a no).
THEOREM CancelObeyed == ASSUME ~RedisFaults PROVE Spec => []SeenStops
<1> USE DEF CancelInv, SeenStops
<1>1. Init => CancelInv
    BY DEF Init
<1>2. ASSUME CancelInv, [Next]_vars PROVE CancelInv'
  <2>1. Polls \subseteq BOOLEAN /\ (TRUE \in Polls => cancel # {})
      BY DEF Polls
  <2>2. seen => Polls = {TRUE}
      BY <1>2 DEF Polls
  <2>3. ASSUME NEW next, Checkpoint(next), cancel' = cancel PROVE CancelInv'
    <3>1. PICK yes \in Polls : seen' = (seen \/ yes)
                               /\ pc' = IF yes THEN "cancelled" ELSE next
        BY <2>3 DEF Checkpoint
    <3>2. CASE yes = TRUE
      <4>1. seen' = TRUE /\ pc' = "cancelled"
          BY <1>2, <3>1, <3>2
      <4> QED BY <1>2, <2>1, <2>3, <3>1, <3>2, <4>1
    <3>3. CASE yes = FALSE
      <4>1. seen' = FALSE
          BY <1>2, <2>2, <3>1, <3>3
      <4> QED BY <1>2, <2>3, <4>1
    <3> QED BY <2>1, <3>1, <3>2, <3>3
  <2>4. CASE Prepare
    <3>1. CASE Sense /\ UNCHANGED seen
        BY <1>2, <3>1 DEF Sense
    <3> QED BY <2>3, <2>4, <3>1 DEF Prepare, Ingest, Analyze, Sense
  <2>5. CASE SearchStep
    <3>1. CASE Trial
      <4>1. /\ pc = "trial" /\ pc' \in {"trial", "failed"} /\ cancel' = cancel
            /\ (seen' = seen) \/ (seen' = TRUE /\ TRUE \in Polls)
          BY <3>1 DEF Trial, Searching, EmptyTrial, BrokenTrial, CancelledTrial,
             MeasuredTrial, runVars
      <4>2. CASE seen' = seen
          BY <1>2, <4>1, <4>2
      <4>3. CASE seen' = TRUE /\ TRUE \in Polls
          BY <1>2, <2>1, <4>1, <4>3
      <4> QED BY <4>1, <4>2, <4>3
    <3> QED BY <2>3, <2>5, <3>1 DEF SearchStep, SkipSearch, StartSearch, FinishSearch
  <2>6. CASE LadderStep
      BY <1>2, <2>6 DEF LadderStep
  <2>7. CASE LadderRaises \/ EndLadder \/ SaveArtifact \/ BenchmarkOriginal
      BY <2>3, <2>7 DEF LadderRaises, EndLadder, SaveArtifact, BenchmarkOriginal
  <2>8. CASE SelectTrial \/ SelectLadder \/ SelectFallback \/ Finish
      BY <1>2, <2>8 DEF SelectTrial, SelectLadder, SelectFallback, Finish
  <2>9. CASE Interrupt
      BY <1>2, <2>9, SensitivityAssumption DEF Interrupt
  <2>10. CASE UNCHANGED vars
      BY <1>2, <2>10 DEF vars
  <2> QED BY <1>2, <2>4, <2>5, <2>6, <2>7, <2>8, <2>9, <2>10 DEF Next
<1>3. CancelInv => SeenStops
    OBVIOUS
<1> QED BY <1>1, <1>2, <1>3, PTL DEF Spec
-----------------------------------------------------------------------------
(* The trials, the study and what is read from them later.                  *)

\* The graph and the operators a trial was made from, and the size it was given.
Recorded(p) ==
    /\ graph \in Graphs /\ ops = Capped(Operators(graph))
    /\ DOMAIN p.config = {o.name : o \in ToSet(Compressible(ops))}
    /\ ActionsOf(Compressible(ops), p.config) # <<>>
    /\ p.size = ByteSize(Apply(graph, ActionsOf(Compressible(ops), p.config)))

\* Trials are measured on the analysed graph, with the operators the cap left.
TrialsInv ==
    /\ pc \notin {"ingest", "failed", "cancelled"} => graph \in Graphs
    /\ pc \notin {"ingest", "analyze", "failed", "cancelled"} => ops = Capped(Operators(graph))
    /\ pc \in {"ingest", "analyze", "sense", "search"} => points = <<>>
    /\ points \in Seq(ToSet(points))
    /\ \A k \in DOMAIN points : Recorded(points[k])

\* Measured trials are trials of the study, and the frontier is the best of them.
Sound ==
    /\ ToSet(pareto.front) \subseteq ToSet(points)
    /\ \A p \in ToSet(pareto.front) : ~\E q \in ToSet(points) : Dominates(q, p)
    /\ points # <<>> => pareto.front # <<>>

StudyInv ==
    /\ values \in Seq(ToSet(values))
    /\ \A k \in DOMAIN values : values[k].num = k - 1
    /\ pc = "trial" =>
          \A k \in DOMAIN points : \E j \in DOMAIN values :
              /\ values[j].num = points[k].num
              /\ values[j].acc = points[k].acc /\ values[j].size = points[k].size
    /\ pc \in Early => pareto.front = <<>>
    /\ pc \notin Early \cup {"failed", "cancelled"} \/ pareto.front # <<>> => Sound

\* The phases after the search.
Later == Stages \ (Early \cup {"failed", "cancelled"})

\* The steps that neither prepare the run, nor try a configuration, nor read the
\* frontier leave the trials alone.
LEMMA OtherSteps ==
    ASSUME PhasesInOrder, [Next]_vars,
           ~Ingest, ~Analyze, ~StartSearch, ~Trial, ~FinishSearch
    PROVE  /\ UNCHANGED <<graph, ops, values, points, pareto, budget, hv>>
           /\ \/ pc' = pc \/ pc' \in {"failed", "cancelled"}
              \/ pc = "sense" /\ pc' = "search"
              \/ pc = "search" /\ pc' = "ladder"
              \/ pc \in Later /\ pc' \in Later
<1> USE CheckpointMoves DEF PhasesInOrder, Stages, Early, Later, runVars, searchVars
<1>1. CASE Prepare
    BY <1>1 DEF Prepare, Sense
<1>2. CASE SearchStep
    BY <1>2 DEF SearchStep, SkipSearch
<1>3. CASE LadderStep
    BY <1>3 DEF LadderStep
<1>4. CASE LadderRaises
    BY <1>4 DEF LadderRaises, Climbing
<1>5. CASE EndLadder
    BY <1>5 DEF EndLadder
<1>6. CASE SelectTrial
    BY <1>6 DEF SelectTrial
<1>7. CASE SelectLadder
    BY <1>7 DEF SelectLadder
<1>8. CASE SelectFallback
    BY <1>8 DEF SelectFallback
<1>9. CASE SaveArtifact
    BY <1>9 DEF SaveArtifact
<1>10. CASE BenchmarkOriginal
    BY <1>10 DEF BenchmarkOriginal
<1>11. CASE Finish
    BY <1>11 DEF Finish
<1>12. CASE Interrupt /\ UNCHANGED <<searchVars, ladderVars, served>>
    BY <1>12 DEF Interrupt
<1>13. CASE UNCHANGED vars
    BY <1>13 DEF vars
<1> QED BY <1>1, <1>2, <1>3, <1>4, <1>5, <1>6, <1>7, <1>8, <1>9, <1>10, <1>11, <1>12,
           <1>13 DEF Next

\* What one trial does to the study: a measured one is recorded with what it was made from.
TrialMade(c) ==
    \E acc, size :
        /\ c \in Configs /\ ActionsOf(Compressible(ops), c) # <<>>
        /\ size = ByteSize(Apply(graph, ActionsOf(Compressible(ops), c)))
        /\ values' = Append(values, [num |-> Len(values), acc |-> acc, size |-> size])
        /\ points' = Append(points, [num |-> Len(values), acc |-> acc, size |-> size,
                                     config |-> c])

LEMMA TrialSteps ==
    ASSUME Trial
    PROVE  /\ pc = "trial" /\ UNCHANGED <<graph, ops, pareto>>
           /\ \/ UNCHANGED <<values, points>> /\ pc' = "failed"
              \/ /\ points' = points /\ pc' = "trial"
                 /\ \E acc, size : values' = Append(values, [num |-> Len(values), acc |-> acc,
                                                             size |-> size])
              \/ pc' = "trial" /\ \E c : TrialMade(c)
<1> USE DEF Finished, runVars, searchVars
<1>1. pc = "trial"
    BY DEF Trial, Searching
<1>2. PICK c \in Configs :
          LET actions == ActionsOf(Compressible(ops), c)
          IN  \/ actions = <<>> /\ EmptyTrial
              \/ /\ actions # <<>>
                 /\ \/ BrokenTrial(Apply(graph, actions))
                    \/ CancelledTrial(Apply(graph, actions))
                    \/ MeasuredTrial(c, Apply(graph, actions))
    BY DEF Trial
<1> DEFINE actions == ActionsOf(Compressible(ops), c)
<1>3. CASE EmptyTrial
    BY <1>1, <1>3 DEF EmptyTrial
<1>4. CASE BrokenTrial(Apply(graph, actions))
    BY <1>1, <1>4 DEF BrokenTrial
<1>5. CASE CancelledTrial(Apply(graph, actions))
    BY <1>1, <1>5 DEF CancelledTrial
<1>6. CASE actions # <<>> /\ MeasuredTrial(c, Apply(graph, actions))
  <2>1. UNCHANGED <<pc, graph, ops, pareto>>
      BY <1>6 DEF MeasuredTrial
  <2>2. PICK acc, size :
          /\ size = ByteSize(Apply(graph, actions))
          /\ values' = Append(values, [num |-> Len(values), acc |-> acc, size |-> size])
          /\ points' = Append(points, [num |-> Len(values), acc |-> acc, size |-> size,
                                       config |-> c])
      BY <1>6 DEF MeasuredTrial
  <2>3. TrialMade(c)
      BY <1>2, <1>6, <2>2 DEF TrialMade
  <2> QED BY <1>1, <2>1, <2>3
<1> QED BY <1>2, <1>3, <1>4, <1>5, <1>6

\* A sequence stays one when a record is appended.
LEMMA Appended ==
    ASSUME NEW s, s \in Seq(ToSet(s)), NEW x
    PROVE  /\ Append(s, x) \in Seq(ToSet(Append(s, x)))
           /\ Len(s) \in Nat /\ DOMAIN s = 1 .. Len(s)
           /\ DOMAIN Append(s, x) = 1 .. Len(s) + 1
           /\ \A k \in 1 .. Len(s) : Append(s, x)[k] = s[k]
           /\ Append(s, x)[Len(s) + 1] = x
<1> DEFINE T == ToSet(s) \cup {x}
<1>1. s \in Seq(T) /\ x \in T
    OBVIOUS
<1>2. /\ Append(s, x) \in Seq(T)
      /\ Len(s) \in Nat /\ DOMAIN s = 1 .. Len(s)
      /\ DOMAIN Append(s, x) = 1 .. Len(s) + 1
      /\ \A k \in 1 .. Len(s) : Append(s, x)[k] = s[k]
      /\ Append(s, x)[Len(s) + 1] = x
  <2> HIDE DEF T
  <2> QED BY <1>1
<1>3. Append(s, x) \in Seq(ToSet(Append(s, x)))
  <2> DEFINE u == Append(s, x)
  <2>1. u \in Seq(T)
      BY <1>2
  <2> HIDE DEF u, T
  <2>2. u = [k \in 1 .. Len(u) |-> u[k]] /\ Len(u) \in Nat
      BY <2>1
  <2>3. \A k \in 1 .. Len(u) : u[k] \in ToSet(u)
      BY <2>2 DEF ToSet
  <2>4. u \in Seq(ToSet(u))
      BY <2>2, <2>3
  <2> QED BY <2>4 DEF u
<1> QED BY <1>2, <1>3

\* Nothing is tried before the run starts.
LEMMA TrialsInit == Init => TrialsInv /\ StudyInv
<1> SUFFICES ASSUME Init PROVE TrialsInv /\ StudyInv
    OBVIOUS
<1>1. points = <<>> /\ values = <<>> /\ pc = "ingest" /\ pareto.front = <<>>
    BY DEF Init, NoResult
<1>2. DOMAIN points = {} /\ DOMAIN values = {}
    BY <1>1
<1> QED BY <1>1, <1>2 DEF TrialsInv, StudyInv, Early

\* A trial's configuration names the searched operators.
LEMMA ConfigNames ==
    ASSUME NEW c \in Configs
    PROVE  DOMAIN c = {o.name : o \in ToSet(Compressible(ops))}
BY DEF Configs

\* Ingestion and analysis are nothing but that.
LEMMA PreparesOnly ==
    ASSUME [Next]_vars, Ingest \/ Analyze
    PROVE  UNCHANGED <<searchVars, ladderVars, served>>
<1>1. pc \in {"ingest", "analyze"} /\ pc' # pc
    BY CheckpointMoves DEF Ingest, Analyze
<1>2. ~SearchStep
    BY <1>1 DEF SearchStep, SkipSearch, StartSearch, Trial, Searching, FinishSearch
<1>3. ~LadderStep /\ ~LadderRaises /\ ~EndLadder
    BY <1>1 DEF LadderStep, TryRung, Fallback, LadderRaises, EndLadder, Climbing
<1>4. ~SelectTrial /\ ~SelectLadder /\ ~SelectFallback
    BY <1>1 DEF SelectTrial, SelectLadder, SelectFallback
<1>5. ~SaveArtifact /\ ~BenchmarkOriginal /\ ~Finish /\ ~Interrupt /\ ~UNCHANGED vars
    BY <1>1 DEF SaveArtifact, BenchmarkOriginal, Finish, Interrupt, vars
<1>6. Prepare
    BY <1>2, <1>3, <1>4, <1>5 DEF Next
<1> QED BY <1>6 DEF Prepare

\* Every step keeps what the trials were made from.
LEMMA TrialsStep ==
    ASSUME TrialsInv, PhasesInOrder, [Next]_vars
    PROVE  TrialsInv'
<1> USE CheckpointMoves DEF Early, Later, Stages
<1>1. CASE Ingest /\ UNCHANGED <<searchVars, ladderVars, served>>
    BY <1>1 DEF Ingest, TrialsInv, Recorded, searchVars
<1>2. CASE Analyze /\ UNCHANGED <<searchVars, ladderVars, served>>
  <2>1. pc = "analyze" /\ pc' \in {"sense", "cancelled"} /\ UNCHANGED <<graph, points>>
        /\ ops' = Capped(Operators(graph'))
      BY <1>2 DEF Analyze, searchVars
  <2>2. points = <<>> /\ DOMAIN points = {}
      BY <2>1 DEF TrialsInv
  <2> QED BY <2>1, <2>2 DEF TrialsInv
<1>3. CASE StartSearch
  <2>1. pc = "search" /\ pc' \in {"trial", "cancelled"} /\ UNCHANGED <<graph, ops, points>>
      BY <1>3 DEF StartSearch, runVars
  <2> QED BY <2>1 DEF TrialsInv, Recorded
<1>4. CASE FinishSearch
  <2>1. pc = "trial" /\ pc' \in {"ladder", "cancelled"} /\ UNCHANGED <<graph, ops, points>>
      BY <1>4 DEF FinishSearch, runVars
  <2> QED BY <2>1 DEF TrialsInv, Recorded
<1>5. CASE Trial
  <2>1. pc = "trial" /\ UNCHANGED <<graph, ops>> /\ pc' \in {"trial", "failed"}
      BY <1>5, TrialSteps
  <2>2. CASE points' = points
      BY <2>1, <2>2 DEF TrialsInv, Recorded
  <2>3. ASSUME NEW c, TrialMade(c) PROVE TrialsInv'
    <3>1. PICK acc, size :
            /\ c \in Configs /\ ActionsOf(Compressible(ops), c) # <<>>
            /\ size = ByteSize(Apply(graph, ActionsOf(Compressible(ops), c)))
            /\ points' = Append(points, [num |-> Len(values), acc |-> acc, size |-> size,
                                         config |-> c])
        BY <2>3 DEF TrialMade
    <3>0. PICK p : p = [num |-> Len(values), acc |-> acc, size |-> size, config |-> c]
        OBVIOUS
    <3>2. p.config = c /\ p.size = size
        BY <3>0
    <3>3. Recorded(p)'
        BY <2>1, <3>1, <3>2, ConfigNames DEF Recorded, TrialsInv
    <3>4. points' = Append(points, p)
        BY <3>0, <3>1
    <3>5. /\ points' \in Seq(ToSet(points')) /\ Len(points) \in Nat
          /\ DOMAIN points = 1 .. Len(points) /\ DOMAIN points' = 1 .. Len(points) + 1
          /\ \A k \in 1 .. Len(points) : points'[k] = points[k]
          /\ points'[Len(points) + 1] = p
        BY <3>4, Appended DEF TrialsInv
    <3>6. ASSUME NEW k \in DOMAIN points' PROVE Recorded(points[k])'
      <4>1. CASE k \in DOMAIN points
        <5>1. Recorded(points[k]) /\ points'[k] = points[k]
            BY <3>5, <4>1 DEF TrialsInv
        <5> QED BY <2>1, <5>1 DEF Recorded
      <4>2. CASE k = Len(points) + 1
          BY <3>3, <3>5, <4>2 DEF Recorded
      <4> QED BY <3>5, <4>1, <4>2
    <3> QED BY <2>1, <3>5, <3>6 DEF TrialsInv
  <2> QED BY <1>5, <2>2, <2>3, TrialSteps
<1>6. CASE ~Ingest /\ ~Analyze /\ ~StartSearch /\ ~Trial /\ ~FinishSearch
  <2>1. /\ UNCHANGED <<graph, ops, points>>
        /\ \/ pc' = pc \/ pc' \in {"failed", "cancelled"}
           \/ pc = "sense" /\ pc' = "search"
           \/ pc = "search" /\ pc' = "ladder"
           \/ pc \in Later /\ pc' \in Later
      BY <1>6, OtherSteps
  <2> QED BY <2>1 DEF TrialsInv, Recorded
<1> QED BY <1>1, <1>2, <1>3, <1>4, <1>5, <1>6, PreparesOnly

\* What a trial was made from is known for the rest of the run.
LEMMA TrialsInvariant == Spec => []TrialsInv
<1>1. Init => TrialsInv
    BY TrialsInit
<1>2. PhasesInOrder /\ TrialsInv /\ [Next]_vars => TrialsInv'
    BY TrialsStep
<1>3. Spec => []PhasesInOrder
  <2>1. PipelineInv => PhasesInOrder
      BY DEF PipelineInv
  <2> QED BY <2>1, PipelineInvariant, PTL
<1> QED BY <1>1, <1>2, <1>3, PTL DEF Spec
-----------------------------------------------------------------------------
(* A trial rebuilt from its configuration.                                  *)

\* A list of operators with names of their own.
Distinct(s) == \A i, j \in DOMAIN s : s[i].name = s[j].name => i = j

\* op_map: the last operator of a name.
LastNamed(s, name) == SelectLastInSeq(s, LAMBDA o : o.name = name)

\* The last, and only, operator of a name.
LEMMA LastNamedIs ==
    ASSUME NEW n \in Nat, NEW s, s = [k \in 1 .. n |-> s[k]], Distinct(s), NEW k \in 1 .. n
    PROVE  LastNamed(s, s[k].name) = k
<1> DEFINE I == {i \in 1 .. Len(s) : s[i].name = s[k].name}
<1>1. Len(s) = n
    OBVIOUS
<1>2. I = {k}
    BY <1>1 DEF Distinct
<1>3. Max({k}) = k
    BY DEF Max
<1>4. LastNamed(s, s[k].name) = IF I # {} THEN Max(I) ELSE 0
    BY DEF LastNamed, SelectLastInSeq
<1> HIDE DEF I
<1> QED BY <1>2, <1>3, <1>4

\* What is rebuilt from a recorded configuration, out of all the operators, are the
\* actions of the searched ones: a part cap of them, in the same order.
LEMMA RebuiltIs ==
    ASSUME NEW n \in Nat, NEW all, DOMAIN all = 1 .. n, Distinct(all),
           NEW cap, DOMAIN cap = 1 .. n,
           \A i \in 1 .. n : cap[i].compressible => all[i].compressible /\ cap[i] = all[i],
           NEW config, DOMAIN config = {o.name : o \in ToSet(Compressible(cap))}
    PROVE  Rebuilt(all, config) = ActionsOf(Compressible(cap), config)
<1> DEFINE C == {i \in DOMAIN all : all[i].compressible}
           K == {i \in DOMAIN cap : cap[i].compressible}
           known == Compressible(all)
           c == Cardinality(C)
<1>1. C \in SUBSET (1 .. n) /\ K \in SUBSET C /\ K \in SUBSET (1 .. n)
    OBVIOUS
<1>2. /\ c \in Nat
      /\ \A k \in 1 .. c : Ascending(C)[k] \in C
      /\ \A i \in C : \E k \in 1 .. c : Ascending(C)[k] = i
      /\ \A k, l \in 1 .. c : k < l => Ascending(C)[k] < Ascending(C)[l]
    BY <1>1, PlacesFinite, AscendingFacts DEF Lists
<1>3. known = [k \in 1 .. c |-> all[Ascending(C)[k]]]
    BY DEF Compressible, MembersAt
<1>4. Compressible(cap) = [k \in 1 .. Cardinality(K) |-> cap[Ascending(K)[k]]]
    BY DEF Compressible, MembersAt
<1>5. /\ Cardinality(K) \in Nat
      /\ \A k \in 1 .. Cardinality(K) : Ascending(K)[k] \in K
      /\ \A i \in K : \E k \in 1 .. Cardinality(K) : Ascending(K)[k] = i
    BY <1>1, PlacesFinite, AscendingFacts DEF Lists
<1>6. DOMAIN config = {all[i].name : i \in K}
  <2>1. ToSet(Compressible(cap)) = {cap[i] : i \in K}
    <3> HIDE DEF K
    <3> QED BY <1>4, <1>5 DEF ToSet
  <2>2. \A i \in K : cap[i] = all[i]
      OBVIOUS
  <2> QED BY <2>1, <2>2
<1>7. Distinct(known)
  <2>1. ASSUME NEW k \in 1 .. c, NEW l \in 1 .. c, known[k].name = known[l].name PROVE k = l
    <3>1. Ascending(C)[k] = Ascending(C)[l]
        BY <1>2, <1>3, <2>1, <1>1 DEF Distinct
    <3>2. Ascending(C)[k] \in Nat /\ ~(Ascending(C)[k] < Ascending(C)[k])
        BY <1>1, <1>2
    <3>3. k \in Nat /\ l \in Nat /\ ~(k < l) /\ ~(l < k)
        BY <1>2, <3>1, <3>2
    <3> QED BY <3>3
  <2> QED BY <1>3, <2>1 DEF Distinct
<1> DEFINE names == [k \in DOMAIN known |-> known[k].name]
           order == Once(names)
           W == {k \in DOMAIN order : order[k] \in DOMAIN config}
           wanted == MembersAt(order, W)
           Mapped(name) == known[LastNamed(known, name)]
<1>8. order = [k \in 1 .. c |-> known[k].name]
  <2>1. DOMAIN names = 1 .. c /\ \A k \in 1 .. c : names[k] = known[k].name
      BY <1>3
  <2>2. \A k, l \in 1 .. c : names[k] = names[l] => k = l
      BY <1>3, <1>7, <2>1 DEF Distinct
  <2> HIDE DEF names, known, C
  <2>3. order = [k \in 1 .. c |-> names[k]]
      BY <1>2, <2>1, <2>2, OnceDistinct
  <2> QED BY <2>1, <2>3
<1>9. W = {k \in 1 .. c : Ascending(C)[k] \in K}
  <2>1. ASSUME NEW k \in 1 .. c PROVE order[k] \in DOMAIN config <=> Ascending(C)[k] \in K
    <3>0. Ascending(C)[k] \in 1 .. n
        BY <1>1, <1>2
    <3>1. order[k] = all[Ascending(C)[k]].name
      <4> HIDE DEF C, order, known
      <4> QED BY <1>3, <1>8
    <3>2. \A i \in K : all[i].name = all[Ascending(C)[k]].name => i = Ascending(C)[k]
      <4>1. \A i \in K : i \in 1 .. n
          BY <1>1
      <4> HIDE DEF K, C
      <4> QED BY <3>0, <4>1 DEF Distinct
    <3>3. order[k] \in DOMAIN config <=> \E i \in K : all[i].name = all[Ascending(C)[k]].name
      <4> HIDE DEF K, C, order
      <4> QED BY <1>6, <3>1
    <3> HIDE DEF K, C, order
    <3> QED BY <3>2, <3>3
  <2> HIDE DEF order, K, C
  <2> QED BY <1>8, <2>1
<1> HIDE DEF K, C, known, order, W
<1> DEFINE m == Cardinality(W)
           q == [k \in 1 .. m |-> Ascending(C)[Ascending(W)[k]]]
<1>10. W \in SUBSET (1 .. c)
    BY <1>9
<1>11. /\ m \in Nat
       /\ \A k \in 1 .. m : Ascending(W)[k] \in W
       /\ \A i \in W : \E k \in 1 .. m : Ascending(W)[k] = i
       /\ \A k, l \in 1 .. m : k < l => Ascending(W)[k] < Ascending(W)[l]
    BY <1>2, <1>10, PlacesFinite, AscendingFacts DEF Lists
<1>12. Cardinality(K) = m /\ \A k \in 1 .. m : Ascending(K)[k] = q[k]
  <2>1. \A k \in 1 .. m : q[k] \in K
      BY <1>9, <1>11
  <2>2. ASSUME NEW i \in K PROVE \E k \in 1 .. m : q[k] = i
    <3>1. PICK l \in 1 .. c : Ascending(C)[l] = i
        BY <1>1, <1>2
    <3>2. l \in W
        BY <1>9, <3>1
    <3>3. PICK k \in 1 .. m : Ascending(W)[k] = l
        BY <1>11, <3>2
    <3> QED BY <3>1, <3>3
  <2>3. ASSUME NEW k \in 1 .. m, NEW l \in 1 .. m, k < l PROVE q[k] < q[l]
    <3>1. Ascending(W)[k] \in 1 .. c /\ Ascending(W)[l] \in 1 .. c
          /\ Ascending(W)[k] < Ascending(W)[l]
        BY <1>10, <1>11, <2>3
    <3> QED BY <1>2, <3>1
  <2> HIDE DEF q, m
  <2>4. Lists(q, m, K)
      BY <2>1, <2>2, <2>3 DEF Lists
  <2>5. K \in SUBSET Int /\ IsFiniteSet(K)
      BY <1>1, PlacesFinite
  <2> QED BY <1>11, <2>4, <2>5, AscendingIs
<1>13. wanted = [k \in 1 .. m |-> order[Ascending(W)[k]]]
    BY DEF MembersAt
<1>14. ASSUME NEW k \in 1 .. m PROVE Mapped(wanted[k]) = cap[Ascending(K)[k]]
  <2> DEFINE l == Ascending(W)[k]
  <2>1. l \in 1 .. c
      BY <1>10, <1>11
  <2>2. wanted[k] = known[l].name
      BY <1>8, <1>13, <2>1
  <2>3. LastNamed(known, known[l].name) = l
    <3>1. known = [i \in 1 .. c |-> known[i]]
        BY <1>3
    <3> HIDE DEF l
    <3> QED BY <1>2, <1>7, <2>1, <3>1, LastNamedIs
  <2>4. Mapped(wanted[k]) = known[l]
      BY <2>2, <2>3
  <2>5. known[l] = all[Ascending(K)[k]]
      BY <1>3, <1>12, <2>1
  <2>6. Ascending(K)[k] \in K
      BY <1>5, <1>12
  <2>7. cap[Ascending(K)[k]] = all[Ascending(K)[k]]
      BY <2>6 DEF K
  <2> QED BY <2>4, <2>5, <2>7
<1>15. [k \in DOMAIN wanted |-> Mapped(wanted[k])] = Compressible(cap)
  <2>1. DOMAIN wanted = 1 .. m
      BY <1>13
  <2> HIDE DEF wanted, Mapped
  <2> QED BY <1>4, <1>12, <1>14, <2>1
<1>16. Rebuilt(all, config) = ActionsOf([k \in DOMAIN wanted |-> Mapped(wanted[k])], config)
    BY DEF Rebuilt, LastNamed, known, order, W
<1> HIDE DEF wanted, Mapped
<1> QED BY <1>15, <1>16

\* Operators have names of their own when there are as many names as nodes.
LEMMA OperatorsDistinct ==
    ASSUME NEW g, g.nodes \in Seq(ToSet(g.nodes)), Cardinality(Names(g)) = Len(g.nodes)
    PROVE  Distinct(Operators(g)) /\ DOMAIN Operators(g) = 1 .. Len(g.nodes)
<1> DEFINE n == Len(g.nodes)
           f == [i \in 1 .. n |-> OpName(g, i)]
<1>1. n \in Nat /\ Nodes(g) = 1 .. n
    BY DEF Nodes
<1>2. f \in Surjection(1 .. n, Names(g))
    BY <1>1 DEF Surjection, Names
<1>3. IsFiniteSet(1 .. n) /\ Cardinality(1 .. n) = n
    BY <1>1, FS_Interval
<1>4. f \in Injection(1 .. n, Names(g))
  <2> HIDE DEF f
  <2> QED BY <1>2, <1>3, FS_SurjSameCardinalityImpliesInj
<1>5. ASSUME NEW i \in 1 .. n, NEW j \in 1 .. n, OpName(g, i) = OpName(g, j) PROVE i = j
  <2>1. f[i] = f[j]
      BY <1>5
  <2> HIDE DEF f
  <2> QED BY <1>4, <2>1 DEF Injection, IsInjective
<1>6. DOMAIN Operators(g) = 1 .. n /\ \A i \in 1 .. n : Operators(g)[i].name = OpName(g, i)
    BY <1>1 DEF Operators
<1> QED BY <1>5, <1>6 DEF Distinct

\* The cap only takes operators away.
LEMMA CappedIs ==
    ASSUME NEW g
    PROVE  /\ DOMAIN Capped(Operators(g)) = Nodes(g)
           /\ \A i \in Nodes(g) : Capped(Operators(g))[i].compressible =>
                 /\ Operators(g)[i].compressible
                 /\ Capped(Operators(g))[i] = Operators(g)[i]
<1> DEFINE all == Operators(g)
<1>1. DOMAIN all = Nodes(g)
    BY DEF Operators
<1>2. DOMAIN Capped(all) = Nodes(g)
  <2> HIDE DEF all
  <2> QED BY <1>1 DEF Capped
<1>3. ASSUME NEW i \in Nodes(g), Capped(all)[i].compressible
      PROVE  all[i].compressible /\ Capped(all)[i] = all[i]
  <2>1. PICK b \in BOOLEAN : Capped(all)[i] = [all[i] EXCEPT !.compressible = (@ /\ b)]
    <3> HIDE DEF all
    <3> QED BY <1>1 DEF Capped
  <2> DEFINE yes == Category(g.nodes[i]) \in CompressibleCategories
  <2>2. PICK name, op, ml, cat, params, flops, attr :
            all[i] = [name |-> name, op |-> op, ml |-> ml, cat |-> cat, params |-> params,
                      flops |-> flops, attr |-> attr, compressible |-> yes]
      BY DEF Operators
  <2> HIDE DEF all, yes
  <2>3. Capped(all)[i].compressible = (all[i].compressible /\ b) /\ all[i].compressible = yes
      BY <2>1, <2>2
  <2>4. b = TRUE /\ yes
      BY <1>3, <2>3
  <2>5. yes = TRUE
      BY <2>4 DEF yes
  <2> QED BY <2>1, <2>2, <2>3, <2>4, <2>5
<1> QED BY <1>2, <1>3 DEF all

\* The rebuilt actions are the trial's, so the graph and its size are.
LEMMA ExportFollows == TrialsInv => ExportMatchesTrial
<1> SUFFICES ASSUME TrialsInv, Cardinality(Names(graph)) = Len(graph.nodes),
                    NEW k \in DOMAIN points
             PROVE  ByteSize(Export(points[k])) = points[k].size
    BY DEF ExportMatchesTrial
<1> DEFINE all == Operators(graph)
           n == Len(graph.nodes)
           config == points[k].config
<1>1. Recorded(points[k])
    BY DEF TrialsInv
<1>2. graph.nodes \in Seq(ToSet(graph.nodes))
  <2>1. WellFormed(graph)
      BY <1>1, SensitivityAssumption DEF Recorded
  <2> QED BY <2>1 DEF WellFormed, IsList
<1>3. n \in Nat /\ Nodes(graph) = 1 .. n
    BY <1>2 DEF Nodes
<1>4. Distinct(all) /\ DOMAIN all = 1 .. n
    BY <1>2, OperatorsDistinct
<1>5. /\ DOMAIN ops = 1 .. n
      /\ \A i \in 1 .. n : ops[i].compressible => all[i].compressible /\ ops[i] = all[i]
    BY <1>1, <1>3, CappedIs DEF Recorded
<1>6. /\ DOMAIN config = {o.name : o \in ToSet(Compressible(ops))}
      /\ ActionsOf(Compressible(ops), config) # <<>>
      /\ points[k].size = ByteSize(Apply(graph, ActionsOf(Compressible(ops), config)))
    BY <1>1 DEF Recorded
<1>7. Rebuilt(all, config) = ActionsOf(Compressible(ops), config)
  <2> HIDE DEF all, n, config
  <2> QED BY <1>3, <1>4, <1>5, <1>6, RebuiltIs
<1>8. Export(points[k]) = Apply(graph, ActionsOf(Compressible(ops), config))
    BY <1>6, <1>7 DEF Export, Reconstruct
<1> QED BY <1>6, <1>8

\* A trial exported later, rebuilt from the configuration it was recorded with out of
\* the operators of the stored graph analysed anew, is the graph the search measured:
\* the cap on the searched operators and the way through a dictionary of names change
\* neither its actions nor their order, when no two operators share a name.
THEOREM ExportAlwaysMatches == Spec => []ExportMatchesTrial
BY TrialsInvariant, ExportFollows, PTL
-----------------------------------------------------------------------------
(* Types: the study's numbers, and what the rest of the run keeps.          *)

\* The operators the cap leaves have the names of the graph's nodes.
LEMMA SearchedNames ==
    ASSUME NEW g, WellFormed(g)
    PROVE  /\ IsList(Compressible(Capped(Operators(g))))
           /\ \A o \in ToSet(Compressible(Capped(Operators(g)))) :
                 \E i \in Nodes(g) : o.name = OpName(g, i) /\ o.name # NoName
<1> DEFINE all == Capped(Operators(g))
<1>1. all = [i \in Nodes(g) |-> all[i]]
    BY DEF Capped, Operators
<1>2. \A i \in Nodes(g) : all[i].name = OpName(g, i)
    BY DEF Capped, Operators
<1> HIDE DEF all
<1>3. /\ IsList(Compressible(all))
      /\ \A o \in ToSet(Compressible(all)) :
            \E i \in Nodes(g) : o.name = OpName(g, i) /\ o.name # NoName
    BY <1>1, <1>2, CompressibleOf
<1> QED BY <1>3 DEF all

\* The actions of a trial.
LEMMA TrialActions ==
    ASSUME NEW c \in Configs, IsList(Compressible(ops))
    PROVE  ActionList(ActionsOf(Compressible(ops), c))
<1> DEFINE s == Compressible(ops)
<1>1. ASSUME NEW o \in ToSet(s)
      PROVE  o.name \in DOMAIN c /\ c[o.name].prune \in Nat /\ c[o.name].rank \in Nat
  <2>1. o.name \in DOMAIN c /\ c[o.name] \in Choices1(o)
      BY DEF Configs
  <2> DEFINE x == c[o.name]
  <2> HIDE DEF x
  <2>2. x.prune \in Prunes /\ x.rank = NoRank
      BY <2>1 DEF Choices1, x
  <2>3. Prunes \subseteq Nat /\ NoRank \in Nat
      BY SearchAssumption DEF NoRank
  <2>4. x.prune \in Nat /\ x.rank \in Nat
      BY <2>2, <2>3
  <2> QED BY <2>1, <2>4 DEF x
<1> HIDE DEF s
<1>2. ListedActions(c, ActionsOf(s, c))
    BY <1>1, AskedList DEF s
<1> QED BY <1>2 DEF ListedActions, s

\* The number of trials.
LEMMA BudgetNat ==
    ASSUME IsList(Compressible(ops))
    PROVE  Budget \in Nat
<1> DEFINE s == Compressible(ops)
           f == [k \in DOMAIN s |-> Dimensions(s[k])]
           d == SumFunction(f)
           least == Max({MinTrials, PerDim * d + Startup})
<1>0. PerDim \in Nat /\ Startup \in Nat /\ MinTrials \in Nat /\ MaxTrials \in Nat
    BY SearchAssumption
<1>1. d \in Nat
  <2>1. \A k \in DOMAIN f : f[k] \in Nat
      BY DEF Dimensions
  <2>2. Len(s) \in Nat /\ DOMAIN f = 1 .. Len(s)
      BY ListFacts
  <2>3. IsFiniteSet(1 .. Len(s))
    <3> HIDE DEF s
    <3> QED BY <2>2, FS_Interval
  <2> HIDE DEF f
  <2> QED BY <2>1, <2>2, <2>3, SumNat
<1>2. Budget = IF Adaptive THEN Min({MaxTrials, least}) ELSE MaxTrials
    BY DEF Budget
<1>3. ASSUME NEW a \in Nat, NEW b \in Nat PROVE Max({a, b}) \in Nat /\ Min({a, b}) \in Nat
    BY PairIs
<1>4. PerDim * d + Startup \in Nat
  <2> HIDE DEF d
  <2> QED BY <1>0, <1>1
<1>5. least \in Nat
    BY <1>0, <1>3, <1>4
<1> HIDE DEF least
<1> QED BY <1>0, <1>2, <1>3, <1>5

\* The numbers of the study: it never exceeds its budget, and scores are percentages.
StudyTypes ==
    /\ budget \in Nat /\ Len(points) <= budget
    /\ IsList(values) /\ Len(values) <= budget
    /\ \A k \in DOMAIN values :
          values[k].num = k - 1 /\ values[k].acc \in Percent /\ values[k].size \in Nat
    /\ \A k \in DOMAIN points : points[k].num \in 0 .. budget - 1 /\ points[k].acc \in Percent
    /\ pc \in {"ingest", "analyze", "sense", "search"} => values = <<>>
    /\ pc = "trial" => pareto.origAcc \in Percent /\ Len(points) <= Len(values)

\* What a trial adds to the study, and to the measured ones.
LEMMA TrialScores ==
    ASSUME Trial, TrialsInv, pareto.origAcc \in Percent
    PROVE  /\ Len(values) < budget /\ UNCHANGED <<budget, pareto>>
           /\ \/ UNCHANGED <<values, points>>
              \/ \E t : /\ t.num = Len(values) /\ t.acc \in Percent /\ t.size \in Nat
                        /\ values' = Append(values, t)
                        /\ \/ points' = points
                           \/ \E p : /\ points' = Append(points, p)
                                     /\ p.num = Len(values) /\ p.acc \in Percent
<1> USE DEF searchVars, runVars
<1>1. pc = "trial" /\ Len(values) < budget
    BY DEF Trial, Searching
<1>2. graph \in Graphs /\ WellFormed(graph) /\ IsList(Compressible(ops))
  <2>1. graph \in Graphs /\ ops = Capped(Operators(graph))
      BY <1>1 DEF TrialsInv
  <2> QED BY <2>1, SearchedNames, SensitivityAssumption
<1>3. PICK c \in Configs :
          LET actions == ActionsOf(Compressible(ops), c)
          IN  \/ actions = <<>> /\ EmptyTrial
              \/ /\ actions # <<>>
                 /\ \/ BrokenTrial(Apply(graph, actions))
                    \/ CancelledTrial(Apply(graph, actions))
                    \/ MeasuredTrial(c, Apply(graph, actions))
    BY DEF Trial
<1> DEFINE actions == ActionsOf(Compressible(ops), c)
           result == Apply(graph, actions)
<1>4. ByteSize(graph) \in Nat /\ ByteSize(result) \in Nat
    BY <1>2, TrialActions, ApplyKeeps, ByteSizeNat
<1>5. \A ofs \in Fidelities(graph, result) : Quality(graph, result, ofs) \in Percent
    BY <1>2, FidelityFacts, QualityBound
<1> HIDE DEF result
<1>6. ASSUME NEW acc \in Percent, NEW size \in Nat, Finished(acc, size), UNCHANGED <<budget, pareto>>,
             \/ points' = points
             \/ points' = Append(points, [num |-> Len(values), acc |-> acc, size |-> size,
                                          config |-> c])
      PROVE  \E t : /\ t.num = Len(values) /\ t.acc \in Percent /\ t.size \in Nat
                    /\ values' = Append(values, t)
                    /\ \/ points' = points
                       \/ \E p : /\ points' = Append(points, p)
                                 /\ p.num = Len(values) /\ p.acc \in Percent
  <2>1. PICK t : t = [num |-> Len(values), acc |-> acc, size |-> size]
      OBVIOUS
  <2>2. t.num = Len(values) /\ t.acc \in Percent /\ t.size \in Nat /\ values' = Append(values, t)
      BY <1>6, <2>1 DEF Finished
  <2>3. PICK p : p = [num |-> Len(values), acc |-> acc, size |-> size, config |-> c]
      OBVIOUS
  <2>4. p.num = Len(values) /\ p.acc \in Percent
        /\ (points' = points \/ points' = Append(points, p))
      BY <1>6, <2>3
  <2> QED BY <2>2, <2>4
<1>7. CASE EmptyTrial
  <2>1. Finished(pareto.origAcc, ByteSize(graph)) /\ UNCHANGED <<budget, points, pareto>>
      BY <1>7 DEF EmptyTrial
  <2> QED BY <1>1, <1>4, <1>6, <2>1
<1>8. CASE BrokenTrial(result)
    BY <1>1, <1>8 DEF BrokenTrial
<1>9. CASE CancelledTrial(result)
  <2>1. Finished(0, ByteSize(graph)) /\ UNCHANGED <<budget, points, pareto>>
      BY <1>9 DEF CancelledTrial
  <2>2. 0 \in Percent
      BY DEF Percent
  <2> QED BY <1>1, <1>4, <1>6, <2>1, <2>2
<1>10. CASE MeasuredTrial(c, result)
  <2>1. PICK ofs \in Fidelities(graph, result), size \in {ByteSize(result)} :
          \E acc \in {Quality(graph, result, ofs)} :
            /\ Finished(acc, size)
            /\ points' = Append(points, [num |-> Len(values), acc |-> acc,
                                         size |-> size, config |-> c])
      BY <1>10 DEF MeasuredTrial
  <2>2. Quality(graph, result, ofs) \in Percent /\ size \in Nat
      BY <1>4, <1>5
  <2>3. UNCHANGED <<budget, pareto>>
      BY <1>10 DEF MeasuredTrial
  <2> QED BY <1>1, <1>6, <2>1, <2>2, <2>3
<1> QED BY <1>3, <1>7, <1>8, <1>9, <1>10 DEF result

LEMMA StudyTypesInit == Init => StudyTypes
<1> SUFFICES ASSUME Init PROVE StudyTypes
    OBVIOUS
<1>1. budget = 0 /\ points = <<>> /\ values = <<>> /\ pc = "ingest"
    BY DEF Init
<1>2. DOMAIN points = {} /\ DOMAIN values = {} /\ Len(points) = 0 /\ Len(values) = 0
    BY <1>1
<1>3. IsList(values)
    BY <1>1 DEF IsList, ToSet
<1> QED BY <1>1, <1>2, <1>3 DEF StudyTypes

LEMMA StudyTypesStep ==
    ASSUME TrialsInv, StudyTypes, PhasesInOrder, [Next]_vars
    PROVE  StudyTypes'
<1> USE CheckpointMoves DEF Early, Later, Stages
<1>0. IsList(points) /\ Len(points) \in Nat /\ DOMAIN points = 1 .. Len(points)
      /\ Len(values) \in Nat /\ DOMAIN values = 1 .. Len(values)
  <2>1. IsList(points)
      BY DEF TrialsInv, IsList
  <2> QED BY <2>1, ListFacts DEF StudyTypes
<1>1. CASE Ingest \/ Analyze
  <2>1. pc \in {"ingest", "analyze"} /\ pc' \in {"analyze", "sense", "cancelled"}
      BY <1>1 DEF Ingest, Analyze
  <2>2. UNCHANGED <<values, points, pareto, budget>>
      BY <1>1, PreparesOnly DEF searchVars
  <2> QED BY <2>1, <2>2 DEF StudyTypes
<1>2. CASE StartSearch
  <2>1. pc = "search" /\ pc' \in {"trial", "cancelled"} /\ UNCHANGED <<values, points, graph, ops>>
        /\ budget' = Budget /\ pareto'.origAcc = Quality(graph, graph, 100)
      BY <1>2 DEF StartSearch, NoResult, runVars
  <2>2. values' = <<>> /\ points' = <<>> /\ Len(values') = 0 /\ Len(points') = 0
        /\ DOMAIN values' = {} /\ DOMAIN points' = {}
      BY <2>1 DEF StudyTypes, TrialsInv
  <2>3. graph \in Graphs /\ ops = Capped(Operators(graph))
      BY <2>1 DEF TrialsInv
  <2>4. WellFormed(graph) /\ IsList(Compressible(ops))
      BY <2>3, SearchedNames, SensitivityAssumption
  <2>5. Budget \in Nat
      BY <2>4, BudgetNat
  <2>6. Quality(graph, graph, 100) \in Percent
      BY <2>4, QualityBound DEF Percent
  <2>7. IsList(values)'
      BY <2>2 DEF IsList, ToSet
  <2> QED BY <2>1, <2>2, <2>5, <2>6, <2>7 DEF StudyTypes
<1>3. CASE FinishSearch
  <2>1. pc = "trial" /\ pc' \in {"ladder", "cancelled"} /\ values' = <<>>
        /\ UNCHANGED <<points, budget>>
      BY <1>3 DEF FinishSearch, Reset
  <2>2. DOMAIN values' = {} /\ Len(values') = 0 /\ IsList(values)'
      BY <2>1 DEF IsList, ToSet
  <2> QED BY <2>1, <2>2 DEF StudyTypes
<1>4. CASE Trial
  <2>1. pc = "trial" /\ pc' \in {"trial", "failed"} /\ pareto.origAcc \in Percent
        /\ Len(points) <= Len(values)
      BY <1>4, TrialSteps DEF StudyTypes
  <2>2. Len(values) < budget /\ UNCHANGED <<budget, pareto>> /\ budget \in Nat
      BY <1>4, <2>1, TrialScores DEF StudyTypes
  <2>3. CASE UNCHANGED <<values, points>>
      BY <2>1, <2>2, <2>3 DEF StudyTypes
  <2>4. ASSUME NEW t, t.num = Len(values), t.acc \in Percent, t.size \in Nat,
               values' = Append(values, t),
               \/ points' = points
               \/ \E p : /\ points' = Append(points, p)
                         /\ p.num = Len(values) /\ p.acc \in Percent
        PROVE  StudyTypes'
    <3>1. /\ IsList(values') /\ DOMAIN values' = 1 .. Len(values) + 1
          /\ \A k \in 1 .. Len(values) : values'[k] = values[k]
          /\ values'[Len(values) + 1] = t
        BY <2>4, Appended DEF StudyTypes, IsList
    <3>2. Len(values') = Len(values) + 1
        BY <1>0, <2>4, <3>1, ListFacts
    <3>3. \A k \in DOMAIN values' :
              values'[k].num = k - 1 /\ values'[k].acc \in Percent /\ values'[k].size \in Nat
      <4> SUFFICES ASSUME NEW k \in DOMAIN values'
                   PROVE  /\ values'[k].num = k - 1 /\ values'[k].acc \in Percent
                          /\ values'[k].size \in Nat
          OBVIOUS
      <4>1. CASE k \in 1 .. Len(values)
          BY <1>0, <3>1, <4>1 DEF StudyTypes
      <4>2. CASE k = Len(values) + 1
          BY <1>0, <2>4, <3>1, <4>2
      <4> QED BY <1>0, <3>1, <4>1, <4>2
    <3>4. /\ Len(points') <= Len(values) + 1 /\ Len(points') <= budget
          /\ \A k \in DOMAIN points' :
                points'[k].num \in 0 .. budget - 1 /\ points'[k].acc \in Percent
      <4>1. CASE points' = points
          BY <1>0, <2>1, <4>1 DEF StudyTypes
      <4>2. ASSUME NEW p, points' = Append(points, p), p.num = Len(values), p.acc \in Percent
            PROVE  /\ Len(points') <= Len(values) + 1 /\ Len(points') <= budget
                   /\ \A k \in DOMAIN points' :
                         points'[k].num \in 0 .. budget - 1 /\ points'[k].acc \in Percent
        <5>1. /\ IsList(points') /\ DOMAIN points' = 1 .. Len(points) + 1
              /\ \A k \in 1 .. Len(points) : points'[k] = points[k]
              /\ points'[Len(points) + 1] = p
            BY <1>0, <4>2, Appended DEF IsList
        <5>2. Len(points') = Len(points) + 1
            BY <1>0, <5>1, ListFacts
        <5>3. ASSUME NEW k \in DOMAIN points'
              PROVE  points'[k].num \in 0 .. budget - 1 /\ points'[k].acc \in Percent
          <6>1. CASE k \in 1 .. Len(points)
              BY <1>0, <5>1, <6>1 DEF StudyTypes
          <6>2. CASE k = Len(points) + 1
              BY <1>0, <2>2, <4>2, <5>1, <6>2
          <6> QED BY <1>0, <5>1, <6>1, <6>2
        <5> QED BY <1>0, <2>1, <2>2, <5>2, <5>3
      <4> QED BY <2>4, <4>1, <4>2
    <3> QED BY <1>0, <2>1, <2>2, <3>1, <3>2, <3>3, <3>4 DEF StudyTypes
  <2> QED BY <1>4, <2>1, <2>3, <2>4, TrialScores
<1>5. CASE ~Ingest /\ ~Analyze /\ ~StartSearch /\ ~Trial /\ ~FinishSearch
  <2>1. /\ UNCHANGED <<values, points, pareto, budget>>
        /\ \/ pc' = pc \/ pc' \in {"failed", "cancelled"}
           \/ pc = "sense" /\ pc' = "search"
           \/ pc = "search" /\ pc' = "ladder"
           \/ pc \in Later /\ pc' \in Later
      BY <1>5, OtherSteps
  <2> QED BY <2>1 DEF StudyTypes
<1> QED BY <1>1, <1>2, <1>3, <1>4, <1>5

\* The other variables.
RunTypes ==
    /\ cancel \subseteq Interrupts /\ seen \in BOOLEAN /\ stopped \in BOOLEAN
    /\ served.source \in {"none", "pareto", "ladder", "fallback"}

LEMMA PlateauTypes == ASSUME stopped \in BOOLEAN, PlateauCallback PROVE stopped' \in BOOLEAN
BY DEF PlateauCallback

LEMMA CheckpointTypes == ASSUME NEW next, Checkpoint(next) PROVE seen' \in BOOLEAN
BY DEF Checkpoint

LEMMA RunTypesStep ==
    ASSUME RunTypes, [Next]_vars
    PROVE  RunTypes'
<1> USE CheckpointTypes DEF RunTypes, searchVars
<1>1. CASE Prepare
    BY <1>1 DEF Prepare, Ingest, Analyze, Sense
<1>2. CASE SearchStep
  <2>1. CASE SkipSearch
      BY <1>2, <2>1 DEF SearchStep, SkipSearch
  <2>2. CASE StartSearch
      BY <1>2, <2>2 DEF SearchStep, StartSearch
  <2>3. CASE Trial
    <3>1. cancel' = cancel /\ seen' \in BOOLEAN
        BY <2>3 DEF Trial, EmptyTrial, BrokenTrial, CancelledTrial, MeasuredTrial
    <3>2. stopped' = stopped \/ PlateauCallback
        BY <2>3 DEF Trial, EmptyTrial, BrokenTrial, CancelledTrial, MeasuredTrial
    <3> QED BY <1>2, <3>1, <3>2, PlateauTypes DEF SearchStep
  <2>4. CASE FinishSearch
      BY <1>2, <2>4 DEF SearchStep, FinishSearch, Reset
  <2> QED BY <1>2, <2>1, <2>2, <2>3, <2>4 DEF SearchStep
<1>3. CASE LadderStep
    BY <1>3 DEF LadderStep
<1>4. CASE LadderRaises
    BY <1>4 DEF LadderRaises
<1>5. CASE EndLadder
    BY <1>5 DEF EndLadder
<1>6. CASE SelectTrial
  <2>1. served'.source = "pareto"
      BY <1>6 DEF SelectTrial, ServeTrial
  <2> QED BY <1>6, <2>1 DEF SelectTrial
<1>7. CASE SelectLadder
  <2>1. served'.source = "ladder"
      BY <1>7 DEF SelectLadder, ServeLadder
  <2> QED BY <1>7, <2>1 DEF SelectLadder
<1>8. CASE SelectFallback
  <2>1. served'.source = "fallback"
      BY <1>8 DEF SelectFallback, NotServed
  <2> QED BY <1>8, <2>1 DEF SelectFallback
<1>9. CASE SaveArtifact
    BY <1>9 DEF SaveArtifact
<1>10. CASE BenchmarkOriginal
    BY <1>10 DEF BenchmarkOriginal
<1>11. CASE Finish
    BY <1>11 DEF Finish
<1>12. CASE Interrupt /\ UNCHANGED <<searchVars, ladderVars, served>>
    BY <1>12 DEF Interrupt
<1>13. CASE UNCHANGED vars
    BY <1>13 DEF vars
<1> QED BY <1>1, <1>2, <1>3, <1>4, <1>5, <1>6, <1>7, <1>8, <1>9, <1>10, <1>11, <1>12,
           <1>13 DEF Next

\* The types of a run's state, for any graphs, configurations and sampler: a study
\* never exceeds its budget, each of its trials bears its own number, a measured trial
\* is one of them, a score is a percentage and a size a number of bytes, whatever the
\* transformer made of the graph.
THEOREM TypeCorrect == Spec => []TypeOK
<1>1. Init => StudyTypes /\ RunTypes
  <2>1. ASSUME Init PROVE RunTypes
    <3>1. cancel = {} /\ seen = FALSE /\ stopped = FALSE
        BY <2>1 DEF Init
    <3>2. served.source = "none"
        BY <2>1 DEF Init, NotServed
    <3> QED BY <3>1, <3>2 DEF RunTypes
  <2> QED BY <2>1, StudyTypesInit
<1>2. PipelineInv /\ TrialsInv /\ StudyTypes /\ RunTypes /\ [Next]_vars => (StudyTypes /\ RunTypes)'
    BY StudyTypesStep, RunTypesStep DEF PipelineInv
<1>3. PipelineInv /\ StudyTypes /\ RunTypes => TypeOK
    BY DEF PipelineInv, PhasesInOrder, Climbed, StudyTypes, RunTypes, TypeOK, Percent
<1> QED BY <1>1, <1>2, <1>3, PipelineInvariant, TrialsInvariant, PTL DEF Spec

-----------------------------------------------------------------------------
(* The frontier.                                                            *)

\* Among finitely many points one is beaten by none: the smallest of the most accurate.
LEMMA BestExists ==
    ASSUME NEW n \in Nat, n > 0, NEW s,
           \A k \in 1 .. n : s[k].acc \in 0 .. 100 /\ s[k].size \in Nat
    PROVE  \E k \in 1 .. n : \A j \in 1 .. n : ~Dominates(s[j], s[k])
<1> DEFINE A == {s[k].acc : k \in 1 .. n}
<1>1. 1 \in 1 .. n /\ A \in SUBSET (0 .. 100) /\ A # {}
    OBVIOUS
<1>2. PICK a \in A : \A b \in A : b <= a
  <2> HIDE DEF A
  <2>1. 100 \in Nat
      OBVIOUS
  <2> QED BY <1>1, <2>1, Greatest
<1> DEFINE B == {s[k].size : k \in {j \in 1 .. n : s[j].acc = a}}
<1>3. B \in SUBSET Nat /\ B # {}
    OBVIOUS
<1>4. PICK z \in B : \A y \in B : z <= y
  <2> HIDE DEF B
  <2> QED BY <1>3, Least
<1>5. PICK k \in 1 .. n : s[k].acc = a /\ s[k].size = z
    OBVIOUS
<1>6. ASSUME NEW j \in 1 .. n PROVE ~Dominates(s[j], s[k])
  <2>1. /\ s[j].acc \in Int /\ s[j].size \in Int /\ s[j].acc <= s[k].acc
        /\ s[k].acc \in Int /\ s[k].size \in Int
        /\ s[j].acc = s[k].acc => s[k].size <= s[j].size
    <3>1. s[j].acc \in A /\ s[k].acc = a /\ s[k].size = z
        BY <1>5
    <3>2. s[j].acc = a => s[j].size \in B
        OBVIOUS
    <3>3. s[j].acc \in Int /\ s[j].size \in Int /\ s[k].acc \in Int /\ s[k].size \in Int
        OBVIOUS
    <3> HIDE DEF A, B
    <3> QED BY <1>2, <1>4, <3>1, <3>2, <3>3
  <2> QED BY <2>1 DEF Dominates
<1> QED BY <1>6

\* The frontier read from the study: what best_trials keeps of the measured points is
\* beaten by none of them.
LEMMA FrontierIs ==
    ASSUME NEW n \in Nat, DOMAIN points = 1 .. n, NEW v \in Nat, DOMAIN values = 1 .. v,
           \A j \in 1 .. v : values[j].num = j - 1
                             /\ values[j].acc \in 0 .. 100 /\ values[j].size \in Nat,
           \A k \in 1 .. n : \E j \in 1 .. v :
               /\ values[j].num = points[k].num
               /\ values[j].acc = points[k].acc /\ values[j].size = points[k].size
    PROVE  /\ ToSet(Frontier) \subseteq ToSet(points)
           /\ \A p \in ToSet(Frontier) : ~\E q \in ToSet(points) : Dominates(q, p)
           /\ points # <<>> => Frontier # <<>>
<1> DEFINE Best(s) == {k \in DOMAIN s : ~\E j \in DOMAIN s : Dominates(s[j], s[k])}
           nums == {NonDominated(values)[k].num : k \in DOMAIN NonDominated(values)}
           M == {k \in DOMAIN points : points[k].num \in nums}
           mapped == MembersAt(points, M)
<1>0. ToSet(points) = {points[k] : k \in 1 .. n}
    BY DEF ToSet
<1>1. Frontier = IF mapped # <<>> THEN mapped ELSE NonDominated(points)
    BY DEF Frontier
<1>2. NonDominated(points) = MembersAt(points, Best(points))
      /\ NonDominated(values) = MembersAt(values, Best(values))
    BY DEF NonDominated
<1>3. /\ Best(points) \in SUBSET (1 .. n) /\ Best(values) \in SUBSET (1 .. v)
      /\ M \in SUBSET (1 .. n)
      /\ \A S \in {Best(points), Best(values), M} : S \in SUBSET Int /\ IsFiniteSet(S)
  <2>1. /\ Best(points) \in SUBSET (1 .. n) /\ Best(values) \in SUBSET (1 .. v)
        /\ M \in SUBSET (1 .. n)
      OBVIOUS
  <2> HIDE DEF Best, M
  <2>2. ASSUME NEW k \in Nat, NEW S \in SUBSET (1 .. k) PROVE S \in SUBSET Int /\ IsFiniteSet(S)
      BY PlacesFinite
  <2>3. Best(points) \in SUBSET Int /\ IsFiniteSet(Best(points))
      BY <2>1, <2>2
  <2>4. Best(values) \in SUBSET Int /\ IsFiniteSet(Best(values))
      BY <2>1, <2>2
  <2>5. M \in SUBSET Int /\ IsFiniteSet(M)
      BY <2>1, <2>2
  <2> QED BY <2>1, <2>3, <2>4, <2>5
<1>4. /\ ToSet(NonDominated(points)) = {points[k] : k \in Best(points)}
      /\ NonDominated(points) = <<>> <=> Best(points) = {}
  <2> HIDE DEF Best
  <2> QED BY <1>2, <1>3, MembersIs
<1>5. ToSet(mapped) = {points[k] : k \in M}
  <2> HIDE DEF M
  <2> QED BY <1>3, MembersIs
<1>6. nums = {values[j].num : j \in Best(values)}
  <2>1. ToSet(NonDominated(values)) = {values[j] : j \in Best(values)}
    <3> HIDE DEF Best
    <3> QED BY <1>2, <1>3, MembersIs
  <2>2. nums = {t.num : t \in ToSet(NonDominated(values))}
      BY DEF ToSet
  <2> HIDE DEF nums, Best
  <2> QED BY <2>1, <2>2
<1>7. ASSUME NEW k \in M, NEW l \in 1 .. n PROVE ~Dominates(points[l], points[k])
  <2>1. PICK j \in Best(values) : values[j].num = points[k].num
    <3> HIDE DEF nums, Best
    <3> QED BY <1>6
  <2>2. PICK i \in 1 .. v : values[i].num = points[k].num
            /\ values[i].acc = points[k].acc /\ values[i].size = points[k].size
      BY <1>3
  <2>3. i = j
    <3>1. j \in 1 .. v /\ values[j].num = j - 1 /\ values[i].num = i - 1
        BY <1>3
    <3> QED BY <2>1, <2>2, <3>1
  <2>4. PICK h \in 1 .. v : values[h].acc = points[l].acc /\ values[h].size = points[l].size
      OBVIOUS
  <2>5. ~Dominates(values[h], values[i])
      BY <2>1, <2>3
  <2> QED BY <2>2, <2>4, <2>5 DEF Dominates
<1>8. ASSUME points # <<>> PROVE Best(points) # {}
  <2>1. n > 0
    <3>1. ASSUME n = 0 PROVE FALSE
      <4>1. DOMAIN points = {}
          BY <3>1
      <4> QED BY <1>8, <4>1
    <3> QED BY <3>1
  <2>2. \A k \in 1 .. n : points[k].acc \in 0 .. 100 /\ points[k].size \in Nat
      OBVIOUS
  <2>3. \E k \in 1 .. n : \A j \in 1 .. n : ~Dominates(points[j], points[k])
      BY <2>1, <2>2, BestExists
  <2> QED BY <2>3
<1>9. CASE mapped # <<>>
  <2> HIDE DEF M, mapped
  <2> QED BY <1>0, <1>1, <1>3, <1>5, <1>7, <1>9
<1>10. CASE mapped = <<>>
  <2>1. Frontier = NonDominated(points)
      BY <1>1, <1>10
  <2>2. ASSUME NEW k \in Best(points), NEW l \in 1 .. n PROVE ~Dominates(points[l], points[k])
      OBVIOUS
  <2> HIDE DEF Best
  <2> QED BY <1>0, <1>3, <1>4, <1>8, <2>1, <2>2
<1> QED BY <1>9, <1>10

\* Every step keeps the measured trials in the study, and the frontier the best of them.
LEMMA StudyStep ==
    ASSUME TrialsInv, StudyInv, PhasesInOrder, TypeOK, [Next]_vars
    PROVE  StudyInv'
<1> USE CheckpointMoves DEF Early, Later, Stages
<1>1. CASE Ingest \/ Analyze
  <2>1. pc \in {"ingest", "analyze"} /\ pc' \in {"analyze", "sense", "cancelled"}
      BY <1>1 DEF Ingest, Analyze
  <2>2. UNCHANGED <<values, points, pareto>>
      BY <1>1, PreparesOnly DEF searchVars
  <2> QED BY <2>1, <2>2 DEF StudyInv, Sound
<1>2. CASE StartSearch
  <2>1. pc = "search" /\ pc' \in {"trial", "cancelled"} /\ UNCHANGED <<values, points>>
        /\ pareto'.front = <<>>
      BY <1>2 DEF StartSearch, NoResult
  <2>2. points' = <<>> /\ DOMAIN points' = {}
      BY <2>1 DEF TrialsInv
  <2> QED BY <2>1, <2>2 DEF StudyInv
<1>3. CASE FinishSearch
  <2>1. pc = "trial" /\ pc' \in {"ladder", "cancelled"} /\ points' = points /\ values' = <<>>
      BY <1>3 DEF FinishSearch, Reset
  <2>2. Sound'
    <3>1. pareto'.front = Frontier
      <4>1. pareto' = [pareto EXCEPT !.front = Frontier]
          BY <1>3 DEF FinishSearch
      <4> QED BY <4>1, <1>3
    <3>2. DOMAIN points = 1 .. Len(points) /\ Len(points) \in Nat
        BY Appended DEF TrialsInv
    <3>3. DOMAIN values = 1 .. Len(values) /\ Len(values) \in Nat
        BY Appended DEF StudyInv
    <3>4. \A j \in 1 .. Len(values) : values[j].num = j - 1
                             /\ values[j].acc \in 0 .. 100 /\ values[j].size \in Nat
        BY <3>3 DEF TypeOK
    <3>5. \A k \in 1 .. Len(points) : \E j \in 1 .. Len(values) :
               /\ values[j].num = points[k].num
               /\ values[j].acc = points[k].acc /\ values[j].size = points[k].size
        BY <2>1, <3>2, <3>3 DEF StudyInv
    <3>6. /\ ToSet(Frontier) \subseteq ToSet(points)
          /\ \A p \in ToSet(Frontier) : ~\E q \in ToSet(points) : Dominates(q, p)
          /\ points # <<>> => Frontier # <<>>
        BY <3>2, <3>3, <3>4, <3>5, FrontierIs
    <3> QED BY <2>1, <3>1, <3>6 DEF Sound
  <2>3. values' \in Seq(ToSet(values')) /\ DOMAIN values' = {}
      BY <2>1
  <2> QED BY <2>1, <2>2, <2>3 DEF StudyInv
<1>4. CASE Trial
  <2>1. pc = "trial" /\ UNCHANGED pareto /\ pareto.front = <<>> /\ pc' \in {"trial", "failed"}
      BY <1>4, TrialSteps DEF StudyInv
  <2>2. CASE UNCHANGED <<values, points>>
      BY <2>1, <2>2 DEF StudyInv
  <2>3. ASSUME NEW acc, NEW size, NEW p,
               values' = Append(values, [num |-> Len(values), acc |-> acc, size |-> size]),
               \/ points' = points
               \/ /\ points' = Append(points, p)
                  /\ p.num = Len(values) /\ p.acc = acc /\ p.size = size
        PROVE  StudyInv'
    <3>1. PICK t : t = [num |-> Len(values), acc |-> acc, size |-> size]
        OBVIOUS
    <3>2. values' = Append(values, t) /\ t.num = Len(values) /\ t.acc = acc /\ t.size = size
        BY <2>3, <3>1
    <3>3. /\ values' \in Seq(ToSet(values')) /\ Len(values) \in Nat
          /\ DOMAIN values = 1 .. Len(values) /\ DOMAIN values' = 1 .. Len(values) + 1
          /\ \A j \in 1 .. Len(values) : values'[j] = values[j]
          /\ values'[Len(values) + 1] = t
        BY <3>2, Appended DEF StudyInv
    <3>4. ASSUME NEW j \in DOMAIN values' PROVE values'[j].num = j - 1
      <4>1. CASE j \in DOMAIN values
          BY <3>3, <4>1 DEF StudyInv
      <4>2. CASE j = Len(values) + 1
          BY <3>2, <3>3, <4>2
      <4> QED BY <3>3, <4>1, <4>2
    <3>5. ASSUME NEW k \in DOMAIN points'
          PROVE  \E j \in DOMAIN values' :
                    /\ values'[j].num = points'[k].num
                    /\ values'[j].acc = points'[k].acc /\ values'[j].size = points'[k].size
      <4>1. CASE k \in DOMAIN points /\ points'[k] = points[k]
        <5>1. PICK j \in DOMAIN values :
                    /\ values[j].num = points[k].num
                    /\ values[j].acc = points[k].acc /\ values[j].size = points[k].size
            BY <2>1, <4>1 DEF StudyInv
        <5>2. j \in DOMAIN values' /\ values'[j] = values[j]
            BY <3>3
        <5> QED BY <4>1, <5>1, <5>2
      <4>2. CASE points' = Append(points, p) /\ p.num = Len(values) /\ p.acc = acc
                 /\ p.size = size
        <5>1. /\ DOMAIN points = 1 .. Len(points) /\ DOMAIN points' = 1 .. Len(points) + 1
              /\ \A i \in 1 .. Len(points) : points'[i] = points[i]
              /\ points'[Len(points) + 1] = p /\ Len(points) \in Nat
            BY <4>2, Appended DEF TrialsInv
        <5>2. CASE k = Len(points) + 1
          <6>1. Len(values) + 1 \in DOMAIN values'
              BY <3>3
          <6> QED BY <3>2, <3>3, <4>2, <5>1, <5>2, <6>1
        <5>3. CASE k \in DOMAIN points
            BY <4>1, <5>1, <5>3
        <5> QED BY <5>1, <5>2, <5>3
      <4> QED BY <2>3, <4>1, <4>2
    <3> QED BY <2>1, <3>3, <3>4, <3>5 DEF StudyInv
  <2>4. ASSUME NEW c, TrialMade(c) PROVE StudyInv'
    <3>1. PICK acc, size :
            /\ values' = Append(values, [num |-> Len(values), acc |-> acc, size |-> size])
            /\ points' = Append(points, [num |-> Len(values), acc |-> acc, size |-> size,
                                         config |-> c])
        BY <2>4 DEF TrialMade
    <3>2. PICK p : p = [num |-> Len(values), acc |-> acc, size |-> size, config |-> c]
        OBVIOUS
    <3>3. points' = Append(points, p) /\ p.num = Len(values) /\ p.acc = acc /\ p.size = size
        BY <3>1, <3>2
    <3> QED BY <2>3, <3>1, <3>3
  <2>5. CASE points' = points /\ \E acc, size :
                values' = Append(values, [num |-> Len(values), acc |-> acc, size |-> size])
      BY <2>3, <2>5
  <2> QED BY <1>4, <2>2, <2>4, <2>5, TrialSteps
<1>5. CASE ~Ingest /\ ~Analyze /\ ~StartSearch /\ ~Trial /\ ~FinishSearch
  <2>1. /\ UNCHANGED <<values, points, pareto>>
        /\ \/ pc' = pc \/ pc' \in {"failed", "cancelled"}
           \/ pc = "sense" /\ pc' = "search"
           \/ pc = "search" /\ pc' = "ladder"
           \/ pc \in Later /\ pc' \in Later
      BY <1>5, OtherSteps
  <2>2. pc = "search" => Sound
      BY DEF TrialsInv, StudyInv, Sound, ToSet
  <2>3. UNCHANGED Sound
      BY <2>1 DEF Sound
  <2> QED BY <2>1, <2>2, <2>3 DEF StudyInv, PhasesInOrder
<1> QED BY <1>1, <1>2, <1>3, <1>4, <1>5

\* The frontier handed to the selection holds measured trials only, none of which
\* another measured trial beats, and is empty only when nothing was measured, although
\* it is read from a study that also holds cancelled trials with the worst score and
\* empty ones with the original's.
THEOREM FrontierAlwaysSound == Spec => []FrontierSound
<1>1. Init => StudyInv
    BY TrialsInit
<1>2. PhasesInOrder /\ TrialsInv /\ TypeOK /\ StudyInv /\ [Next]_vars => StudyInv'
    BY StudyStep
<1>3. Spec => []PhasesInOrder
  <2>1. PipelineInv => PhasesInOrder
      BY DEF PipelineInv
  <2> QED BY <2>1, PipelineInvariant, PTL
<1>4. StudyInv => FrontierSound
    BY DEF StudyInv, Sound, FrontierSound, Early
<1> QED BY <1>1, <1>2, <1>3, <1>4, TrialsInvariant, TypeCorrect, PTL DEF Spec

-----------------------------------------------------------------------------
(* The hypervolume.  The callback sweeps the best trials' losses from left  *)
(* to right; the property sums the area of all the trials column by column. *)
(* Both count the unit cells that some trial dominates.                     *)

\* The unit cells below the reference point, those a set of losses dominates, and the
\* lowest loss of size among the points at most as far in loss of accuracy.
Cells == (0 .. HvRef - 1) \X (0 .. HvRef - 1)

Under(p, c) == p.x <= c[1] /\ p.y <= c[2]

Dominated(pts) == {c \in Cells : \E p \in pts : Under(p, c)}

Low(pts, x) == Min({HvRef} \cup {p.y : p \in {q \in pts : q.x <= x}})

IsLosses(pts) == IsFiniteSet(pts) /\ \A p \in pts : p.x \in 0 .. HvRef /\ p.y \in 0 .. HvRef

LEMMA LowIs ==
    ASSUME NEW pts, IsLosses(pts), NEW x
    PROVE  /\ Low(pts, x) \in 0 .. HvRef
           /\ \A y \in 0 .. HvRef - 1 : y >= Low(pts, x) <=> \E p \in pts : p.x <= x /\ p.y <= y
<1> USE DEF HvRef
<1> DEFINE S == {HvRef} \cup {p.y : p \in {q \in pts : q.x <= x}}
<1>1. S \in SUBSET (0 .. HvRef) /\ HvRef \in S
    BY DEF IsLosses
<1>2. \A p \in pts : p.x <= x => p.y \in S
    OBVIOUS
<1>3. \A s \in S : s = HvRef \/ \E p \in pts : p.x <= x /\ p.y = s
    OBVIOUS
<1> HIDE DEF S
<1>4. Min(S) \in S /\ \A s \in S : Min(S) <= s
  <2>1. S \in SUBSET Nat /\ S # {}
      BY <1>1
  <2> QED BY <2>1, MinIs
<1>5. Low(pts, x) = Min(S)
    BY DEF Low, S
<1>6. Low(pts, x) \in 0 .. HvRef
    BY <1>1, <1>4, <1>5
<1>7. ASSUME NEW y \in 0 .. HvRef - 1
      PROVE  y >= Low(pts, x) <=> \E p \in pts : p.x <= x /\ p.y <= y
  <2>1. ASSUME y >= Low(pts, x) PROVE \E p \in pts : p.x <= x /\ p.y <= y
    <3>1. Low(pts, x) # HvRef
        BY <2>1
    <3>2. PICK p \in pts : p.x <= x /\ p.y = Low(pts, x)
        BY <1>3, <1>4, <1>5, <3>1
    <3> QED BY <1>6, <2>1, <3>2
  <2>2. ASSUME NEW p \in pts, p.x <= x, p.y <= y PROVE y >= Low(pts, x)
    <3>1. Low(pts, x) <= p.y /\ p.y \in 0 .. HvRef
        BY <1>2, <1>4, <1>5, <2>2 DEF IsLosses
    <3> QED BY <1>6, <2>2, <3>1
  <2> QED BY <2>1, <2>2
<1> QED BY <1>6, <1>7

\* A strip of the plane, from one loss of accuracy to the next: its dominated cells.
Strip(pts, a, b) == (a .. b - 1) \X (Low(pts, a) .. HvRef - 1)

LEMMA StripIs ==
    ASSUME NEW pts, IsLosses(pts), NEW a \in 0 .. HvRef, NEW b \in 0 .. HvRef, a <= b
    PROVE  /\ Strip(pts, a, b) \subseteq Dominated(pts)
           /\ Cardinality(Strip(pts, a, b)) = (b - a) * (HvRef - Low(pts, a))
<1> USE DEF HvRef
<1>1. Low(pts, a) \in 0 .. HvRef
    BY LowIs
<1>2. Cardinality(Strip(pts, a, b)) = (b - a) * (HvRef - Low(pts, a))
  <2> DEFINE S == a .. b - 1
             T == Low(pts, a) .. HvRef - 1
  <2>1. IsFiniteSet(S) /\ Cardinality(S) = b - a
    <3>1. a \in Int /\ b \in Int /\ a <= b /\ S = a .. b - 1
        OBVIOUS
    <3> HIDE DEF S
    <3> QED BY <3>1, SpanIs
  <2>2. IsFiniteSet(T) /\ Cardinality(T) = HvRef - Low(pts, a)
    <3>1. Low(pts, a) \in Int /\ HvRef \in Int /\ Low(pts, a) <= HvRef
          /\ T = Low(pts, a) .. HvRef - 1
        BY <1>1
    <3> HIDE DEF T, HvRef
    <3> QED BY <3>1, SpanIs
  <2> HIDE DEF S, T
  <2>3. Cardinality(S \X T) = Cardinality(S) * Cardinality(T)
      BY <2>1, <2>2, FS_Product
  <2> QED BY <2>1, <2>2, <2>3 DEF Strip, S, T
<1>3. ASSUME NEW c \in Strip(pts, a, b) PROVE c \in Dominated(pts)
  <2>1. c[1] \in a .. b - 1 /\ c[2] \in Low(pts, a) .. HvRef - 1 /\ c = <<c[1], c[2]>>
      BY DEF Strip
  <2>2. c \in Cells /\ c[2] \in 0 .. HvRef - 1 /\ c[2] >= Low(pts, a) /\ a <= c[1] /\ c[1] \in Nat
      BY <1>1, <2>1 DEF Cells
  <2>3. PICK p \in pts : p.x <= a /\ p.y <= c[2]
      BY <2>2, LowIs
  <2>4. p.x \in 0 .. HvRef
      BY DEF IsLosses
  <2>5. Under(p, c)
      BY <2>2, <2>3, <2>4 DEF Under
  <2> QED BY <2>2, <2>5 DEF Dominated
<1> QED BY <1>2, <1>3

LEMMA CellsFinite == \A pts : IsFiniteSet(Dominated(pts))
<1>1. IsFiniteSet(Cells)
  <2> DEFINE S == 0 .. HvRef - 1
  <2>1. IsFiniteSet(S)
    <3>1. HvRef - 1 \in Int
        BY DEF HvRef
    <3> QED BY <3>1, FS_Interval
  <2> HIDE DEF S
  <2>2. IsFiniteSet(S \X S)
      BY <2>1, FS_Product
  <2> QED BY <2>2 DEF Cells, S
<1>2. \A pts : Dominated(pts) \in SUBSET Cells
    BY DEF Dominated
<1> QED BY <1>1, <1>2, FS_Subset

\* Summed column by column, the area is the number of dominated cells.
LEMMA ColumnsIs ==
    ASSUME NEW pts, IsLosses(pts)
    PROVE  SumFunction([x \in 0 .. HvRef - 1 |-> HvRef - Low(pts, x)]) = Cardinality(Dominated(pts))
<1> USE DEF HvRef
<1> DEFINE D == 0 .. HvRef - 1
           f == [x \in D |-> HvRef - Low(pts, x)]
           F == [x \in D |-> Strip(pts, x, x + 1)]
           M == Dominated(pts)
<1>1. ASSUME NEW x \in D PROVE F[x] \subseteq M /\ f[x] = Cardinality(F[x])
  <2>1. x \in 0 .. HvRef /\ x + 1 \in 0 .. HvRef /\ x <= x + 1 /\ Low(pts, x) \in 0 .. HvRef
      BY LowIs
  <2>2. Strip(pts, x, x + 1) \subseteq M /\ Cardinality(Strip(pts, x, x + 1))
            = (x + 1 - x) * (HvRef - Low(pts, x))
    <3> DEFINE y == x + 1
    <3>1. y \in 0 .. HvRef /\ x <= y
        BY <2>1
    <3> HIDE DEF y
    <3>2. Strip(pts, x, y) \subseteq M /\ Cardinality(Strip(pts, x, y)) = (y - x) * (HvRef - Low(pts, x))
        BY <2>1, <3>1, StripIs
    <3> QED BY <3>2 DEF y
  <2>3. (x + 1 - x) * (HvRef - Low(pts, x)) = HvRef - Low(pts, x)
      BY <2>1
  <2> QED BY <2>2, <2>3
<1>2. \A x, y \in D : x # y => F[x] \cap F[y] = {}
  <2>1. ASSUME NEW x \in D, NEW y \in D, NEW c \in F[x], c \in F[y] PROVE x = y
    <3>1. c[1] \in x .. x + 1 - 1 /\ c[1] \in y .. y + 1 - 1
        BY <2>1 DEF Strip
    <3> QED BY <3>1
  <2> HIDE DEF F, D
  <2> QED BY <2>1
<1>3. UNION {F[x] : x \in D} = M
  <2>1. ASSUME NEW c \in M PROVE c[1] \in D /\ c \in F[c[1]]
    <3>1. c \in Cells /\ \E p \in pts : Under(p, c)
        BY DEF Dominated
    <3>2. c[1] \in D /\ c[2] \in 0 .. HvRef - 1 /\ c = <<c[1], c[2]>>
        BY <3>1 DEF Cells
    <3>3. c[2] >= Low(pts, c[1]) /\ Low(pts, c[1]) \in 0 .. HvRef
        BY <3>1, <3>2, LowIs DEF Under
    <3>4. c[1] \in c[1] .. c[1] + 1 - 1 /\ c[2] \in Low(pts, c[1]) .. HvRef - 1
        BY <3>2, <3>3
    <3>5. c \in Strip(pts, c[1], c[1] + 1)
        BY <3>2, <3>4 DEF Strip
    <3> QED BY <3>2, <3>5
  <2>2. \A x \in D : F[x] \subseteq M
      BY <1>1
  <2> HIDE DEF F, D, M
  <2> QED BY <2>1, <2>2
<1>4. IsFiniteSet(D) /\ IsFiniteSet(M)
  <2>1. HvRef - 1 \in Int
      OBVIOUS
  <2> HIDE DEF HvRef
  <2>2. IsFiniteSet(D)
      BY <2>1, FS_Interval
  <2> QED BY <2>2, CellsFinite
<1>5. SumFunctionOnSet(f, D) = Cardinality(M)
  <2> HIDE DEF f, F, D, M
  <2> QED BY <1>1, <1>2, <1>3, <1>4, SumOfParts
<1>6. DOMAIN f = D
    OBVIOUS
<1> HIDE DEF D
<1>7. SumFunction(f) = Cardinality(M)
    BY <1>5, <1>6 DEF SumFunction
<1> QED BY <1>7 DEF D

\* Swept from each loss of accuracy to the next, it is as well.
LEMMA SweepIs ==
    ASSUME NEW pts, IsLosses(pts)
    PROVE  Hypervolume(pts) = Cardinality(Dominated(pts))
<1> DEFINE S == {p.x : p \in pts} \cup {HvRef}
           m == Cardinality(S)
           xs == Ascending(S)
           D == 1 .. m - 1
           f == [k \in D |-> (xs[k + 1] - xs[k]) * (HvRef - Low(pts, xs[k]))]
           F == [k \in D |-> Strip(pts, xs[k], xs[k + 1])]
           M == Dominated(pts)
<1>0. HvRef \in Nat /\ \A x \in 0 .. HvRef : x \in Nat /\ x <= HvRef
    BY DEF HvRef
<1>1. S \in SUBSET (0 .. HvRef) /\ HvRef \in S /\ \A p \in pts : p.x \in S
    BY DEF IsLosses, HvRef
<1>2. S \in SUBSET Int /\ IsFiniteSet(S)
  <2>1. IsFiniteSet(0 .. HvRef)
      BY <1>0, FS_Interval
  <2> HIDE DEF S
  <2>2. IsFiniteSet(S)
      BY <1>1, <2>1, FS_Subset
  <2> QED BY <1>0, <1>1, <2>2
<1>3. m \in Nat /\ Lists(xs, m, S)
  <2> HIDE DEF S
  <2> QED BY <1>2, AscendingFacts
<1>4. Hypervolume(pts) = SumFunction(f)
  <2>1. Len(xs) = m
    <3>1. DOMAIN xs = 1 .. m
        BY DEF Ascending
    <3> HIDE DEF xs, m
    <3> QED BY <1>3, <3>1
  <2> QED BY <2>1 DEF Hypervolume, Low
<1> HIDE DEF S, m, xs
\* Places in the list, with the reference at the last one.
<1>5. /\ \A k \in 1 .. m : xs[k] \in 0 .. HvRef /\ xs[k] \in Nat
      /\ \A x \in S : \E k \in 1 .. m : xs[k] = x
      /\ \A k, l \in 1 .. m : k < l => xs[k] < xs[l]
    BY <1>0, <1>1, <1>3 DEF Lists
<1>6. \A k, l \in 1 .. m : k <= l => xs[k] <= xs[l]
  <2>1. ASSUME NEW k \in 1 .. m, NEW l \in 1 .. m, k <= l PROVE xs[k] <= xs[l]
    <3>1. k = l \/ k < l
        BY <2>1
    <3> QED BY <1>5, <3>1
  <2> QED BY <2>1
<1>7. ASSUME NEW k \in D PROVE F[k] \subseteq M /\ f[k] = Cardinality(F[k])
  <2>1. k \in 1 .. m /\ k + 1 \in 1 .. m /\ k <= k + 1
      BY <1>3
  <2>2. xs[k] \in 0 .. HvRef /\ xs[k + 1] \in 0 .. HvRef /\ xs[k] <= xs[k + 1]
      BY <1>5, <1>6, <2>1
  <2> QED BY <2>2, StripIs
<1>8. \A k, l \in D : k # l => F[k] \cap F[l] = {}
  <2>1. ASSUME NEW k \in D, NEW l \in D, k < l, NEW c \in F[k] PROVE c \notin F[l]
    <3>1. k \in 1 .. m /\ k + 1 \in 1 .. m /\ l \in 1 .. m /\ k + 1 <= l
        BY <1>3, <2>1
    <3>2. xs[k] \in Nat /\ xs[k + 1] \in Nat /\ xs[l] \in Nat /\ xs[k + 1] <= xs[l]
        BY <1>5, <1>6, <3>1
    <3>3. c[1] \in xs[k] .. xs[k + 1] - 1
        BY <2>1 DEF Strip
    <3>4. c[1] \notin xs[l] .. xs[l + 1] - 1
        BY <3>2, <3>3
    <3> QED BY <3>4 DEF Strip
  <2>2. \A k, l \in D : k < l \/ k = l \/ l < k
      BY <1>3
  <2> HIDE DEF F, D
  <2> QED BY <2>1, <2>2
<1>9. ASSUME NEW c \in M PROVE \E k \in D : c \in F[k]
  <2>1. c \in Cells /\ \E p \in pts : Under(p, c)
      BY DEF Dominated
  <2>2. c[1] \in 0 .. HvRef - 1 /\ c[2] \in 0 .. HvRef - 1 /\ c = <<c[1], c[2]>>
      BY <2>1 DEF Cells
  <2>3. c[1] \in Nat /\ c[1] < HvRef
      BY <1>0, <2>2
  <2>4. PICK p \in pts : p.x <= c[1] /\ p.y <= c[2]
      BY <2>1 DEF Under
  <2> DEFINE T == {k \in 1 .. m : xs[k] <= c[1]}
  <2>5. PICK j \in 1 .. m : xs[j] = p.x
      BY <1>1, <1>5
  <2>6. T \in SUBSET (0 .. m) /\ j \in T
      BY <2>4, <2>5
  <2>7. PICK k \in T : \A l \in T : l <= k
    <3> HIDE DEF T
    <3> QED BY <1>3, <2>6, Greatest
  <2>8. k \in 1 .. m /\ xs[k] <= c[1] /\ j <= k
      BY <2>6, <2>7
  <2>9. k # m
    <3>1. PICK e \in 1 .. m : xs[e] = HvRef
        BY <1>1, <1>5
    <3>2. ASSUME k = m PROVE FALSE
      <4>1. e <= k /\ xs[e] <= xs[k]
          BY <1>3, <1>6, <2>8, <3>2
      <4>2. xs[k] \in Nat
          BY <1>5, <2>8
      <4> QED BY <1>0, <2>3, <2>8, <3>1, <4>1, <4>2
    <3> QED BY <3>2
  <2>10. k \in D /\ k + 1 \in 1 .. m
      BY <1>3, <2>8, <2>9
  <2>11. c[1] < xs[k + 1]
    <3>1. k + 1 \notin T
        BY <1>3, <2>7, <2>8
    <3>2. xs[k + 1] \in Nat
        BY <1>5, <2>10
    <3> QED BY <2>3, <2>10, <3>1, <3>2
  <2>12. c[1] \in xs[k] .. xs[k + 1] - 1
    <3>1. xs[k] \in Nat /\ xs[k + 1] \in Nat
        BY <1>5, <2>8, <2>10
    <3> QED BY <2>3, <2>8, <2>11, <3>1
  <2>13. c[2] >= Low(pts, xs[k])
    <3>1. p.x <= xs[k]
        BY <1>6, <2>5, <2>8
    <3> QED BY <2>2, <2>4, <3>1, LowIs
  <2>14. c[2] \in Low(pts, xs[k]) .. HvRef - 1
    <3>1. Low(pts, xs[k]) \in Nat
        BY <1>0, LowIs
    <3> QED BY <1>0, <2>2, <2>13, <3>1
  <2>15. c \in Strip(pts, xs[k], xs[k + 1])
      BY <2>2, <2>12, <2>14 DEF Strip
  <2> QED BY <2>10, <2>15
<1>10. UNION {F[k] : k \in D} = M
  <2>1. \A k \in D : F[k] \subseteq M
      BY <1>7
  <2> HIDE DEF F, D, M
  <2> QED BY <1>9, <2>1
<1>11. IsFiniteSet(D) /\ IsFiniteSet(M)
  <2>1. IsFiniteSet(D)
      BY <1>3, FS_Interval
  <2> QED BY <2>1, CellsFinite
<1>12. SumFunctionOnSet(f, D) = Cardinality(M)
  <2> HIDE DEF f, F, D, M
  <2> QED BY <1>7, <1>8, <1>10, <1>11, SumOfParts
<1>13. DOMAIN f = D
    OBVIOUS
<1> HIDE DEF D, M
<1> QED BY <1>4, <1>12, <1>13 DEF SumFunction, M
\* A trial's losses are up to the reference, and a trial that is as accurate as
\* another and as small loses no more.
LEMMA LossIs ==
    ASSUME NEW o \in Percent, NEW z \in Nat, NEW t, t.acc \in Percent, t.size \in Nat
    PROVE  /\ Loss(t, o, z).x \in 0 .. HvRef /\ Loss(t, o, z).y \in 0 .. HvRef
           /\ \A u : /\ u.acc \in Percent /\ u.size \in Nat
                    /\ t.acc >= u.acc /\ t.size <= u.size
                    => /\ Loss(t, o, z).x <= Loss(u, o, z).x
                       /\ Loss(t, o, z).y <= Loss(u, o, z).y
<1> DEFINE Kept(u) == IF o > 0 THEN (100 * u.acc) \div o ELSE 0
           Left(u) == IF z > 0 THEN (100 * u.size) \div z ELSE 0
<1>1. \A v \in Int : Clip(v) = IF v < 0 THEN 0 ELSE IF v > HvRef THEN HvRef ELSE v
  <2>1. ASSUME NEW v \in Int PROVE Clip(v) = IF v < 0 THEN 0 ELSE IF v > HvRef THEN HvRef ELSE v
    <3>1. Min({v, HvRef}) = IF v <= HvRef THEN v ELSE HvRef
      <4>1. HvRef \in Int
          BY DEF HvRef
      <4> QED BY <4>1, PairIs
    <3> DEFINE w == Min({v, HvRef})
    <3>2. w \in Int
        BY <3>1 DEF HvRef
    <3> HIDE DEF w
    <3>3. Max({0, w}) = IF 0 >= w THEN 0 ELSE w
        BY <3>2, PairIs
    <3> QED BY <3>1, <3>3 DEF Clip, HvRef, w
  <2> QED BY <2>1
<1>2. /\ \A v \in Int : Clip(v) \in 0 .. HvRef
      /\ \A v, w \in Int : v <= w => Clip(v) <= Clip(w)
    BY <1>1 DEF HvRef
<1>3. \A u : Loss(u, o, z) = [x |-> Clip(100 - Kept(u)), y |-> Clip(Left(u))]
    BY DEF Loss
<1>4. ASSUME NEW u, u.acc \in Percent, u.size \in Nat
      PROVE  Kept(u) \in Nat /\ Left(u) \in Nat
  <2>1. 100 * u.acc \in Nat /\ 100 * u.size \in Nat /\ o \in Nat
      BY <1>4 DEF Percent
  <2>2. o > 0 => (100 * u.acc) \div o \in Nat
      BY <2>1, QuotientMonotone
  <2>3. z > 0 => (100 * u.size) \div z \in Nat
      BY <2>1, QuotientMonotone
  <2> QED BY <2>2, <2>3
<1>5. ASSUME NEW u, u.acc \in Percent, u.size \in Nat, t.acc >= u.acc, t.size <= u.size
      PROVE  Kept(u) <= Kept(t) /\ Left(t) <= Left(u)
  <2>1. 100 * u.acc \in Nat /\ 100 * t.acc \in Nat /\ 100 * u.acc <= 100 * t.acc
    <3> DEFINE v == u.acc
               w == t.acc
    <3>1. v \in 0 .. 100 /\ w \in 0 .. 100 /\ v <= w
        BY <1>5 DEF Percent
    <3> HIDE DEF v, w
    <3>2. 100 * v \in Nat /\ 100 * w \in Nat /\ 100 * v <= 100 * w
        BY <3>1
    <3> QED BY <3>2 DEF v, w
  <2>2. 100 * u.size \in Nat /\ 100 * t.size \in Nat /\ 100 * t.size <= 100 * u.size
      BY <1>5
  <2>3. o > 0 => (100 * u.acc) \div o <= (100 * t.acc) \div o
      BY <2>1, QuotientMonotone DEF Percent
  <2>4. z > 0 => (100 * t.size) \div z <= (100 * u.size) \div z
      BY <2>2, QuotientMonotone
  <2> QED BY <2>3, <2>4
<1> HIDE DEF Kept, Left
<1>6. Loss(t, o, z).x \in 0 .. HvRef /\ Loss(t, o, z).y \in 0 .. HvRef
    BY <1>2, <1>3, <1>4
<1>7. ASSUME NEW u, u.acc \in Percent, u.size \in Nat, t.acc >= u.acc, t.size <= u.size
      PROVE  Loss(t, o, z).x <= Loss(u, o, z).x /\ Loss(t, o, z).y <= Loss(u, o, z).y
  <2>1. /\ Kept(t) \in Nat /\ Kept(u) \in Nat /\ Left(t) \in Nat /\ Left(u) \in Nat
        /\ 100 - Kept(t) <= 100 - Kept(u) /\ Left(t) <= Left(u)
      BY <1>4, <1>5, <1>7
  <2>2. Clip(100 - Kept(t)) <= Clip(100 - Kept(u)) /\ Clip(Left(t)) <= Clip(Left(u))
      BY <1>2, <2>1
  <2> QED BY <1>3, <2>2
<1> QED BY <1>6, <1>7

\* Every value of a study is matched by one that none beats: of those as accurate and
\* as small, the smallest of the most accurate.
LEMMA MatchedByBest ==
    ASSUME NEW n \in Nat, NEW s,
           \A k \in 1 .. n : s[k].acc \in Percent /\ s[k].size \in Nat, NEW i \in 1 .. n
    PROVE  \E k \in 1 .. n : /\ s[k].acc >= s[i].acc /\ s[k].size <= s[i].size
                            /\ \A j \in 1 .. n : ~Dominates(s[j], s[k])
<1> DEFINE R == {j \in 1 .. n : s[j].acc >= s[i].acc /\ s[j].size <= s[i].size}
           A == {s[k].acc : k \in R}
<1>0. i \in R /\ \A k \in 1 .. n : s[k].acc \in Nat /\ s[k].size \in Nat
    BY DEF Percent
<1>1. A \in SUBSET (0 .. 100) /\ A # {}
    BY <1>0 DEF Percent
<1>2. PICK a \in A : \A b \in A : b <= a
  <2> HIDE DEF A
  <2>1. 100 \in Nat
      OBVIOUS
  <2> QED BY <1>1, <2>1, Greatest
<1> DEFINE B == {s[k].size : k \in {j \in R : s[j].acc = a}}
<1>3. B \in SUBSET Nat /\ B # {}
    BY <1>0
<1>4. PICK z \in B : \A y \in B : z <= y
  <2> HIDE DEF B
  <2> QED BY <1>3, Least
<1>5. PICK k \in R : s[k].acc = a /\ s[k].size = z
    OBVIOUS
<1>6. ASSUME NEW j \in 1 .. n, Dominates(s[j], s[k]) PROVE FALSE
  <2>1. /\ s[j].acc \in Nat /\ s[j].size \in Nat /\ s[k].acc \in Nat /\ s[k].size \in Nat
        /\ s[i].acc \in Nat /\ s[i].size \in Nat
        /\ s[k].acc >= s[i].acc /\ s[k].size <= s[i].size
      BY <1>0
  <2>2. s[j].acc >= s[k].acc /\ s[j].size <= s[k].size
        /\ (s[j].acc > s[k].acc \/ s[j].size < s[k].size)
      BY <1>6 DEF Dominates
  <2>3. j \in R
      BY <2>1, <2>2
  <2>4. s[j].acc <= a /\ (s[j].acc = a => z <= s[j].size)
      BY <1>2, <1>4, <2>3
  <2> QED BY <1>5, <2>1, <2>2, <2>4
<1> QED BY <1>5, <1>6

Points(s, o, z) == {Loss(t, o, z) : t \in ToSet(s)}

\* The area the values dominate is the one their best dominate.
LEMMA AreaIs ==
    ASSUME NEW n \in Nat, NEW s, DOMAIN s = 1 .. n,
           \A k \in 1 .. n : s[k].acc \in Percent /\ s[k].size \in Nat,
           NEW o \in Percent, NEW z \in Nat
    PROVE  Hypervolume(Points(NonDominated(s), o, z))
            = SumFunction([x \in 0 .. HvRef - 1 |-> HvRef - Low(Points(s, o, z), x)])
<1> DEFINE Best == {k \in DOMAIN s : ~\E j \in DOMAIN s : Dominates(s[j], s[k])}
           few == Points(NonDominated(s), o, z)
           all == Points(s, o, z)
           loss == [k \in 1 .. n |-> Loss(s[k], o, z)]
<1>1. Best \in SUBSET (1 .. n)
    OBVIOUS
<1>2. ToSet(NonDominated(s)) = {s[k] : k \in Best}
  <2>1. NonDominated(s) = MembersAt(s, Best)
      BY DEF NonDominated
  <2> HIDE DEF Best
  <2>2. Best \in SUBSET Int /\ IsFiniteSet(Best)
      BY <1>1, PlacesFinite
  <2>3. ToSet(MembersAt(s, Best)) = {s[k] : k \in Best}
      BY <2>2, MembersIs
  <2> QED BY <2>1, <2>3
<1>3. ToSet(s) = {s[k] : k \in 1 .. n}
    BY DEF ToSet
<1>4. few = {loss[k] : k \in Best} /\ all = {loss[k] : k \in 1 .. n}
    BY <1>1, <1>2, <1>3 DEF Points
<1>5. \A k \in 1 .. n : \E j \in Best : s[j].acc >= s[k].acc /\ s[j].size <= s[k].size
    BY MatchedByBest
<1> HIDE DEF Best, few, all
<1>6. \A k \in 1 .. n : loss[k].x \in 0 .. HvRef /\ loss[k].y \in 0 .. HvRef
    BY LossIs
<1>7. \A k \in 1 .. n : \E j \in Best : loss[j].x <= loss[k].x /\ loss[j].y <= loss[k].y
  <2>1. ASSUME NEW k \in 1 .. n
        PROVE  \E j \in Best : loss[j].x <= loss[k].x /\ loss[j].y <= loss[k].y
    <3>1. PICK j \in Best : s[j].acc >= s[k].acc /\ s[j].size <= s[k].size
        BY <1>5
    <3>2. j \in 1 .. n
        BY <1>1
    <3>3. /\ s[j].acc \in Percent /\ s[j].size \in Nat
          /\ s[k].acc \in Percent /\ s[k].size \in Nat
        BY <3>2
    <3>4. Loss(s[j], o, z).x <= Loss(s[k], o, z).x /\ Loss(s[j], o, z).y <= Loss(s[k], o, z).y
        BY <3>1, <3>3, LossIs
    <3> QED BY <3>2, <3>4
  <2> QED BY <2>1
<1> HIDE DEF loss
<1>8. IsLosses(few) /\ IsLosses(all)
  <2>1. IsFiniteSet(1 .. n)
      BY PlacesAre
  <2>2. IsFiniteSet(Best)
      BY <1>1, <2>1, FS_Subset
  <2>3. IsFiniteSet(few) /\ IsFiniteSet(all)
      BY <1>4, <2>1, <2>2, FiniteImage
  <2> QED BY <1>1, <1>4, <1>6, <2>3 DEF IsLosses
<1>9. Dominated(few) = Dominated(all)
  <2>1. ASSUME NEW c \in Cells, NEW k \in 1 .. n, Under(loss[k], c)
        PROVE  \E j \in Best : Under(loss[j], c)
    <3>1. PICK j \in Best : loss[j].x <= loss[k].x /\ loss[j].y <= loss[k].y
        BY <1>7
    <3>2. /\ loss[j].x \in 0 .. HvRef /\ loss[j].y \in 0 .. HvRef
          /\ loss[k].x \in 0 .. HvRef /\ loss[k].y \in 0 .. HvRef
        BY <1>1, <1>6
    <3>3. c[1] \in 0 .. HvRef - 1 /\ c[2] \in 0 .. HvRef - 1
        BY DEF Cells
    <3>4. loss[k].x <= c[1] /\ loss[k].y <= c[2]
        BY <2>1 DEF Under
    <3>5. ASSUME NEW a \in 0 .. HvRef, NEW b \in 0 .. HvRef, NEW d \in 0 .. HvRef - 1,
                 a <= b, b <= d
          PROVE  a <= d
        BY <3>5 DEF HvRef
    <3>7. loss[j].x <= c[1] /\ loss[j].y <= c[2]
        BY ONLY <3>1, <3>2, <3>3, <3>4, <3>5
    <3>6. Under(loss[j], c)
        BY <3>7 DEF Under
    <3> QED BY <3>1, <3>6
  <2> QED BY <1>1, <1>4, <2>1 DEF Dominated
<1> QED BY <1>8, <1>9, ColumnsIs, SweepIs DEF few, all
\* The study as the callback has seen it: nothing was measured before the floor, and
\* the last measure is of all trials so far.
Floor == Max({Startup, Min({MinTrials, budget})})

HvInv ==
    /\ IsList(hv)
    /\ hv # <<>> =>
          /\ pc \in {"trial", "failed", "cancelled"}
          /\ EarlyStop /\ Adaptive /\ ~(Len(values) < Floor)
          /\ HypervolumeExact

\* The callback measures the study or leaves the history.
LEMMA PlateauSteps ==
    ASSUME PlateauCallback, UNCHANGED budget
    PROVE  \/ (~(EarlyStop /\ Adaptive) \/ Len(values') < Floor) /\ hv' = hv
           \/ /\ EarlyStop /\ Adaptive /\ ~(Len(values') < Floor)
              /\ hv' = Append(hv, Hypervolume(Points(NonDominated(values'), pareto.origAcc, OrigSize)))
BY DEF PlateauCallback, Floor, Losses, Points, OrigSize

LEMMA TrialMeasures == ASSUME Trial PROVE UNCHANGED <<values, hv>> \/ PlateauCallback
BY DEF Trial, EmptyTrial, BrokenTrial, CancelledTrial, MeasuredTrial, searchVars

\* The area all values dominate, which is what the callback has to have measured last.
Area == SumFunction([x \in 0 .. HvRef - 1 |->
                        HvRef - Low(Points(values, pareto.origAcc, OrigSize), x)])

LEMMA ExactIs == HypervolumeExact <=> (hv # <<>> => hv[Len(hv)] = Area)
BY DEF HypervolumeExact, Area, Low, Points

\* Every step keeps the last measure in line with the values, or ends the study.
LEMMA HvStep ==
    ASSUME TrialsInv, StudyTypes, StudyTypes', HvInv, PhasesInOrder, [Next]_vars
    PROVE  HvInv'
<1> USE CheckpointMoves DEF Early, Later, Stages
<1>0. hv = <<>> \/ hv[Len(hv)] = Area
    BY ExactIs DEF HvInv
<1>1. ASSUME UNCHANGED <<values, hv, pareto, graph, budget>>,
             hv # <<>> => pc' \in {"trial", "failed", "cancelled"}
      PROVE  HvInv'
  <2>1. UNCHANGED <<HypervolumeExact, Floor>>
      BY <1>1 DEF HypervolumeExact, Floor, OrigSize
  <2> QED BY <1>1, <2>1 DEF HvInv
<1>2. CASE Ingest \/ Analyze
  <2>1. pc \in {"ingest", "analyze"} /\ hv' = hv
      BY <1>2, PreparesOnly DEF Ingest, Analyze, searchVars
  <2> QED BY <2>1 DEF HvInv
<1>3. CASE StartSearch
  <2>1. pc = "search" /\ hv' = hv
      BY <1>3 DEF StartSearch
  <2> QED BY <2>1 DEF HvInv
<1>4. CASE FinishSearch
  <2>1. hv' = <<>>
      BY <1>4 DEF FinishSearch, Reset
  <2> QED BY <2>1 DEF HvInv, IsList, ToSet
<1>5. CASE Trial
  <2>1. pc = "trial" /\ UNCHANGED <<graph, pareto>> /\ pc' \in {"trial", "failed"}
      BY <1>5, TrialSteps
  <2>2. pareto.origAcc \in Percent /\ UNCHANGED budget
        /\ (values' = values \/ \E t : values' = Append(values, t))
    <3>1. pareto.origAcc \in Percent
        BY <2>1 DEF StudyTypes
    <3> QED BY <1>5, <3>1, TrialScores
  <2>5. Floor \in Nat /\ Floor' = Floor
    <3>1. Startup \in Nat /\ MinTrials \in Nat /\ budget \in Nat
        BY SearchAssumption DEF StudyTypes
    <3> DEFINE least == Min({MinTrials, budget})
    <3>2. least \in Nat
        BY <3>1, PairIs
    <3>3. Floor = Max({Startup, least}) /\ Floor' = Floor
        BY <2>2 DEF Floor
    <3> HIDE DEF least
    <3>4. Floor \in Nat
        BY <3>1, <3>2, <3>3, PairIs
    <3> QED BY <3>3, <3>4
  <2>6. /\ Len(values) \in Nat /\ Len(values') \in Nat /\ Len(values) <= Len(values')
        /\ DOMAIN values' = 1 .. Len(values')
    <3>1. IsList(values) /\ IsList(values')
        BY DEF StudyTypes
    <3>2. Len(values) \in Nat /\ Len(values') \in Nat /\ DOMAIN values' = 1 .. Len(values')
        BY <3>1, ListFacts
    <3>3. ASSUME NEW t, values' = Append(values, t) PROVE Len(values) <= Len(values')
      <4>1. DOMAIN values' = 1 .. Len(values) + 1
          BY <3>1, <3>3, Appended DEF IsList
      <4>2. Len(values) + 1 \in 1 .. Len(values')
          BY <3>2, <4>1
      <4> QED BY <3>2, <4>2
    <3>4. Len(values) <= Len(values')
      <4>1. CASE values' = values
          BY <3>2, <4>1
      <4> QED BY <2>2, <3>3, <4>1
    <3> QED BY <3>2, <3>4
  <2>3. CASE UNCHANGED <<values, hv>>
      BY <1>1, <2>1, <2>2, <2>3
  <2>4. CASE PlateauCallback
    <3>1. CASE hv' = hv /\ (~(EarlyStop /\ Adaptive) \/ Len(values') < Floor)
      <4>1. hv = <<>>
        <5> SUFFICES ASSUME hv # <<>> PROVE FALSE
            OBVIOUS
        <5>1. EarlyStop /\ Adaptive /\ ~(Len(values) < Floor) /\ Len(values') < Floor
            BY <3>1 DEF HvInv
        <5> QED BY <2>5, <2>6, <5>1
      <4> QED BY <3>1, <4>1 DEF HvInv
    <3>2. CASE /\ EarlyStop /\ Adaptive /\ ~(Len(values') < Floor)
               /\ hv' = Append(hv, Hypervolume(Points(NonDominated(values'), pareto.origAcc, OrigSize)))
      <4>1. OrigSize \in Nat /\ OrigSize' = OrigSize
        <5>1. graph \in Graphs
            BY <2>1 DEF TrialsInv
        <5>2. WellFormed(graph)
            BY <5>1, SensitivityAssumption
        <5> QED BY <2>1, <5>2, ByteSizeNat DEF OrigSize
      <4>2. Hypervolume(Points(NonDominated(values'), pareto.origAcc, OrigSize)) = Area'
        <5>1. \A k \in 1 .. Len(values') : values'[k].acc \in Percent /\ values'[k].size \in Nat
            BY <2>6 DEF StudyTypes
        <5>2. PICK s : s = values'
            OBVIOUS
        <5>3. Hypervolume(Points(NonDominated(s), pareto.origAcc, OrigSize))
              = SumFunction([x \in 0 .. HvRef - 1 |->
                                HvRef - Low(Points(s, pareto.origAcc, OrigSize), x)])
          <6>1. Len(s) \in Nat /\ DOMAIN s = 1 .. Len(s)
              BY <2>6, <5>2
          <6>2. \A k \in 1 .. Len(s) : s[k].acc \in Percent /\ s[k].size \in Nat
              BY <5>1, <5>2
          <6> QED BY <2>2, <4>1, <6>1, <6>2, AreaIs
        <5> QED BY <2>1, <4>1, <5>2, <5>3 DEF Area
      <4>3. hv' = Append(hv, Area')
          BY <3>2, <4>2
      <4>4. IsList(hv') /\ hv'[Len(hv')] = Area'
        <5>1. PICK a : a = Area'
            OBVIOUS
        <5>2. hv' = Append(hv, a) /\ hv \in Seq(ToSet(hv))
            BY <4>3, <5>1 DEF HvInv, IsList
        <5>3. hv' \in Seq(ToSet(hv')) /\ DOMAIN hv' = 1 .. Len(hv) + 1 /\ Len(hv) \in Nat
              /\ hv'[Len(hv) + 1] = a
            BY <5>2, Appended
        <5>4. Len(hv') = Len(hv) + 1
            BY <5>3
        <5> QED BY <5>1, <5>3, <5>4 DEF IsList
      <4>5. HypervolumeExact'
          BY <4>4 DEF HypervolumeExact, Area, Low, Points
      <4>6. ~(Len(values') < Floor')
          BY <2>5, <3>2
      <4> QED BY <2>1, <3>2, <4>4, <4>5, <4>6 DEF HvInv
    <3> QED BY <2>2, <2>4, <3>1, <3>2, PlateauSteps
  <2> QED BY <1>5, <2>3, <2>4, TrialMeasures
<1>6. CASE ~Ingest /\ ~Analyze /\ ~StartSearch /\ ~Trial /\ ~FinishSearch
  <2>1. /\ UNCHANGED <<graph, values, pareto, budget, hv>>
        /\ \/ pc' = pc \/ pc' \in {"failed", "cancelled"}
           \/ pc = "sense" /\ pc' = "search"
           \/ pc = "search" /\ pc' = "ladder"
           \/ pc \in Later /\ pc' \in Later
      BY <1>6, OtherSteps
  <2> QED BY <1>1, <2>1 DEF HvInv
<1> QED BY <1>2, <1>3, <1>4, <1>5, <1>6

\* What the early stop compares, the hypervolume that the callback has last swept, is
\* the area all the study's trials dominate, whatever the trials, the scores and the
\* reference the losses are clipped to make of them; and it is kept until the frontier
\* is read, also by a run that fails in between.
THEOREM HypervolumeAlwaysExact == Spec => []HypervolumeExact
<1>1. Init => HvInv
    BY DEF Init, HvInv, IsList, ToSet
<1>2. PhasesInOrder /\ TrialsInv /\ StudyTypes /\ StudyTypes' /\ HvInv /\ [Next]_vars => HvInv'
    BY HvStep
<1>3. Spec => []PhasesInOrder
  <2>1. PipelineInv => PhasesInOrder
      BY DEF PipelineInv
  <2> QED BY <2>1, PipelineInvariant, PTL
<1>4. Spec => []StudyTypes
    BY StudyTypesInit, StudyTypesStep, TrialsInvariant, <1>3, PTL DEF Spec
<1>5. HvInv => HypervolumeExact
    BY DEF HvInv, HypervolumeExact
<1> QED BY <1>1, <1>2, <1>3, <1>4, <1>5, TrialsInvariant, PTL DEF Spec

-----------------------------------------------------------------------------
(* The most sensitive operator.                                             *)

\* The sensitivities of a run are a list of measures, none below zero.
ProfileInv ==
    /\ IsList(profile)
    /\ \A k \in DOMAIN profile : profile[k].s \in Nat

\* No trial asks int8 of a protected operator.
ChosenInv ==
    \A k \in DOMAIN points :
        LET config == points[k].config
        IN  \A name \in DOMAIN config \cap Protected : config[name].prec # INT8

\* The trials the search measured never ask int8 of the operator that the profile
\* found the most sensitive, nor of another that goes by its name.
SensitiveSpared ==
    \A i \in DOMAIN profile :
        (\A j \in DOMAIN profile \ {i} : profile[j].s < profile[i].s) =>
            \A k \in DOMAIN points :
                LET config == points[k].config
                IN  profile[i].name \in DOMAIN config => config[profile[i].name].prec # INT8

\* What is measured for an operator is read at a node of the graph, or nowhere.
LEMMA PerturbedIs ==
    ASSUME NEW g, IsList(g.nodes), NEW all, NEW i \in Nodes(g)
    PROVE  Perturbed(g, all, i) \in Nodes(g) \cup {0}
<1> DEFINE o == all[i]
           I == {k \in 1 .. Len(g.nodes) : /\ g.nodes[k].attr # <<>>
                                           /\ \/ g.nodes[k].name = o.name
                                              \/ g.nodes[k].name = NoName /\ g.nodes[k].op = o.op}
<1>1. Len(g.nodes) \in Nat /\ DOMAIN g.nodes = 1 .. Len(g.nodes)
    BY ListFacts
<1>2. Perturbed(g, all, i) \in {0, i} \/ Perturbed(g, all, i) = IF I # {} THEN Min(I) ELSE 0
    BY DEF Perturbed, SelectInSeq
<1>3. I \in SUBSET Nat /\ I \subseteq Nodes(g)
    BY <1>1 DEF Nodes
<1> HIDE DEF I
<1>4. I # {} => Min(I) \in Nodes(g)
    BY <1>3, MinIs
<1> QED BY <1>2, <1>4

\* A profile of measured operators.
LEMMA ProfileIs ==
    ASSUME NEW g, IsList(g.nodes), NEW all, DOMAIN all = Nodes(g),
           NEW reading \in [Nodes(g) -> Levels]
    PROVE  /\ IsList(Measured(g, all, reading))
           /\ \A k \in DOMAIN Measured(g, all, reading) : Measured(g, all, reading)[k].s \in Nat
<1> DEFINE S == {i \in DOMAIN all : all[i].compressible}
           m == Cardinality(S)
           At(p) == IF p = 0 THEN 0 ELSE reading[p]
           Item(i) == [name |-> all[i].name, s |-> At(Perturbed(g, all, i))]
           t == Measured(g, all, reading)
<1>1. Len(g.nodes) \in Nat /\ Nodes(g) = 1 .. Len(g.nodes)
    BY ListFacts DEF Nodes
<1>2. S \in SUBSET (1 .. Len(g.nodes))
    BY <1>1
<1>3. m \in Nat /\ \A k \in 1 .. m : Ascending(S)[k] \in S
  <2> HIDE DEF S
  <2>1. S \in SUBSET Int /\ IsFiniteSet(S)
      BY <1>1, <1>2, PlacesFinite
  <2> QED BY <2>1, AscendingFacts DEF Lists
<1>4. t = [k \in 1 .. m |-> Item(Ascending(S)[k])]
    BY DEF Measured, Ascending
<1>5. ASSUME NEW i \in S PROVE Item(i).s \in Nat
  <2>1. Perturbed(g, all, i) \in Nodes(g) \cup {0}
      BY PerturbedIs
  <2>2. Levels \subseteq Nat /\ 0 \notin Nodes(g)
      BY <1>1, SensitivityAssumption
  <2>3. At(Perturbed(g, all, i)) \in Nat
      BY <2>1, <2>2
  <2> QED BY <2>3
<1> HIDE DEF Item, S, m, t
<1>6. IsList(t)
  <2>1. t = [k \in 1 .. m |-> t[k]]
      BY <1>4
  <2> QED BY <1>3, <2>1, ListOfItems
<1>7. \A k \in DOMAIN t : t[k].s \in Nat
    BY <1>3, <1>4, <1>5
<1> QED BY <1>6, <1>7 DEF t

\* The protected operators hold the most sensitive one, however few they are.
LEMMA ProtectedIs ==
    ASSUME ProfileInv, NEW i \in DOMAIN profile,
           \A j \in DOMAIN profile \ {i} : profile[j].s < profile[i].s
    PROVE  profile[i].name \in Protected
<1> DEFINE n == (Len(profile) * 30) \div 100
           Above(k) == {j \in DOMAIN profile : \/ profile[j].s > profile[k].s
                                               \/ profile[j].s = profile[k].s /\ j < k}
           kept == {k \in DOMAIN profile : Cardinality(Above(k)) < Max({1, n})}
<1>1. Len(profile) \in Nat /\ DOMAIN profile = 1 .. Len(profile)
    BY ListFacts DEF ProfileInv
<1>2. n \in Int
    BY <1>1
<1>3. Max({1, n}) >= 1 /\ Max({1, n}) \in Int
  <2> HIDE DEF n
  <2> QED BY <1>2, PairIs
<1>4. Above(i) = {}
  <2>1. ASSUME NEW j \in DOMAIN profile
        PROVE  ~(profile[j].s > profile[i].s) /\ ~(profile[j].s = profile[i].s /\ j < i)
    <3>1. profile[j].s \in Nat /\ profile[i].s \in Nat
        BY DEF ProfileInv
    <3>2. CASE j = i
      <4>1. ~(j < i)
          BY <1>1, <3>2
      <4> QED BY <3>1, <3>2, <4>1
    <3>3. CASE j # i
        BY <3>1, <3>3
    <3> QED BY <3>2, <3>3
  <2> QED BY <2>1
<1>5. i \in kept
  <2>1. Cardinality({}) = 0
      BY FS_EmptySet
  <2> HIDE DEF n, Above
  <2> QED BY <1>3, <1>4, <2>1
<1>6. Protected = {profile[k].name : k \in kept}
    BY DEF Protected, ProtectionSet
<1> HIDE DEF kept
<1> QED BY <1>5, <1>6

\* A protected operator is offered at least half the bits of a float.
LEMMA LightIs ==
    ASSUME NEW o, NEW total
    PROVE  INT8 \notin ActionSpace(o, TRUE, total).prec
<1> USE DEF INT8, FP16, FP32
<1>1. CASE o.cat \notin DOMAIN Templates
    BY <1>1 DEF ActionSpace
<1>2. CASE o.cat \in DOMAIN Templates
    BY <1>2 DEF ActionSpace
<1> QED BY <1>1, <1>2

\* What the sampler may choose keeps to that.
LEMMA LightChoice ==
    ASSUME NEW c \in Configs, NEW name \in DOMAIN c \cap Protected
    PROVE  c[name].prec # INT8
<1>1. PICK o \in ToSet(Compressible(ops)) : o.name = name
    BY ConfigNames
<1>2. c[name] \in Choices1(o)
    BY <1>1 DEF Configs
<1>3. INT8 \notin SpaceOf(o).prec
    BY <1>1, LightIs DEF SpaceOf
<1> DEFINE x == c[name]
<1> HIDE DEF x
<1>4. x.prec \in SpaceOf(o).prec
    BY <1>2 DEF Choices1, x
<1> QED BY <1>3, <1>4 DEF x

LEMMA SparedFollows == ASSUME ProfileInv, ChosenInv PROVE SensitiveSpared
BY ProtectedIs DEF SensitiveSpared, ChosenInv

\* The profile is made once, before the trials, and every trial stays in its spaces.
LEMMA SparedStep ==
    ASSUME TrialsInv, PhasesInOrder, ProfileInv, ChosenInv, [Next]_vars
    PROVE  ProfileInv' /\ ChosenInv'
<1> USE CheckpointMoves DEF Early, Later, Stages
<1>1. ASSUME UNCHANGED <<profile, points>> PROVE ProfileInv' /\ ChosenInv'
  <2>1. UNCHANGED Protected
      BY <1>1 DEF Protected
  <2> QED BY <1>1, <2>1 DEF ProfileInv, ChosenInv
<1>2. Sense => UNCHANGED <<searchVars, ladderVars, served>>
  <2> SUFFICES ASSUME Sense PROVE UNCHANGED <<searchVars, ladderVars, served>>
      OBVIOUS
  <2>1. pc = "sense" /\ pc' # pc
      BY DEF Sense
  <2>2. ~SearchStep /\ ~LadderStep /\ ~LadderRaises /\ ~EndLadder
      BY <2>1 DEF SearchStep, SkipSearch, StartSearch, Trial, Searching, FinishSearch,
                  LadderStep, TryRung, Fallback, LadderRaises, EndLadder, Climbing
  <2>3. ~SelectTrial /\ ~SelectLadder /\ ~SelectFallback
      BY <2>1 DEF SelectTrial, SelectLadder, SelectFallback
  <2>4. ~SaveArtifact /\ ~BenchmarkOriginal /\ ~Finish /\ ~Interrupt /\ ~UNCHANGED vars
      BY <2>1 DEF SaveArtifact, BenchmarkOriginal, Finish, Interrupt, vars
  <2> QED BY <2>2, <2>3, <2>4 DEF Next, Prepare
<1>3. CASE Ingest \/ Analyze
  <2>1. pc \in {"ingest", "analyze"} /\ UNCHANGED profile
      BY <1>3 DEF Ingest, Analyze
  <2>2. UNCHANGED points
      BY <1>3, PreparesOnly DEF searchVars
  <2> QED BY <1>1, <2>1, <2>2
<1>4. CASE Sense /\ UNCHANGED <<searchVars, ladderVars, served>>
  <2>1. pc = "sense" /\ UNCHANGED points
      BY <1>4 DEF Sense, searchVars
  <2>2. points = <<>> /\ graph \in Graphs /\ ops = Capped(Operators(graph))
      BY <2>1 DEF TrialsInv
  <2>3. IsList(graph.nodes) /\ DOMAIN ops = Nodes(graph)
      BY <2>2, SensitivityAssumption DEF WellFormed, Capped, Operators
  <2>4. PICK reading \in [Nodes(graph) -> Levels] : profile' = Measured(graph, ops, reading)
      BY <1>4 DEF Sense
  <2>5. ProfileInv'
      BY <2>3, <2>4, ProfileIs DEF ProfileInv
  <2> QED BY <2>1, <2>2, <2>5 DEF ChosenInv
<1>5. CASE Trial
  <2>1. UNCHANGED profile
      BY <1>5 DEF Trial, EmptyTrial, BrokenTrial, CancelledTrial, MeasuredTrial, runVars
  <2>2. CASE points' = points
      BY <1>1, <2>1, <2>2
  <2>3. ASSUME NEW c, TrialMade(c) PROVE ProfileInv' /\ ChosenInv'
    <3>1. PICK p : points' = Append(points, p) /\ p.config = c /\ c \in Configs
      <4>1. PICK acc, size :
              /\ c \in Configs
              /\ points' = Append(points, [num |-> Len(values), acc |-> acc, size |-> size,
                                           config |-> c])
          BY <2>3 DEF TrialMade
      <4>2. PICK p : p = [num |-> Len(values), acc |-> acc, size |-> size, config |-> c]
          OBVIOUS
      <4>3. points' = Append(points, p) /\ p.config = c
          BY <4>1, <4>2
      <4> QED BY <4>1, <4>3
    <3>2. /\ Len(points) \in Nat
          /\ DOMAIN points = 1 .. Len(points) /\ DOMAIN points' = 1 .. Len(points) + 1
          /\ \A k \in 1 .. Len(points) : points'[k] = points[k]
          /\ points'[Len(points) + 1] = p
        BY <3>1, Appended DEF TrialsInv
    <3>3. UNCHANGED Protected
        BY <2>1 DEF Protected
    <3>4. ASSUME NEW k \in DOMAIN points', NEW name \in DOMAIN points'[k].config \cap Protected
          PROVE  points'[k].config[name].prec # INT8
      <4>1. CASE k \in 1 .. Len(points)
          BY <3>2, <3>4, <4>1 DEF ChosenInv
      <4>2. CASE k = Len(points) + 1
          BY <3>1, <3>2, <3>4, <4>2, LightChoice
      <4> QED BY <3>2, <4>1, <4>2
    <3> QED BY <2>1, <3>3, <3>4 DEF ProfileInv, ChosenInv
  <2> QED BY <1>5, <2>2, <2>3, TrialSteps
<1>6. CASE StartSearch \/ FinishSearch
    BY <1>1, <1>6 DEF StartSearch, FinishSearch, runVars
<1>7. CASE ~Ingest /\ ~Analyze /\ ~Sense /\ ~StartSearch /\ ~Trial /\ ~FinishSearch
  <2>1. UNCHANGED points
      BY <1>7, OtherSteps
  <2>2. UNCHANGED profile
    <3> USE DEF runVars
    <3>1. CASE SearchStep
        BY <1>7, <3>1 DEF SearchStep, SkipSearch
    <3>2. CASE LadderStep \/ LadderRaises \/ EndLadder
        BY <3>2 DEF LadderStep, LadderRaises, EndLadder
    <3>3. CASE SelectTrial \/ SelectLadder \/ SelectFallback
        BY <3>3 DEF SelectTrial, SelectLadder, SelectFallback
    <3>4. CASE SaveArtifact \/ BenchmarkOriginal \/ Finish
        BY <3>4 DEF SaveArtifact, BenchmarkOriginal, Finish
    <3>5. CASE Interrupt \/ UNCHANGED vars
        BY <3>5 DEF Interrupt, vars
    <3> QED BY <1>7, <3>1, <3>2, <3>3, <3>4, <3>5 DEF Next, Prepare
  <2> QED BY <1>1, <2>1, <2>2
<1> QED BY <1>2, <1>3, <1>4, <1>5, <1>6, <1>7

\* The uniquely most sensitive operator is among those the search protects, and what
\* it is protected from is int8: no trial asks it of that operator, whatever the graph,
\* the readings and the sampler.
THEOREM SensitiveAlwaysSpared == Spec => []SensitiveSpared
<1>1. Init => ProfileInv /\ ChosenInv
    BY DEF Init, ProfileInv, ChosenInv, IsList, ToSet
<1>2. TrialsInv /\ PhasesInOrder /\ ProfileInv /\ ChosenInv /\ [Next]_vars
      => ProfileInv' /\ ChosenInv'
    BY SparedStep
<1>3. Spec => []PhasesInOrder
  <2>1. PipelineInv => PhasesInOrder
      BY DEF PipelineInv
  <2> QED BY <2>1, PipelineInvariant, PTL
<1>4. ProfileInv /\ ChosenInv => SensitiveSpared
    BY SparedFollows
<1> QED BY <1>1, <1>2, <1>3, <1>4, TrialsInvariant, PTL DEF Spec
-----------------------------------------------------------------------------
(* The weight-only pipeline.                                                *)
-----------------------------------------------------------------------------
(* Where a file goes.                                                       *)

Executable == {"module", "graph", "estimator"}

\* A file the table promises to run.
Promised(f) ==
    /\ f.sound /\ Tier(f.ext) # "unknown" /\ f.body \in Executable
    /\ f.body = "module" => f.shaped

\* What Arrive dispatches.
Sent(f) == IF f.uploaded THEN f ELSE Synthesized(f)

\* The three files synthesize() builds are run.
LEMMA SynthesizedRuns ==
    ASSUME NEW f
    PROVE  /\ Synthesized(f).tensors = <<>>
           /\ Dispatch(Synthesized(f)) = ToEngine(Synthesized(f))
           /\ Ingested(Synthesized(f)) /\ Tier(Synthesized(f).ext) # "weights_only"
<1> DEFINE A == FileOf(".pkl", "pickle", "estimator")
           B == FileOf(".pt", "torch_zip", "module")
           C == FileOf(".onnx", "other", "graph")
<1>1. Synthesized(f) \in {A, B, C}
    BY DEF Synthesized
<1> USE DEF Dispatch, TorchExts, TorchBundle, ToEngine, Ingested, DetectFormat, PickledKind,
            FileOf, Tier
<1>2. A.tensors = <<>> /\ Dispatch(A) = ToEngine(A) /\ Ingested(A) /\ Tier(A.ext) # "weights_only"
    OBVIOUS
<1>3. B.tensors = <<>> /\ Dispatch(B) = ToEngine(B) /\ Ingested(B) /\ Tier(B.ext) # "weights_only"
    OBVIOUS
<1>4. C.tensors = <<>> /\ Dispatch(C) = ToEngine(C) /\ Ingested(C) /\ Tier(C.ext) # "weights_only"
    OBVIOUS
<1> HIDE DEF A, B, C
<1> QED BY <1>1, <1>2, <1>3, <1>4

\* Whatever goes to the engine is not listed as weights only.
LEMMA EngineRuns ==
    ASSUME NEW f, Dispatch(f).to = "engine"
    PROVE  Tier(Dispatch(f).file.ext) # "weights_only"
<1> USE DEF Dispatch, ToEngine, ToWeights, Refused
<1>1. CASE f.ext \in TorchExts
    BY <1>1 DEF TorchExts, TorchBundle, Tier
<1>2. CASE f.ext \in {".safetensors", ".mlmodel", ".gguf"}
    BY <1>2 DEF TorchExts, Bundle
<1>3. CASE f.ext \in {".h5", ".keras", ".tflite", ".pb"}
    BY <1>3 DEF TorchExts, Converted, FileOf, H5Bundle, Tier
<1>4. CASE f.ext \notin TorchExts \cup {".safetensors", ".mlmodel", ".gguf", ".h5", ".keras",
                                        ".tflite", ".pb"}
    BY <1>4 DEF Tier
<1> QED BY <1>1, <1>2, <1>3, <1>4

\* A bundle of weights is the file as it was sent.
LEMMA WeightsAsSent ==
    ASSUME NEW f, Dispatch(f).to = "weights"
    PROVE  Dispatch(f).file = f
BY DEF Dispatch, ToEngine, ToWeights, Refused, TorchBundle, Bundle, H5Bundle

\* A converted file is run, and any other reaches the engine as it was sent.
LEMMA ConvertedRuns ==
    ASSUME NEW f
    PROVE  Ingested(Converted(f))
<1>1. Converted(f).ext = ".onnx" /\ Converted(f).body = "graph" /\ Converted(f).sound
    BY DEF Converted, FileOf
<1>2. DetectFormat(Converted(f)) = "onnx"
    BY <1>1 DEF DetectFormat
<1> QED BY <1>1, <1>2 DEF Ingested

LEMMA EngineAsSent ==
    ASSUME NEW f, Dispatch(f).to = "engine"
    PROVE  Dispatch(f).file = f \/ Ingested(Dispatch(f).file)
<1>1. CASE Dispatch(f) = ToEngine(f)
    BY <1>1 DEF ToEngine
<1>2. CASE Dispatch(f) = ToEngine(Converted(f))
    BY <1>2, ConvertedRuns DEF ToEngine
<1>3. Dispatch(f) = ToEngine(f) \/ Dispatch(f) = ToEngine(Converted(f))
    BY DEF Dispatch, ToEngine, ToWeights, Refused, TorchBundle, Bundle, H5Bundle
<1> QED BY <1>1, <1>2, <1>3

\* A promised file that was uploaded is run.
LEMMA PromisedRuns ==
    ASSUME NEW f, WellNamed(f), f.uploaded, Promised(f)
    PROVE  Dispatch(f).to = "engine" /\ Ingested(Dispatch(f).file)
<1>1. f.body \in {"graph", "estimator"}
    BY DEF WellNamed, Promised, Executable
<1>2. CASE f.body = "estimator"
  <2>1. f.ext \in {".pkl", ".joblib"} /\ f.head \notin {"torch_zip", "hdf5"} /\ f.sound
      BY <1>2 DEF WellNamed, Promised
  <2>2. Dispatch(f) = ToEngine(f)
      BY <2>1 DEF Dispatch, TorchExts
  <2>3. DetectFormat(f) = "sklearn"
      BY <1>2, <2>1 DEF DetectFormat, PickledKind
  <2> QED BY <1>2, <2>1, <2>2, <2>3 DEF Ingested, ToEngine
<1>3. CASE f.body = "graph" /\ f.ext = ".onnx"
  <2>1. Dispatch(f) = ToEngine(f)
      BY <1>3 DEF Dispatch, TorchExts
  <2> QED BY <1>3, <2>1 DEF Ingested, DetectFormat, ToEngine, Promised
<1>4. CASE f.body = "graph" /\ Tier(f.ext) = "convertible"
  <2>1. f.ext \in {".pb", ".h5", ".keras", ".tflite"}
      BY <1>4 DEF Tier
  <2>2. Dispatch(f) = ToEngine(Converted(f))
      BY <1>4, <2>1 DEF Dispatch, TorchExts, Convertible, Promised
  <2> QED BY <1>4, <2>2, ConvertedRuns DEF ToEngine, Promised
<1> QED BY <1>1, <1>2, <1>3, <1>4 DEF WellNamed, Promised

\* Where a file stands when the worker has dispatched it.
Routed ==
    /\ stage = "engine" => Tier(source.ext) # "weights_only"
    /\ stage \notin {"new", "engine"} => ~Promised(source)

LEMMA RoutedStep ==
    ASSUME Routed, [WeightNext]_weightVars
    PROVE  Routed'
<1>1. CASE Arrive
  <2>1. PICK f \in Files :
          LET way == Dispatch(Sent(f))
          IN  /\ source' = IF way.to = "failed" THEN Sent(f) ELSE way.file
              /\ \/ way.to = "weights" /\ OrCancelled("ingested")
                 \/ /\ way.to = "engine"
                    /\ stage' = IF Ingested(way.file) THEN "engine" ELSE "failed"
                 \/ way.to = "failed" /\ stage' = "failed"
      BY <1>1 DEF Arrive, Sent
  <2> DEFINE way == Dispatch(Sent(f))
  <2>2. CASE ~f.uploaded
    <3>1. Sent(f) = Synthesized(f)
        BY <2>2 DEF Sent
    <3>2. /\ way.to = "engine" /\ way.file = Sent(f)
          /\ Ingested(Sent(f)) /\ Tier(Sent(f).ext) # "weights_only"
        BY <3>1, SynthesizedRuns DEF ToEngine
    <3>3. stage' = "engine" /\ source' = Sent(f)
        BY <2>1, <3>2
    <3> QED BY <3>2, <3>3 DEF Routed
  <2>3. CASE f.uploaded
    <3>1. Sent(f) = f /\ WellNamed(f)
        BY <2>3, WeightAssumption DEF Sent
    <3>2. CASE way.to = "engine" /\ Ingested(way.file)
      <4>1. stage' = "engine" /\ source' = way.file
          BY <2>1, <3>2
      <4> QED BY <3>2, <4>1, EngineRuns DEF Routed
    <3>3. CASE ~(way.to = "engine" /\ Ingested(way.file))
      <4>1. ~Promised(f)
          BY <2>3, <3>1, <3>3, PromisedRuns
      <4>2. source' = f
          BY <2>1, <3>1, <3>3, EngineAsSent, WeightsAsSent
      <4>3. stage' # "engine"
          BY <2>1, <3>3 DEF OrCancelled
      <4>4. Promised(source)' <=> Promised(f)
          BY <4>2 DEF Promised
      <4> QED BY <4>1, <4>3, <4>4 DEF Routed
    <3> QED BY <3>2, <3>3
  <2> QED BY <2>2, <2>3
<1>2. CASE Judge \/ Pack \/ Deliver
  <2>1. source' = source /\ stage \notin {"new", "engine"} /\ stage' # "engine"
      BY <1>2 DEF Judge, Pack, Deliver, OrCancelled
  <2>2. Promised(source)' <=> Promised(source)
      BY <2>1 DEF Promised
  <2> QED BY <2>1, <2>2 DEF Routed
<1>3. CASE UNCHANGED weightVars
    BY <1>3 DEF weightVars, Routed, Promised
<1> QED BY <1>1, <1>2, <1>3 DEF WeightNext

\* The table of capabilities and the worker agree: no file it lists as weights only
\* reaches the engine, and one it promises to run is run, whatever arrives.
THEOREM RoutedAsPromised == WeightSpec => []RoutingAsPromised
<1>1. WeightInit => Routed
    BY DEF WeightInit, Routed
<1>2. Routed /\ [WeightNext]_weightVars => Routed'
    BY RoutedStep
<1>3. Routed => RoutingAsPromised
    BY DEF Routed, RoutingAsPromised, Promised, Executable
<1> QED BY <1>1, <1>2, <1>3, PTL DEF WeightSpec
-----------------------------------------------------------------------------
(* What the report says of the layers.                                      *)

\* The tensors that speak for a layer, and those one of them is chosen from.
Own(f, keys) == {k \in Held(f) : f.tensors[k].key \in keys /\ f.tensors[k].size > 0}
Matrices(f, keys) == {k \in Own(f, keys) : Loaded(f)[k].ndim >= 2}
Judged(f, keys) == IF Matrices(f, keys) # {} THEN Matrices(f, keys) ELSE Own(f, keys)

LEMMA TensorFacts ==
    ASSUME NEW f, Readable(f)
    PROVE  \E n \in Nat :
              /\ DOMAIN f.tensors = 1 .. n
              /\ \A k \in 1 .. n : f.tensors[k] \in ToSet(f.tensors) \cap Tensors
<1>1. f.tensors \in Seq(Tensors)
    BY DEF Readable
<1>2. Len(f.tensors) \in Nat /\ DOMAIN f.tensors = 1 .. Len(f.tensors)
      /\ \A k \in 1 .. Len(f.tensors) : f.tensors[k] \in Tensors
  <2> QED BY <1>1
<1>3. \A k \in DOMAIN f.tensors : f.tensors[k] \in ToSet(f.tensors)
    BY DEF ToSet
<1> QED BY <1>2, <1>3

\* A layer with a tensor of its own is measured, and by none smaller than the
\* others it could have been measured by.
LEMMA HeaviestIs ==
    ASSUME NEW f, Readable(f), NEW keys
    PROVE  /\ Heaviest(f, keys) \subseteq Judged(f, keys)
           /\ \A h \in Heaviest(f, keys) : \A k \in Judged(f, keys) :
                  f.tensors[k].size <= f.tensors[h].size
           /\ Judged(f, keys) # {} => Heaviest(f, keys) # {}
<1> DEFINE J == Judged(f, keys)
           size == [k \in J |-> f.tensors[k].size]
           Larger(j, k) == \/ f.tensors[j].size > f.tensors[k].size
                           \/ f.tensors[j].size = f.tensors[k].size /\ j < k
<1>1. Heaviest(f, keys) = {k \in J : ~\E j \in J : Larger(j, k)}
    BY DEF Heaviest, Judged, Matrices, Own
<1>2. PICK n \in Nat : DOMAIN f.tensors = 1 .. n /\ \A k \in 1 .. n : f.tensors[k].size \in Nat
    BY TensorFacts DEF Tensors
<1>3. J \in SUBSET (1 .. n)
    BY <1>2 DEF Judged, Matrices, Own, Held
<1>4. \A k \in J : k \in Nat /\ f.tensors[k].size \in Nat
    BY <1>2, <1>3
<1> HIDE DEF J
<1>5. \A h \in Heaviest(f, keys) : \A k \in J : f.tensors[k].size <= f.tensors[h].size
    BY <1>1, <1>4
<1>6. ASSUME J # {} PROVE Heaviest(f, keys) # {}
  <2> DEFINE S == {size[k] : k \in J}
  <2>1. S \in SUBSET Int /\ S # {} /\ IsFiniteSet(S)
    <3>1. IsFiniteSet(J)
        BY <1>3, PlacesFinite
    <3>2. IsFiniteSet(S)
      <4> HIDE DEF size
      <4> QED BY <3>1, FiniteImage
    <3> QED BY <1>4, <1>6, <3>2
  <2> DEFINE M == Max(S)
             T == {k \in J : f.tensors[k].size = M}
  <2>2. M \in S /\ \A x \in S : x <= M
    <3> HIDE DEF S
    <3> QED BY <2>1, MaxIs
  <2> HIDE DEF M
  <2>3. T \in SUBSET Nat /\ T # {}
      BY <1>4, <2>2
  <2>4. PICK h \in T : \A k \in T : h <= k
    <3> HIDE DEF T
    <3> QED BY <2>3, Least
  <2>5. \A k \in J : f.tensors[k].size <= M
      BY <2>2
  <2>6. h \in J /\ f.tensors[h].size = M /\ M \in Nat
      BY <1>4
  <2>7. \A k \in J : f.tensors[k].size = M => h <= k
      BY <2>4
  <2>8. ~\E j \in J : Larger(j, h)
      BY <1>4, <2>5, <2>6, <2>7
  <2> QED BY <1>1, <2>6, <2>8
<1> QED BY <1>1, <1>5, <1>6 DEF J

\* Every tensor that can be measured belongs to a layer, under the key it has in the
\* file, unless nn.DataParallel has prefixed it.
LEMMA Covered ==
    ASSUME NEW f, Readable(f), ~DataParallel(f), NEW k \in Held(f)
    PROVE  \E i \in DOMAIN Layers(f) : f.tensors[k].key \in Layers(f)[i].keys
<1> DEFINE t == f.tensors[k]
<1>1. PICK n \in Nat : DOMAIN f.tensors = 1 .. n
                       /\ \A j \in 1 .. n : f.tensors[j] \in ToSet(f.tensors)
    BY TensorFacts
<1>2. k \in 1 .. n /\ t.type # "quantized" /\ t \in ToSet(f.tensors)
    BY <1>1 DEF Held
<1>3. CASE f.ext = ".gguf"
  <2>1. Layers(f) = GgufLayers(f)
      BY <1>3 DEF Layers
  <2>2. k \in DOMAIN GgufLayers(f) /\ t.key \in GgufLayers(f)[k].keys
      BY <1>1, <1>2 DEF GgufLayers
  <2> QED BY <2>1, <2>2
<1>4. CASE f.ext # ".gguf" /\ f.layers = NoGraphStored
  <2> DEFINE path == [j \in DOMAIN f.tensors |-> LayerPath(f.tensors[j])]
             paths == Once(path)
  <2>1. Layers(f) = FlatLayers(f.tensors)
      BY <1>4 DEF Layers
  <2>2. DOMAIN path = 1 .. n /\ path[k] = LayerPath(t)
      BY <1>1, <1>2
  <2>3. PICK i \in DOMAIN paths : paths[i] = path[k]
    <3> HIDE DEF path
    <3> QED BY <1>2, <2>2, OnceOnto
  <2>4. Stripped(t) = t.key
      BY <1>2 DEF Stripped, DataParallel
  <2>5. DOMAIN FlatLayers(f.tensors) = DOMAIN paths
        /\ FlatLayers(f.tensors)[i].keys
              = {Stripped(f.tensors[j]) : j \in {l \in DOMAIN f.tensors :
                                                   LayerPath(f.tensors[l]) = paths[i]}}
      BY DEF FlatLayers
  <2>6. LayerPath(f.tensors[k]) = paths[i]
      BY <2>2, <2>3
  <2> HIDE DEF paths, path
  <2>7. t.key \in FlatLayers(f.tensors)[i].keys
      BY <1>1, <1>2, <2>4, <2>5, <2>6
  <2> QED BY <2>1, <2>5, <2>7
<1>5. CASE f.ext # ".gguf" /\ f.layers # NoGraphStored
  <2>1. PICK i \in DOMAIN f.layers : f.layers[i].name[1] = t.key[1]
      BY <1>2, <1>5 DEF Readable, ToSet
  <2>2. CASE f.ext = ".mlmodel"
    <3>1. Layers(f) = CoreMLLayers(f)
        BY <1>5, <2>2 DEF Layers
    <3>2. DOMAIN CoreMLLayers(f) = DOMAIN f.layers
          /\ CoreMLLayers(f)[i].keys
                = {u.key : u \in {v \in ToSet(f.tensors) : v.key[1] = f.layers[i].name[1]}}
        BY DEF CoreMLLayers
    <3>3. t.key \in CoreMLLayers(f)[i].keys
        BY <1>2, <2>1, <3>2
    <3> QED BY <2>1, <3>1, <3>2, <3>3
  <2>3. CASE f.ext # ".mlmodel"
    <3>1. Layers(f) = KerasLayers(f)
        BY <1>5, <2>3 DEF Layers
    <3>2. DOMAIN KerasLayers(f) = DOMAIN f.layers
          /\ KerasLayers(f)[i].keys
                = {f.tensors[j].key : j \in {l \in DOMAIN f.tensors :
                                               f.tensors[l].key[1] = f.layers[i].name[1]}}
        BY DEF KerasLayers
    <3>3. t.key \in KerasLayers(f)[i].keys
        BY <1>1, <1>2, <2>1, <3>2
    <3> QED BY <2>1, <3>1, <3>2, <3>3
  <2> QED BY <2>2, <2>3
<1> QED BY <1>3, <1>4, <1>5

\* A damaged matrix is measured itself, or a larger tensor of its layer is instead.
LEMMA Reported ==
    ASSUME NEW f, Readable(f), ~DataParallel(f), NEW k \in Held(f),
           f.tensors[k].ndim >= 2, f.tensors[k].size > 0
    PROVE  \E i \in DOMAIN Measurements(f, Layers(f)) : \E h \in Held(f) :
              /\ {f.tensors[k].key, f.tensors[h].key} \subseteq Layers(f)[i].keys
              /\ Measurements(f, Layers(f))[i] = f.tensors[h].sqnr
              /\ f.tensors[h].size >= f.tensors[k].size
              /\ f.tensors[h].ndim >= 2 \/ f.ext \in {".mlmodel", ".gguf"}
              /\ h \in DOMAIN f.tensors /\ i \in DOMAIN Layers(f)
<1> DEFINE L == Layers(f)
           t == f.tensors[k]
<1>1. PICK i \in DOMAIN L : t.key \in L[i].keys
    BY Covered
<1> DEFINE keys == L[i].keys
           h == CHOOSE j \in Heaviest(f, keys) : TRUE
<1>2. k \in Own(f, keys) /\ k \in DOMAIN f.tensors
    BY <1>1 DEF Own, Held
<1>3. Judged(f, keys) \subseteq Own(f, keys) /\ Judged(f, keys) # {}
    BY <1>2 DEF Judged, Matrices
<1>4. Heaviest(f, keys) # {} /\ h \in Heaviest(f, keys) /\ h \in Judged(f, keys)
    BY <1>3, HeaviestIs
<1>5. h \in Held(f) /\ h \in DOMAIN f.tensors /\ f.tensors[h].key \in keys
    BY <1>3, <1>4 DEF Own, Held
<1>6. i \in DOMAIN Measurements(f, L) /\ Measurements(f, L)[i] = f.tensors[h].sqnr
    BY <1>4 DEF Measurements
<1>7. k \in Judged(f, keys) /\ (f.tensors[h].ndim >= 2 \/ f.ext \in {".mlmodel", ".gguf"})
  <2>1. CASE f.ext \in {".mlmodel", ".gguf"}
    <3>1. ASSUME NEW j \in DOMAIN f.tensors PROVE ~(Loaded(f)[j].ndim >= 2)
      <4>1. f.tensors[j] \in Tensors
          BY TensorFacts
      <4>2. Loaded(f)[j] = [f.tensors[j] EXCEPT !.ndim = 1]
          BY <2>1 DEF Loaded
      <4>3. Loaded(f)[j].ndim = 1
          BY <4>1, <4>2 DEF Tensors
      <4> QED BY <4>3
    <3>2. Matrices(f, keys) = {}
        BY <3>1 DEF Matrices, Own, Held
    <3> QED BY <1>2, <2>1, <3>2 DEF Judged
  <2>2. CASE f.ext \notin {".mlmodel", ".gguf"}
    <3>1. \A j \in DOMAIN f.tensors : Loaded(f)[j] = f.tensors[j]
        BY <2>2 DEF Loaded
    <3>2. k \in Matrices(f, keys)
        BY <1>2, <3>1 DEF Matrices
    <3>3. Judged(f, keys) = Matrices(f, keys)
        BY <3>2 DEF Judged
    <3> QED BY <1>4, <1>5, <3>1, <3>2, <3>3 DEF Matrices
  <2> QED BY <2>1, <2>2
<1>8. f.tensors[h].size >= t.size
  <2>1. t.size <= f.tensors[h].size
      BY <1>4, <1>7, HeaviestIs
  <2>2. t.size \in Nat /\ f.tensors[h].size \in Nat
      BY <1>2, <1>5, TensorFacts DEF Tensors
  <2> QED BY <2>1, <2>2
<1> HIDE DEF L, h
<1> QED BY <1>1, <1>5, <1>6, <1>7, <1>8 DEF L

\* What has been read, and what has been made of it, until the report.
JudgedInv ==
    /\ stage \in {"ingested", "measured", "packed", "delivered"} =>
          Readable(source) /\ specs = Layers(source)
    /\ stage \in {"measured", "packed", "delivered"} => sqnr = Measurements(source, specs)

LEMMA JudgedStep ==
    ASSUME JudgedInv, [WeightNext]_weightVars
    PROVE  JudgedInv'
<1> USE DEF OrCancelled
<1>1. CASE Arrive
  <2>1. PICK f \in Files :
          LET way == Dispatch(Sent(f))
          IN  /\ source' = IF way.to = "failed" THEN Sent(f) ELSE way.file
              /\ \/ way.to = "weights" /\ specs' = Layers(Sent(f)) /\ stage' \in {"ingested", "cancelled"}
                 \/ stage' \in {"engine", "failed"}
      BY <1>1 DEF Arrive, Sent
  <2>2. CASE stage' = "ingested"
    <3>1. /\ Dispatch(Sent(f)).to = "weights" /\ source' = Dispatch(Sent(f)).file
          /\ specs' = Layers(Sent(f))
        BY <2>1, <2>2
    <3>2. f.uploaded
        BY <3>1, SynthesizedRuns DEF Sent, ToEngine
    <3>3. source' = f /\ specs' = Layers(f) /\ Readable(f)
        BY <3>1, <3>2, WeightsAsSent, WeightAssumption DEF Sent
    <3> QED BY <2>2, <3>3 DEF JudgedInv, Readable
  <2>3. CASE stage' # "ingested"
      BY <2>1, <2>3 DEF JudgedInv
  <2> QED BY <2>2, <2>3
<1>2. CASE Judge
    BY <1>2 DEF Judge, JudgedInv
<1>3. CASE Pack
    BY <1>3 DEF Pack, JudgedInv
<1>4. CASE Deliver
    BY <1>4 DEF Deliver, JudgedInv
<1>5. CASE UNCHANGED weightVars
    BY <1>5 DEF weightVars, JudgedInv
<1> QED BY <1>1, <1>2, <1>3, <1>4, <1>5 DEF WeightNext

\* The report calls a file safe only if every matrix int8 ruins is hidden by a larger
\* tensor of its own layer, whatever tensors and layers the file has; the tensors of
\* an nn.DataParallel checkpoint, whose keys no layer has, are not measured.
THEOREM LayersAlwaysJudged == WeightSpec => []LayersJudged
<1>1. WeightInit => JudgedInv
    BY DEF WeightInit, JudgedInv
<1>2. JudgedInv /\ [WeightNext]_weightVars => JudgedInv'
    BY JudgedStep
<1>3. JudgedInv => LayersJudged
  <2> SUFFICES ASSUME JudgedInv, stage = "delivered", ~DataParallel(source),
                      NEW k \in Held(source), source.tensors[k].ndim >= 2,
                      source.tensors[k].size > 0, source.tensors[k].sqnr < 20
               PROVE  \/ RiskLevel = "review"
                      \/ \E u \in ToSet(source.tensors) \ {source.tensors[k]} :
                            /\ \E i \in DOMAIN specs :
                                  {source.tensors[k].key, u.key} \subseteq specs[i].keys
                            /\ u.size >= source.tensors[k].size
                            /\ u.ndim >= 2 \/ source.ext \in {".mlmodel", ".gguf"}
      BY DEF LayersJudged
  <2>1. Readable(source) /\ specs = Layers(source) /\ sqnr = Measurements(source, specs)
      BY DEF JudgedInv
  <2>2. PICK i \in DOMAIN sqnr : \E h \in Held(source) :
            /\ {source.tensors[k].key, source.tensors[h].key} \subseteq specs[i].keys
            /\ sqnr[i] = source.tensors[h].sqnr
            /\ source.tensors[h].size >= source.tensors[k].size
            /\ source.tensors[h].ndim >= 2 \/ source.ext \in {".mlmodel", ".gguf"}
            /\ h \in DOMAIN source.tensors /\ i \in DOMAIN specs
      BY <2>1, Reported
  <2>3. PICK h \in Held(source) :
            /\ {source.tensors[k].key, source.tensors[h].key} \subseteq specs[i].keys
            /\ sqnr[i] = source.tensors[h].sqnr
            /\ source.tensors[h].size >= source.tensors[k].size
            /\ source.tensors[h].ndim >= 2 \/ source.ext \in {".mlmodel", ".gguf"}
            /\ h \in DOMAIN source.tensors /\ i \in DOMAIN specs
      BY <2>2
  <2>4. CASE sqnr[i] < 20
      BY <2>4 DEF RiskLevel
  <2>5. CASE ~(sqnr[i] < 20)
    <3>1. source.tensors[h] # source.tensors[k] /\ source.tensors[h] \in ToSet(source.tensors)
        BY <2>3, <2>5 DEF ToSet
    <3> QED BY <2>3, <3>1
  <2> QED BY <2>4, <2>5
<1> QED BY <1>1, <1>2, <1>3, PTL DEF WeightSpec
-----------------------------------------------------------------------------
(* The weight of the most sensitive operator.                              *)

\* What the sampler chose is a precision, a ratio and no rank.
Sampled(c) ==
    \A name \in DOMAIN c : c[name].prec \in {FP32, FP16, INT8} /\ c[name].prune \in Nat
                           /\ c[name].rank = NoRank

SampledInv == \A k \in DOMAIN points : Sampled(points[k].config)

LEMMA SpacePrecisions ==
    ASSUME NEW o, NEW protected, NEW total
    PROVE  ActionSpace(o, protected, total).prec \subseteq {FP32, FP16, INT8}
<1> DEFINE P == {FP32, FP16, INT8}
<1> USE DEF INT8, FP16, FP32
<1>1. CASE o.cat \notin DOMAIN Templates
    BY <1>1 DEF ActionSpace
<1>2. CASE o.cat \in DOMAIN Templates
  <2> DEFINE t == Templates[o.cat]
             light == IF protected THEN t.prec \cap {FP32, FP16} ELSE t.prec
  <2>1. t.prec \subseteq P /\ FP32 \in t.prec
      BY <1>2 DEF Templates
  <2> HIDE DEF t
  <2>2. light \subseteq P /\ FP32 \in light /\ light \in SUBSET Nat
      BY <2>1
  <2>3. Max(light) \in light
    <3> HIDE DEF light
    <3>1. light \in SUBSET (0 .. 2) /\ light # {}
        BY <2>2
    <3> QED BY <3>1, Greatest DEF Max
  <2> HIDE DEF light
  <2> QED BY <1>2, <2>2, <2>3 DEF ActionSpace, light, t
<1> QED BY <1>1, <1>2

LEMMA ConfigSampled ==
    ASSUME NEW c \in Configs
    PROVE  Sampled(c)
<1> SUFFICES ASSUME NEW name \in DOMAIN c
             PROVE  /\ c[name].prec \in {FP32, FP16, INT8} /\ c[name].prune \in Nat
                    /\ c[name].rank = NoRank
    BY DEF Sampled
<1>1. PICK o \in ToSet(Compressible(ops)) : o.name = name
    BY ConfigNames
<1>2. c[name] \in Choices1(o)
    BY <1>1 DEF Configs
<1>3. SpaceOf(o).prec \subseteq {FP32, FP16, INT8}
    BY SpacePrecisions DEF SpaceOf
<1>4. Prunes \subseteq Nat
    BY SearchAssumption
<1> DEFINE x == c[name]
<1> HIDE DEF x
<1>5. x.prec \in SpaceOf(o).prec /\ x.prune \in Prunes /\ x.rank = NoRank
    BY <1>2 DEF Choices1, x
<1> QED BY <1>3, <1>4, <1>5 DEF x

LEMMA SampledStep ==
    ASSUME TrialsInv, PhasesInOrder, SampledInv, [Next]_vars
    PROVE  SampledInv'
<1> USE CheckpointMoves DEF Early, Later, Stages
<1>1. CASE UNCHANGED points
    BY <1>1 DEF SampledInv
<1>2. CASE Ingest \/ Analyze
    BY <1>1, <1>2, PreparesOnly DEF searchVars
<1>3. CASE StartSearch \/ FinishSearch
    BY <1>1, <1>3 DEF StartSearch, FinishSearch, runVars
<1>4. CASE Trial
  <2>1. ASSUME NEW c, TrialMade(c) PROVE SampledInv'
    <3>1. PICK p : points' = Append(points, p) /\ p.config = c /\ c \in Configs
      <4>1. PICK acc, size :
              /\ c \in Configs
              /\ points' = Append(points, [num |-> Len(values), acc |-> acc, size |-> size,
                                           config |-> c])
          BY <2>1 DEF TrialMade
      <4>2. PICK p : p = [num |-> Len(values), acc |-> acc, size |-> size, config |-> c]
          OBVIOUS
      <4>3. points' = Append(points, p) /\ p.config = c
          BY <4>1, <4>2
      <4> QED BY <4>1, <4>3
    <3>2. /\ Len(points) \in Nat
          /\ DOMAIN points = 1 .. Len(points) /\ DOMAIN points' = 1 .. Len(points) + 1
          /\ \A k \in 1 .. Len(points) : points'[k] = points[k]
          /\ points'[Len(points) + 1] = p
        BY <3>1, Appended DEF TrialsInv
    <3>3. Sampled(c)
        BY <3>1, ConfigSampled
    <3> QED BY <3>1, <3>2, <3>3 DEF SampledInv
  <2>2. CASE points' = points
      BY <1>1, <2>2
  <2> QED BY <1>4, <2>1, <2>2, TrialSteps
<1>5. CASE ~Ingest /\ ~Analyze /\ ~StartSearch /\ ~Trial /\ ~FinishSearch
    BY <1>1, <1>5, OtherSteps
<1> QED BY <1>2, <1>3, <1>4, <1>5

\* A file whose names are lists, none of its weights being called as the transformer
\* calls its own.
Unclaimed(g) ==
    /\ ListNamed(g)
    /\ \A x \in DOMAIN g.inits : ~Ends(x, Reserved \cup {"q"})

\* The actions of a trial ask int8 of no node that reads only the most sensitive
\* operator's weight.
LEMMA LightTrial ==
    ASSUME NEW g, WellFormed(g), Unclaimed(g), NEW all, all = Compressible(Capped(Operators(g))),
           NEW config, Sampled(config), DOMAIN config = {o.name : o \in ToSet(all)},
           NEW s, s \in DOMAIN config => config[s].prec # INT8,
           NEW x \in DOMAIN g.inits,
           {OpName(g, n) : n \in {m \in Nodes(g) : Contains(g.nodes[m].in, x)}} = {s}
    PROVE  Append(x, "q") \notin DOMAIN Apply(g, ActionsOf(all, config)).inits
<1> DEFINE actions == ActionsOf(all, config)
           heavy == {a.name : a \in {a \in ToSet(actions) : a.kind \in QuantKinds /\ a.arg # FP16}}
           u == [weight |-> x, heavy |-> heavy]
<1>1. IsList(all) /\ \A o \in ToSet(all) : o.name # NoName
    BY SearchedNames
<1>2. NoRank \in Nat /\ NoName \notin DOMAIN config
    BY <1>1 DEF NoRank
<1>3. \A o \in ToSet(all) :
         o.name \in DOMAIN config /\ config[o.name].prune \in Nat /\ config[o.name].rank \in Nat
    BY <1>2 DEF Sampled
<1>4. ListedActions(config, actions)
    BY <1>1, <1>3, AskedList
<1> HIDE DEF actions
<1>5. ASSUME NEW a \in ToSet(actions), a.kind \in QuantKinds, a.arg # FP16
      PROVE  a.name # s /\ a.name # NoName
  <2>1. a.name \in DOMAIN config /\ config[a.name].prec = INT8
      BY <1>4, <1>5 DEF ListedActions, AsksFor, Sampled, INT8, FP16, FP32
  <2> QED BY <1>2, <2>1
<1>6. ASSUME NEW n \in ToSet(g.nodes), n.name \in heavy PROVE x \notin ToSet(n.in)
  <2>1. n.name # s /\ n.name # NoName
      BY <1>5, <1>6
  <2>2. PICK m \in Nodes(g) : n = g.nodes[m]
      BY DEF ToSet, Nodes
  <2>3. OpName(g, m) = n.name
      BY <2>1, <2>2 DEF OpName
  <2>4. ~Contains(n.in, x)
      BY <2>1, <2>2, <2>3
  <2>5. IsList(n.in)
      BY DEF WellFormed, WellFormedNode
  <2> QED BY <2>4, <2>5, ListFacts DEF Contains, ToSet
<1>7. u.weight = x /\ u.heavy = heavy
    OBVIOUS
<1>8. \A a \in ToSet(actions) : a.kind \in QuantKinds /\ a.arg # FP16 => a.name \in heavy
    OBVIOUS
<1> HIDE DEF u, heavy
<1>9. ListNamed(g) /\ IsList(x) /\ ~Ends(x, Reserved)
    BY DEF Unclaimed, ListNamed, Ends
<1>10. Append(x, "q") \notin DOMAIN g.inits
    BY <1>9, EndsIs DEF Unclaimed
<1>11. Spareable(u)
    BY <1>7, <1>9 DEF Spareable
<1>12. ActionList(actions)
    BY <1>4 DEF ListedActions
<1>13. Append(u.weight, "q") \notin DOMAIN Apply(g, actions).inits
    BY <1>6, <1>7, <1>8, <1>9, <1>10, <1>11, <1>12, ApplySpared
<1> QED BY <1>7, <1>13 DEF actions

LEMMA LightFollows ==
    ASSUME TrialsInv, SampledInv, SensitiveSpared, Unclaimed(graph)
    PROVE  MostSensitiveStaysLight
<1> SUFFICES ASSUME pc = "ladder", NEW i \in DOMAIN profile,
                    \A j \in DOMAIN profile \ {i} : profile[j].s < profile[i].s,
                    NEW k \in DOMAIN points, NEW x \in DOMAIN graph.inits,
                    {OpName(graph, n) : n \in {m \in Nodes(graph) :
                        Contains(graph.nodes[m].in, x)}} = {profile[i].name}
             PROVE  Append(x, "q") \notin
                        DOMAIN Apply(graph, ActionsOf(Compressible(ops), points[k].config)).inits
    BY DEF MostSensitiveStaysLight
<1> DEFINE config == points[k].config
           all == Compressible(ops)
           s == profile[i].name
<1>1. /\ graph \in Graphs /\ ops = Capped(Operators(graph))
      /\ DOMAIN config = {o.name : o \in ToSet(Compressible(ops))}
    BY DEF TrialsInv, Recorded
<1>2. WellFormed(graph) /\ all = Compressible(Capped(Operators(graph)))
    BY <1>1, SensitivityAssumption
<1>3. Sampled(config)
    BY DEF SampledInv
<1>4. s \in DOMAIN config => config[s].prec # INT8
    BY DEF SensitiveSpared
<1>5. {OpName(graph, n) : n \in {m \in Nodes(graph) : Contains(graph.nodes[m].in, x)}} = {s}
    OBVIOUS
<1> HIDE DEF config, s
<1>6. Append(x, "q") \notin DOMAIN Apply(graph, ActionsOf(all, config)).inits
  <2> HIDE DEF all
  <2> QED BY <1>1, <1>2, <1>3, <1>4, <1>5, LightTrial DEF all
<1> QED BY <1>6 DEF config

\* The guarantee the ladder's protection is for: unless the file already has a weight
\* called as the transformer calls its own, no trial stores int8 values of a weight that
\* only the uniquely most sensitive operator reads, whatever else it fuses, prunes or
\* converts and in whichever order.
THEOREM SensitiveStaysLight == Spec => [](Unclaimed(graph) => MostSensitiveStaysLight)
<1>1. Init => SampledInv
    BY DEF Init, SampledInv
<1>2. TrialsInv /\ PhasesInOrder /\ SampledInv /\ [Next]_vars => SampledInv'
    BY SampledStep
<1>3. Spec => []PhasesInOrder
  <2>1. PipelineInv => PhasesInOrder
      BY DEF PipelineInv
  <2> QED BY <2>1, PipelineInvariant, PTL
<1>4. TrialsInv /\ SampledInv /\ SensitiveSpared => (Unclaimed(graph) => MostSensitiveStaysLight)
    BY LightFollows
<1> QED BY <1>1, <1>2, <1>3, <1>4, TrialsInvariant, SensitiveAlwaysSpared, PTL DEF Spec
=============================================================================
