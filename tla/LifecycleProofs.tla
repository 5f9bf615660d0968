-------------------------- MODULE LifecycleProofs --------------------------
(* Theorems about Lifecycle, for every value of its constants: what reaper,  *)
(* endings and cancellation do to a run and its model, what a model row      *)
(* promises about the object store, and that Lifecycle implements ModelStatus. *)
EXTENDS Lifecycle, TLAPS

USE DEF Statuses, RunStatuses, DashStatuses, Artifacts, Objects, RowKinds,
        Waiting, Piping, Publishing, Failing, Active, InFlight, Jobs, Deletes,
        data, clocks, procs

-----------------------------------------------------------------------------
(* The two helpers that both endings of a job share keep the types of what   *)
(* they assign.                                                             *)

LEMMA EndRunTypes ==
    ASSUME TypeOK, NEW u \in Uploads,
           NEW verdict \in RunStatuses, NEW badge \in DashStatuses,
           EndRun(u, verdict, badge)
    PROVE  run' \in [Uploads -> RunStatuses] /\ dash' \in [Uploads -> DashStatuses]
BY DEF TypeOK, EndRun

LEMMA ReleaseModelTypes ==
    ASSUME TypeOK, NEW u \in Uploads, NEW owner \in BOOLEAN,
           NEW status \in Statuses, ReleaseModel(u, owner, status)
    PROVE  model' \in [Uploads -> Statuses] /\ analysis' \in [Uploads -> BOOLEAN]
<1>1. model' \in [Uploads -> Statuses]
      BY DEF TypeOK, ReleaseModel
<1>2. analysis' \in [Uploads -> BOOLEAN]
      BY DEF TypeOK, ReleaseModel
<1> QED BY <1>1, <1>2

LEMMA EndJobTypes ==
    ASSUME TypeOK, NEW u \in Uploads, EndJob(u)
    PROVE  /\ job' \in [Uploads -> Jobs]
           /\ cancel' \subseteq Uploads
           /\ seen' \in [Uploads -> Statuses]
           /\ out' \in [Uploads -> Artifacts \cup {"none"}]
           /\ UNCHANGED <<store, clocks, del, procs>>
BY DEF TypeOK, EndJob

-----------------------------------------------------------------------------
(* Type correctness.                                                        *)

LEMMA ApiKeepsTypes ==
    ASSUME TypeOK, NEW u \in Uploads, Api(u)
    PROVE  TypeOK'
<1> USE DEF TypeOK
<1>1. CASE StageUpload(u)       BY <1>1 DEF StageUpload
<1>2. CASE CommitRows(u)        BY <1>2 DEF CommitRows
<1>3. CASE EnqueuePipeline(u)   BY <1>3 DEF EnqueuePipeline
<1>4. CASE EnqueueFails(u)      BY <1>4 DEF EnqueueFails
<1>5. CASE IngestionComplete(u) BY <1>5 DEF IngestionComplete
<1>6. CASE Deploy(u)            BY <1>6 DEF Deploy
<1>7. CASE Undeploy(u)          BY <1>7 DEF Undeploy
<1>8. CASE DeleteRequest(u)     BY <1>8 DEF DeleteRequest
<1>9. CASE DeleteRows(u)        BY <1>9 DEF DeleteRows
<1>10. CASE DeletePrefix(u)     BY <1>10 DEF DeletePrefix
<1>11. CASE DeleteSource(u)     BY <1>11 DEF DeleteSource
<1> QED BY <1>1, <1>2, <1>3, <1>4, <1>5, <1>6, <1>7, <1>8, <1>9, <1>10, <1>11
        DEF Api

LEMMA JobKeepsTypes ==
    ASSUME LifecycleAssumption, TypeOK, NEW u \in Uploads,
           PickUp(u) \/ JobStep(u)
    PROVE  TypeOK'
<1> USE DEF TypeOK, Goto
<1>1. CASE PickUp(u)             BY <1>1 DEF PickUp
<1>2. CASE FetchSource(u)        BY <1>2 DEF FetchSource
<1>3. CASE PassCheckpoints(u)    BY <1>3 DEF PassCheckpoints
<1>4. CASE CancelAtCheckpoint(u) BY <1>4 DEF CancelAtCheckpoint
<1>5. CASE PipelineError(u)      BY <1>5 DEF PipelineError
<1>6. CASE UploadArtifact(u)
      BY <1>6 DEF UploadArtifact, LifecycleAssumption
<1>7. CASE UploadIngested(u)     BY <1>7 DEF UploadIngested
<1>8. CASE CacheArchitecture(u)  BY <1>8 DEF CacheArchitecture
<1>9. CASE CacheResults(u)       BY <1>9 DEF CacheResults
<1>10. CASE SuccessRead(u)       BY <1>10 DEF SuccessRead
<1>11. CASE SuccessCommit(u)
  <2>1. rows' \subseteq Uploads \X RowKinds
        BY <1>11 DEF SuccessCommit
  <2>2. /\ run' \in [Uploads -> RunStatuses] /\ dash' \in [Uploads -> DashStatuses]
        /\ model' \in [Uploads -> Statuses] /\ analysis' \in [Uploads -> BOOLEAN]
        /\ key' \in [Uploads -> Artifacts \cup {"none"}]
    <3>1. CASE seen[u] = "none"
          BY <1>11, <3>1 DEF SuccessCommit
    <3>2. CASE seen[u] # "none"
      <4> DEFINE owner == seen[u] \in {"analyzing", "optimizing"}
      <4>1. EndRun(u, "completed", "done") /\ ReleaseModel(u, owner, "draft")
            BY <1>11, <3>2 DEF SuccessCommit
      <4>2. key' \in [Uploads -> Artifacts \cup {"none"}]
            BY <1>11, <3>2 DEF SuccessCommit
      <4>3. owner \in BOOLEAN
            OBVIOUS
      <4> HIDE DEF owner
      <4>4. run' \in [Uploads -> RunStatuses] /\ dash' \in [Uploads -> DashStatuses]
            BY <4>1, EndRunTypes
      <4>5. model' \in [Uploads -> Statuses] /\ analysis' \in [Uploads -> BOOLEAN]
        <5>1. "draft" \in Statuses
              OBVIOUS
        <5> HIDE DEF Statuses
        <5> QED BY <4>1, <4>3, <5>1, ReleaseModelTypes
      <4> QED BY <4>2, <4>4, <4>5
    <3> QED BY <3>1, <3>2
  <2> QED BY <1>11, <2>1, <2>2, EndJobTypes DEF SuccessCommit
<1>12. CASE LogError(u)          BY <1>12 DEF LogError
<1>13. CASE FailureRead(u)       BY <1>13 DEF FailureRead
<1>14. CASE FailureCommit(u)
  <2>1. /\ run' \in [Uploads -> RunStatuses] /\ dash' \in [Uploads -> DashStatuses]
        /\ model' \in [Uploads -> Statuses] /\ analysis' \in [Uploads -> BOOLEAN]
    <3>1. CASE seen[u] = "none"
          BY <1>14, <3>1 DEF FailureCommit
    <3>2. CASE seen[u] # "none"
          BY <1>14, <3>2, EndRunTypes, ReleaseModelTypes DEF FailureCommit
    <3> QED BY <3>1, <3>2
  <2> QED BY <1>14, <2>1, EndJobTypes DEF FailureCommit
<1>15. CASE FailureStale(u)      BY <1>15 DEF FailureStale, EndJob
<1>16. CASE FailureAborts(u)     BY <1>16 DEF FailureAborts
<1> QED BY <1>1, <1>2, <1>3, <1>4, <1>5, <1>6, <1>7, <1>8, <1>9, <1>10, <1>11,
           <1>12, <1>13, <1>14, <1>15, <1>16 DEF JobStep

LEMMA ProcessKeepsTypes ==
    ASSUME LifecycleAssumption, TypeOK, Process \/ Tick
    PROVE  TypeOK'
<1> USE DEF TypeOK
<1>1. CASE ApiCrash    BY <1>1 DEF ApiCrash, Killed
<1>2. CASE WorkerCrash BY <1>2 DEF WorkerCrash, Killed
<1>3. CASE ApiStart    BY <1>3 DEF ApiStart, ReconcileOrphanedRuns
<1>4. CASE WorkerStart BY <1>4 DEF WorkerStart, ReconcileOrphanedRuns
<1>5. CASE Tick        BY <1>5 DEF Tick, Capped, LifecycleAssumption
<1> QED BY <1>1, <1>2, <1>3, <1>4, <1>5 DEF Process

\* Every reachable state has the declared types.
THEOREM TypeCorrect == LifecycleAssumption /\ Spec => []TypeOK
<1> SUFFICES ASSUME LifecycleAssumption
             PROVE  Spec => []TypeOK
    OBVIOUS
<1>1. Init => TypeOK
      BY DEF Init, TypeOK
<1>2. TypeOK /\ [Next]_vars => TypeOK'
  <2> SUFFICES ASSUME TypeOK, [Next]_vars
               PROVE  TypeOK'
      OBVIOUS
  <2>1. CASE Next
        BY <2>1, ApiKeepsTypes, JobKeepsTypes, ProcessKeepsTypes DEF Next
  <2>2. CASE UNCHANGED vars
        BY <2>2 DEF TypeOK, vars
  <2> QED BY <2>1, <2>2
<1> QED BY <1>1, <1>2, PTL DEF Spec

-----------------------------------------------------------------------------
(* The reaper spares live jobs.                                             *)

\* What the deployment must guarantee: inline jobs die with the process whose
\* start reaps them; a worker's job is picked up and ends before ReapAge.
Timing == InlineJobs \/ MaxWait + JobTimeout + Lag < ReapAge

\* Why it is enough: the age of a run is bounded by the time its job waited
\* plus the time it has worked, and both are bounded.
Young(u) ==
    /\ job[u] \in {"none", "staged"} => run[u] = "none" /\ age[u] = 0
    /\ job[u] \in Waiting => age[u] <= MaxWait
    /\ ~InlineJobs /\ job[u] \in Active
          => age[u] <= MaxWait + elapsed[u] /\ elapsed[u] <= JobTimeout + Lag
    /\ InlineJobs /\ ~apiUp => job[u] \notin InFlight
    /\ job[u] \in InFlight => run[u] \in {"streaming", "none"}

ReaperInv ==
    /\ InlineJobs => workerUp
    /\ \A u \in Uploads : Young(u)

LEMMA ApiKeepsReaperInv ==
    ASSUME LifecycleAssumption, TypeOK, ReaperInv, NEW u \in Uploads, Api(u)
    PROVE  ReaperInv'
<1> USE DEF TypeOK, ReaperInv, Young, LifecycleAssumption
<1>1. CASE StageUpload(u)       BY <1>1 DEF StageUpload
<1>2. CASE CommitRows(u)        BY <1>2 DEF CommitRows
<1>3. CASE EnqueuePipeline(u)   BY <1>3 DEF EnqueuePipeline
<1>4. CASE EnqueueFails(u)      BY <1>4 DEF EnqueueFails
<1>5. CASE IngestionComplete(u) BY <1>5 DEF IngestionComplete
<1>6. CASE Deploy(u)            BY <1>6 DEF Deploy
<1>7. CASE Undeploy(u)          BY <1>7 DEF Undeploy
<1>8. CASE DeleteRequest(u)     BY <1>8 DEF DeleteRequest
<1>9. CASE DeleteRows(u)        BY <1>9 DEF DeleteRows
<1>10. CASE DeletePrefix(u)     BY <1>10 DEF DeletePrefix
<1>11. CASE DeleteSource(u)     BY <1>11 DEF DeleteSource
<1> QED BY <1>1, <1>2, <1>3, <1>4, <1>5, <1>6, <1>7, <1>8, <1>9, <1>10, <1>11
        DEF Api

LEMMA JobKeepsReaperInv ==
    ASSUME LifecycleAssumption, TypeOK, ReaperInv, NEW u \in Uploads,
           PickUp(u) \/ JobStep(u)
    PROVE  ReaperInv'
<1> USE DEF TypeOK, ReaperInv, Young, LifecycleAssumption, Goto, WorkerUp
<1>1. CASE PickUp(u)             BY <1>1 DEF PickUp
<1>2. CASE FetchSource(u)        BY <1>2 DEF FetchSource
<1>3. CASE PassCheckpoints(u)    BY <1>3 DEF PassCheckpoints
<1>4. CASE CancelAtCheckpoint(u) BY <1>4 DEF CancelAtCheckpoint
<1>5. CASE PipelineError(u)      BY <1>5 DEF PipelineError
<1>6. CASE UploadArtifact(u)     BY <1>6 DEF UploadArtifact
<1>7. CASE UploadIngested(u)     BY <1>7 DEF UploadIngested
<1>8. CASE CacheArchitecture(u)  BY <1>8 DEF CacheArchitecture
<1>9. CASE CacheResults(u)       BY <1>9 DEF CacheResults
<1>10. CASE SuccessRead(u)       BY <1>10 DEF SuccessRead
<1>11. CASE SuccessCommit(u)     BY <1>11 DEF SuccessCommit, EndJob, EndRun
<1>12. CASE LogError(u)          BY <1>12 DEF LogError
<1>13. CASE FailureRead(u)       BY <1>13 DEF FailureRead
<1>14. CASE FailureCommit(u)     BY <1>14 DEF FailureCommit, EndJob, EndRun
<1>15. CASE FailureStale(u)      BY <1>15 DEF FailureStale, EndJob
<1>16. CASE FailureAborts(u)     BY <1>16 DEF FailureAborts
<1> QED BY <1>1, <1>2, <1>3, <1>4, <1>5, <1>6, <1>7, <1>8, <1>9, <1>10, <1>11,
           <1>12, <1>13, <1>14, <1>15, <1>16 DEF JobStep

\* The only step that fails runs from outside: none of them has a live job.
LEMMA ReconcileSparesLiveJobs ==
    ASSUME LifecycleAssumption, Timing, TypeOK, ReaperInv,
           ReconcileOrphanedRuns, InlineJobs => ~apiUp, NEW u \in Uploads,
           job[u] \in InFlight \cup {"none", "staged"}
    PROVE  run'[u] = run[u]
<1>1. CASE InlineJobs
      BY <1>1 DEF ReconcileOrphanedRuns, ReaperInv, Young, TypeOK
<1>2. CASE ~InlineJobs
  <2>1. run[u] = "streaming" => age[u] < ReapAge
    <3>1. CASE job[u] \in {"none", "staged"}
          BY <3>1 DEF ReaperInv, Young
    <3>2. CASE job[u] \in Waiting
          BY <1>2, <3>2 DEF ReaperInv, Young, TypeOK, Timing, LifecycleAssumption
    <3>3. CASE job[u] \in Active
          BY <1>2, <3>3 DEF ReaperInv, Young, TypeOK, Timing, LifecycleAssumption
    <3> QED BY <3>1, <3>2, <3>3
  <2> QED BY <2>1 DEF ReconcileOrphanedRuns, TypeOK, LifecycleAssumption
<1> QED BY <1>1, <1>2

LEMMA ProcessKeepsReaperInv ==
    ASSUME LifecycleAssumption, Timing, TypeOK, ReaperInv, Process \/ Tick
    PROVE  ReaperInv'
<1>1. CASE ApiCrash
      BY <1>1 DEF ApiCrash, Killed, TypeOK, ReaperInv, Young
<1>2. CASE WorkerCrash
      BY <1>2 DEF WorkerCrash, Killed, TypeOK, ReaperInv, Young
<1>3. CASE ApiStart
  <2>1. \A u \in Uploads : job[u] \in InFlight \cup {"none", "staged"}
                             => run'[u] = run[u]
        BY <1>3, ReconcileSparesLiveJobs DEF ApiStart
  <2> QED BY <1>3, <2>1 DEF ApiStart, TypeOK, ReaperInv, Young
<1>4. CASE WorkerStart
  <2>1. ~InlineJobs
        BY <1>4 DEF WorkerStart, ReaperInv
  <2>2. \A u \in Uploads : job[u] \in InFlight \cup {"none", "staged"}
                             => run'[u] = run[u]
        BY <1>4, <2>1, ReconcileSparesLiveJobs DEF WorkerStart
  <2> QED BY <1>4, <2>1, <2>2 DEF WorkerStart, TypeOK, ReaperInv, Young
<1>5. CASE Tick
      BY <1>5 DEF Tick, Capped, TypeOK, ReaperInv, Young, LifecycleAssumption
<1> QED BY <1>1, <1>2, <1>3, <1>4, <1>5 DEF Process

LEMMA ReaperInvariant == LifecycleAssumption /\ Timing /\ Spec => []ReaperInv
<1> SUFFICES ASSUME LifecycleAssumption, Timing
             PROVE  Spec => []ReaperInv
    OBVIOUS
<1>1. Init => ReaperInv
      BY DEF Init, ReaperInv, Young, LifecycleAssumption
<1>2. TypeOK /\ ReaperInv /\ [Next]_vars => ReaperInv'
  <2> SUFFICES ASSUME TypeOK, ReaperInv, [Next]_vars
               PROVE  ReaperInv'
      OBVIOUS
  <2>1. CASE Next
        BY <2>1, ApiKeepsReaperInv, JobKeepsReaperInv, ProcessKeepsReaperInv
        DEF Next
  <2>2. CASE UNCHANGED vars
        BY <2>2 DEF ReaperInv, Young, vars
  <2> QED BY <2>1, <2>2
<1>3. Spec => []TypeOK
      BY TypeCorrect
<1> QED BY <1>1, <1>2, <1>3, PTL DEF Spec

\* Under the timing assumption no start of any process ever fails a run whose
\* job still waits or works (the promise of reconcile_orphaned_runs).
THEOREM ReaperSparesLiveJobs ==
    LifecycleAssumption /\ Timing /\ Spec => []LiveJobNotReaped
<1>1. ReaperInv => LiveJobNotReaped
      BY DEF ReaperInv, Young, LiveJobNotReaped
<1> QED BY <1>1, ReaperInvariant, PTL

-----------------------------------------------------------------------------
(* What the status rows of a model, its run and its dashboard entry tell    *)
(* together, and what a DELETE leaves.                                      *)

Pending == {"analyzing", "optimizing"}

\* A pending model has its streaming run; a job that did not read a pending
\* model does not find one later; a DELETE is final; the artifact key is only
\* there once the job has ended, and only a model with a key is deployed.
Coupled(u) ==
    /\ model[u] \in Pending => analysis[u] /\ run[u] = "streaming"
    /\ job[u] \in {"ready", "read"} /\ seen[u] \notin Pending
          => model[u] \notin Pending
    /\ model[u] # "none" \/ del[u] # "no"
          => job[u] \notin {"none", "staged", "dropped"}
    /\ del[u] \in {"rows", "prefix", "done", "aborted"} => model[u] = "none"
    /\ model[u] = "none" => /\ run[u] = "none" /\ dash[u] = "none"
                            /\ key[u] = "none" /\ ~analysis[u]
    /\ key[u] # "none" => job[u] = "done"
    /\ model[u] = "deployed" => key[u] = "onnx"

StatusInv == \A u \in Uploads : Coupled(u)

LEMMA ApiKeepsStatusInv ==
    ASSUME TypeOK, StatusInv, NEW u \in Uploads, Api(u)
    PROVE  StatusInv'
<1> USE DEF TypeOK, StatusInv, Coupled, Pending
<1>1. CASE StageUpload(u)
      BY <1>1 DEF StageUpload
<1>2. CASE CommitRows(u)
      BY <1>2 DEF CommitRows
<1>3. CASE EnqueuePipeline(u)
      BY <1>3 DEF EnqueuePipeline
<1>4. CASE EnqueueFails(u)
      BY <1>4 DEF EnqueueFails
<1>5. CASE IngestionComplete(u)
      BY <1>5 DEF IngestionComplete
<1>6. CASE Deploy(u)
      BY <1>6 DEF Deploy
<1>7. CASE Undeploy(u)
      BY <1>7 DEF Undeploy
<1>8. CASE DeleteRequest(u)
      BY <1>8 DEF DeleteRequest
<1>9. CASE DeleteRows(u)
      BY <1>9 DEF DeleteRows
<1>10. CASE DeletePrefix(u)
      BY <1>10 DEF DeletePrefix
<1>11. CASE DeleteSource(u)
      BY <1>11 DEF DeleteSource
<1> QED BY <1>1, <1>2, <1>3, <1>4, <1>5, <1>6, <1>7, <1>8, <1>9, <1>10, <1>11
        DEF Api

LEMMA JobKeepsStatusInv ==
    ASSUME TypeOK, StatusInv, NEW u \in Uploads, PickUp(u) \/ JobStep(u)
    PROVE  StatusInv'
<1> USE DEF TypeOK, StatusInv, Coupled, Pending, Goto
<1>1. CASE PickUp(u)
      BY <1>1 DEF PickUp
<1>2. CASE FetchSource(u)
      BY <1>2 DEF FetchSource
<1>3. CASE PassCheckpoints(u)
      BY <1>3 DEF PassCheckpoints
<1>4. CASE CancelAtCheckpoint(u)
      BY <1>4 DEF CancelAtCheckpoint
<1>5. CASE PipelineError(u)
      BY <1>5 DEF PipelineError
<1>6. CASE UploadArtifact(u)
      BY <1>6 DEF UploadArtifact
<1>7. CASE UploadIngested(u)
      BY <1>7 DEF UploadIngested
<1>8. CASE CacheArchitecture(u)
      BY <1>8 DEF CacheArchitecture
<1>9. CASE CacheResults(u)
      BY <1>9 DEF CacheResults
<1>10. CASE SuccessRead(u)
      BY <1>10 DEF SuccessRead
<1>11. CASE SuccessCommit(u)
      BY <1>11 DEF SuccessCommit, EndJob, EndRun, ReleaseModel, StaleRead
<1>12. CASE LogError(u)
      BY <1>12 DEF LogError
<1>13. CASE FailureRead(u)
      BY <1>13 DEF FailureRead
<1>14. CASE FailureCommit(u)
      BY <1>14 DEF FailureCommit, EndJob, EndRun, ReleaseModel, StaleRead
<1>15. CASE FailureStale(u)
      BY <1>15 DEF FailureStale, EndJob, StaleRead
<1>16. CASE FailureAborts(u)
      BY <1>16 DEF FailureAborts
<1> QED BY <1>1, <1>2, <1>3, <1>4, <1>5, <1>6, <1>7, <1>8, <1>9, <1>10, <1>11,
           <1>12, <1>13, <1>14, <1>15, <1>16
        DEF JobStep

LEMMA ProcessKeepsStatusInv ==
    ASSUME TypeOK, StatusInv, Process \/ Tick
    PROVE  StatusInv'
<1> USE DEF TypeOK, StatusInv, Coupled, Pending
<1>1. CASE ApiCrash    BY <1>1 DEF ApiCrash, Killed
<1>2. CASE WorkerCrash BY <1>2 DEF WorkerCrash, Killed
<1>3. CASE ApiStart    BY <1>3 DEF ApiStart, ReconcileOrphanedRuns
<1>4. CASE WorkerStart BY <1>4 DEF WorkerStart, ReconcileOrphanedRuns
<1>5. CASE Tick        BY <1>5 DEF Tick
<1> QED BY <1>1, <1>2, <1>3, <1>4, <1>5 DEF Process

LEMMA StatusInvariant == LifecycleAssumption /\ Spec => []StatusInv
<1> SUFFICES ASSUME LifecycleAssumption
             PROVE  Spec => []StatusInv
    OBVIOUS
<1>1. Init => StatusInv
      BY DEF Init, StatusInv, Coupled, Pending
<1>2. TypeOK /\ StatusInv /\ [Next]_vars => StatusInv'
  <2> SUFFICES ASSUME TypeOK, StatusInv, [Next]_vars
               PROVE  StatusInv'
      OBVIOUS
  <2>1. CASE Next
        BY <2>1, ApiKeepsStatusInv, JobKeepsStatusInv, ProcessKeepsStatusInv
        DEF Next
  <2>2. CASE UNCHANGED vars
        BY <2>2 DEF StatusInv, Coupled, vars
  <2> QED BY <2>1, <2>2
<1>3. Spec => []TypeOK
      BY TypeCorrect
<1> QED BY <1>1, <1>2, <1>3, PTL DEF Spec

\* A model that reads "analyzing" or "optimizing" always has a streaming run,
\* whatever /complete, the job, the reaper and DELETE do to one another.
THEOREM PendingModelHasItsRun ==
    LifecycleAssumption /\ Spec => []ModelFollowsRun
<1>1. StatusInv => ModelFollowsRun
      BY DEF StatusInv, Coupled, Pending, ModelFollowsRun
<1> QED BY <1>1, StatusInvariant, PTL

-----------------------------------------------------------------------------
(* What single steps can never do.                                          *)

LEMMA DeployedStaysOutOfTheJob ==
    ASSUME TypeOK, StatusInv, Next
    PROVE  \A u \in Uploads : model[u] = "deployed" => model'[u] # "failed"
<1> USE DEF TypeOK, StatusInv, Coupled, Pending
<1>1. ASSUME NEW v \in Uploads, Api(v)
      PROVE  \A u \in Uploads : model[u] = "deployed" => model'[u] # "failed"
  <2> USE <1>1
  <2>1. CASE StageUpload(v)
        BY <2>1 DEF StageUpload
  <2>2. CASE CommitRows(v)
        BY <2>2 DEF CommitRows
  <2>3. CASE EnqueuePipeline(v)
        BY <2>3 DEF EnqueuePipeline
  <2>4. CASE EnqueueFails(v)
        BY <2>4 DEF EnqueueFails
  <2>5. CASE IngestionComplete(v)
        BY <2>5 DEF IngestionComplete
  <2>6. CASE Deploy(v)
        BY <2>6 DEF Deploy
  <2>7. CASE Undeploy(v)
        BY <2>7 DEF Undeploy
  <2>8. CASE DeleteRequest(v)
        BY <2>8 DEF DeleteRequest
  <2>9. CASE DeleteRows(v)
        BY <2>9 DEF DeleteRows
  <2>10. CASE DeletePrefix(v)
        BY <2>10 DEF DeletePrefix
  <2>11. CASE DeleteSource(v)
        BY <2>11 DEF DeleteSource
  <2> QED BY <2>1, <2>2, <2>3, <2>4, <2>5, <2>6, <2>7, <2>8, <2>9, <2>10, <2>11 DEF Api
<1>2. ASSUME NEW v \in Uploads, PickUp(v) \/ JobStep(v)
      PROVE  \A u \in Uploads : model[u] = "deployed" => model'[u] # "failed"
  <2> USE <1>2 DEF Goto
  <2>1. CASE PickUp(v)
        BY <2>1 DEF PickUp
  <2>2. CASE FetchSource(v)
        BY <2>2 DEF FetchSource
  <2>3. CASE PassCheckpoints(v)
        BY <2>3 DEF PassCheckpoints
  <2>4. CASE CancelAtCheckpoint(v)
        BY <2>4 DEF CancelAtCheckpoint
  <2>5. CASE PipelineError(v)
        BY <2>5 DEF PipelineError
  <2>6. CASE UploadArtifact(v)
        BY <2>6 DEF UploadArtifact
  <2>7. CASE UploadIngested(v)
        BY <2>7 DEF UploadIngested
  <2>8. CASE CacheArchitecture(v)
        BY <2>8 DEF CacheArchitecture
  <2>9. CASE CacheResults(v)
        BY <2>9 DEF CacheResults
  <2>10. CASE SuccessRead(v)
        BY <2>10 DEF SuccessRead
  <2>11. CASE SuccessCommit(v)
        BY <2>11 DEF SuccessCommit, EndJob, EndRun, ReleaseModel, StaleRead
  <2>12. CASE LogError(v)
        BY <2>12 DEF LogError
  <2>13. CASE FailureRead(v)
        BY <2>13 DEF FailureRead
  <2>14. CASE FailureCommit(v)
        BY <2>14 DEF FailureCommit, EndJob, EndRun, ReleaseModel, StaleRead
  <2>15. CASE FailureStale(v)
        BY <2>15 DEF FailureStale, EndJob, StaleRead
  <2>16. CASE FailureAborts(v)
        BY <2>16 DEF FailureAborts
  <2> QED BY <2>1, <2>2, <2>3, <2>4, <2>5, <2>6, <2>7, <2>8, <2>9, <2>10, <2>11,
             <2>12, <2>13, <2>14, <2>15, <2>16 DEF JobStep
<1>3. CASE ApiCrash
      BY <1>3 DEF ApiCrash, Killed
<1>4. CASE WorkerCrash
      BY <1>4 DEF WorkerCrash, Killed
<1>5. CASE ApiStart
      BY <1>5 DEF ApiStart, ReconcileOrphanedRuns
<1>6. CASE WorkerStart
      BY <1>6 DEF WorkerStart, ReconcileOrphanedRuns
<1>7. CASE Tick
      BY <1>7 DEF Tick
<1> QED BY <1>1, <1>2, <1>3, <1>4, <1>5, <1>6, <1>7 DEF Next, Process

\* The guard of _on_failure can never be needed: a job that may still fail
\* never works on a deployed model.
THEOREM DeployedModelNeverFails ==
    LifecycleAssumption /\ Spec => DeployedNeverFails
<1> SUFFICES ASSUME LifecycleAssumption
             PROVE  Spec => DeployedNeverFails
    OBVIOUS
<1>1. TypeOK /\ StatusInv /\ [Next]_vars
        => [\A u \in Uploads : model[u] = "deployed" => model'[u] # "failed"]_vars
      BY DeployedStaysOutOfTheJob
<1>2. Spec => []TypeOK /\ []StatusInv
      BY TypeCorrect, StatusInvariant, PTL
<1> QED BY <1>1, <1>2, PTL DEF Spec, DeployedNeverFails

Gone(u) == del[u] \in {"rows", "prefix", "done", "aborted"}

LEMMA GoneStaysGone ==
    ASSUME TypeOK, Next
    PROVE  \A u \in Uploads : Gone(u) => Gone(u)'
<1> USE DEF TypeOK, Gone
<1>1. ASSUME NEW v \in Uploads, Api(v)
      PROVE  \A u \in Uploads : Gone(u) => Gone(u)'
  <2> USE <1>1
  <2>1. CASE StageUpload(v)
        BY <2>1 DEF StageUpload
  <2>2. CASE CommitRows(v)
        BY <2>2 DEF CommitRows
  <2>3. CASE EnqueuePipeline(v)
        BY <2>3 DEF EnqueuePipeline
  <2>4. CASE EnqueueFails(v)
        BY <2>4 DEF EnqueueFails
  <2>5. CASE IngestionComplete(v)
        BY <2>5 DEF IngestionComplete
  <2>6. CASE Deploy(v)
        BY <2>6 DEF Deploy
  <2>7. CASE Undeploy(v)
        BY <2>7 DEF Undeploy
  <2>8. CASE DeleteRequest(v)
        BY <2>8 DEF DeleteRequest
  <2>9. CASE DeleteRows(v)
        BY <2>9 DEF DeleteRows
  <2>10. CASE DeletePrefix(v)
        BY <2>10 DEF DeletePrefix
  <2>11. CASE DeleteSource(v)
        BY <2>11 DEF DeleteSource
  <2> QED BY <2>1, <2>2, <2>3, <2>4, <2>5, <2>6, <2>7, <2>8, <2>9, <2>10, <2>11 DEF Api
<1>2. ASSUME NEW v \in Uploads, PickUp(v) \/ JobStep(v)
      PROVE  \A u \in Uploads : Gone(u) => Gone(u)'
  <2> USE <1>2 DEF Goto
  <2>1. CASE PickUp(v)
        BY <2>1 DEF PickUp
  <2>2. CASE FetchSource(v)
        BY <2>2 DEF FetchSource
  <2>3. CASE PassCheckpoints(v)
        BY <2>3 DEF PassCheckpoints
  <2>4. CASE CancelAtCheckpoint(v)
        BY <2>4 DEF CancelAtCheckpoint
  <2>5. CASE PipelineError(v)
        BY <2>5 DEF PipelineError
  <2>6. CASE UploadArtifact(v)
        BY <2>6 DEF UploadArtifact
  <2>7. CASE UploadIngested(v)
        BY <2>7 DEF UploadIngested
  <2>8. CASE CacheArchitecture(v)
        BY <2>8 DEF CacheArchitecture
  <2>9. CASE CacheResults(v)
        BY <2>9 DEF CacheResults
  <2>10. CASE SuccessRead(v)
        BY <2>10 DEF SuccessRead
  <2>11. CASE SuccessCommit(v)
        BY <2>11 DEF SuccessCommit, EndJob, EndRun, ReleaseModel, StaleRead
  <2>12. CASE LogError(v)
        BY <2>12 DEF LogError
  <2>13. CASE FailureRead(v)
        BY <2>13 DEF FailureRead
  <2>14. CASE FailureCommit(v)
        BY <2>14 DEF FailureCommit, EndJob, EndRun, ReleaseModel, StaleRead
  <2>15. CASE FailureStale(v)
        BY <2>15 DEF FailureStale, EndJob, StaleRead
  <2>16. CASE FailureAborts(v)
        BY <2>16 DEF FailureAborts
  <2> QED BY <2>1, <2>2, <2>3, <2>4, <2>5, <2>6, <2>7, <2>8, <2>9, <2>10, <2>11,
             <2>12, <2>13, <2>14, <2>15, <2>16 DEF JobStep
<1>3. CASE ApiCrash
      BY <1>3 DEF ApiCrash, Killed
<1>4. CASE WorkerCrash
      BY <1>4 DEF WorkerCrash, Killed
<1>5. CASE ApiStart
      BY <1>5 DEF ApiStart, ReconcileOrphanedRuns
<1>6. CASE WorkerStart
      BY <1>6 DEF WorkerStart, ReconcileOrphanedRuns
<1>7. CASE Tick
      BY <1>7 DEF Tick
<1> QED BY <1>1, <1>2, <1>3, <1>4, <1>5, <1>6, <1>7 DEF Next, Process

\* Once a DELETE has committed, no step brings back the model, its run or its
\* dashboard row, however late the cancelled job commits.
THEOREM DeletedModelStaysDeleted ==
    LifecycleAssumption /\ Spec => DeletedStaysDeleted
<1> SUFFICES ASSUME LifecycleAssumption
             PROVE  Spec => DeletedStaysDeleted
    OBVIOUS
<1> DEFINE NoRows == \A u \in Uploads :
             del[u] \in {"rows", "prefix", "done", "aborted"}
               => model'[u] = "none" /\ run'[u] = "none" /\ dash'[u] = "none"
<1>1. TypeOK /\ StatusInv' /\ [Next]_vars => [NoRows]_vars
      BY GoneStaysGone DEF Gone, StatusInv, Coupled
<1>2. Spec => []TypeOK /\ []StatusInv
      BY TypeCorrect, StatusInvariant, PTL
<1> QED BY <1>1, <1>2, PTL DEF Spec, DeletedStaysDeleted

-----------------------------------------------------------------------------
(* What the dashboard tells of a run.                                       *)

LEMMA ApiKeepsDashboard ==
    ASSUME TypeOK, DashboardAgrees, NEW u \in Uploads, Api(u)
    PROVE  DashboardAgrees'
<1> USE DEF TypeOK, DashboardAgrees
<1>1. CASE StageUpload(u)
      BY <1>1 DEF StageUpload
<1>2. CASE CommitRows(u)
      BY <1>2 DEF CommitRows
<1>3. CASE EnqueuePipeline(u)
      BY <1>3 DEF EnqueuePipeline
<1>4. CASE EnqueueFails(u)
      BY <1>4 DEF EnqueueFails
<1>5. CASE IngestionComplete(u)
      BY <1>5 DEF IngestionComplete
<1>6. CASE Deploy(u)
      BY <1>6 DEF Deploy
<1>7. CASE Undeploy(u)
      BY <1>7 DEF Undeploy
<1>8. CASE DeleteRequest(u)
      BY <1>8 DEF DeleteRequest
<1>9. CASE DeleteRows(u)
      BY <1>9 DEF DeleteRows
<1>10. CASE DeletePrefix(u)
      BY <1>10 DEF DeletePrefix
<1>11. CASE DeleteSource(u)
      BY <1>11 DEF DeleteSource
<1> QED BY <1>1, <1>2, <1>3, <1>4, <1>5, <1>6, <1>7, <1>8, <1>9, <1>10, <1>11 DEF Api

LEMMA JobKeepsDashboard ==
    ASSUME TypeOK, DashboardAgrees, NEW u \in Uploads, PickUp(u) \/ JobStep(u)
    PROVE  DashboardAgrees'
<1> USE DEF TypeOK, DashboardAgrees, Goto
<1>1. CASE PickUp(u)
      BY <1>1 DEF PickUp
<1>2. CASE FetchSource(u)
      BY <1>2 DEF FetchSource
<1>3. CASE PassCheckpoints(u)
      BY <1>3 DEF PassCheckpoints
<1>4. CASE CancelAtCheckpoint(u)
      BY <1>4 DEF CancelAtCheckpoint
<1>5. CASE PipelineError(u)
      BY <1>5 DEF PipelineError
<1>6. CASE UploadArtifact(u)
      BY <1>6 DEF UploadArtifact
<1>7. CASE UploadIngested(u)
      BY <1>7 DEF UploadIngested
<1>8. CASE CacheArchitecture(u)
      BY <1>8 DEF CacheArchitecture
<1>9. CASE CacheResults(u)
      BY <1>9 DEF CacheResults
<1>10. CASE SuccessRead(u)
      BY <1>10 DEF SuccessRead
<1>11. CASE SuccessCommit(u)
      BY <1>11 DEF SuccessCommit, EndJob, EndRun
<1>12. CASE LogError(u)
      BY <1>12 DEF LogError
<1>13. CASE FailureRead(u)
      BY <1>13 DEF FailureRead
<1>14. CASE FailureCommit(u)
      BY <1>14 DEF FailureCommit, EndJob, EndRun
<1>15. CASE FailureStale(u)
      BY <1>15 DEF FailureStale, EndJob
<1>16. CASE FailureAborts(u)
      BY <1>16 DEF FailureAborts
<1> QED BY <1>1, <1>2, <1>3, <1>4, <1>5, <1>6, <1>7, <1>8, <1>9, <1>10, <1>11,
           <1>12, <1>13, <1>14, <1>15, <1>16 DEF JobStep

\* The reaper fails runs that still stream, whose dashboard row has no ending yet.
LEMMA ProcessKeepsDashboard ==
    ASSUME TypeOK, DashboardAgrees, Process \/ Tick
    PROVE  DashboardAgrees'
<1> USE DEF TypeOK, DashboardAgrees
<1>1. CASE ApiCrash
      BY <1>1 DEF ApiCrash
<1>2. CASE WorkerCrash
      BY <1>2 DEF WorkerCrash
<1>3. CASE ApiStart
      BY <1>3 DEF ApiStart, ReconcileOrphanedRuns
<1>4. CASE WorkerStart
      BY <1>4 DEF WorkerStart, ReconcileOrphanedRuns
<1>5. CASE Tick
      BY <1>5 DEF Tick
<1> QED BY <1>1, <1>2, <1>3, <1>4, <1>5 DEF Process

\* A run that completed reads done on the dashboard, and one that failed there has
\* failed: both rows change in the commits of _on_success and _on_failure only, and
\* neither the reaper nor a late job takes them apart.
THEOREM DashboardTellsTheEnding ==
    LifecycleAssumption /\ Spec => []DashboardAgrees
<1> SUFFICES ASSUME LifecycleAssumption
             PROVE  Spec => []DashboardAgrees
    OBVIOUS
<1>1. Init => DashboardAgrees
      BY DEF Init, DashboardAgrees
<1>2. TypeOK /\ DashboardAgrees /\ [Next]_vars => DashboardAgrees'
  <2> SUFFICES ASSUME TypeOK, DashboardAgrees, [Next]_vars
               PROVE  DashboardAgrees'
      OBVIOUS
  <2>1. CASE Next
        BY <2>1, ApiKeepsDashboard, JobKeepsDashboard, ProcessKeepsDashboard DEF Next
  <2>2. CASE UNCHANGED vars
        BY <2>2 DEF DashboardAgrees, vars
  <2> QED BY <2>1, <2>2
<1>3. Spec => []TypeOK
      BY TypeCorrect
<1> QED BY <1>1, <1>2, <1>3, PTL DEF Spec

-----------------------------------------------------------------------------
(* A cancelled job.                                                         *)

Cancelled(u) == u \in cancel /\ job[u] \in {"queued", "fetch", "work"}

\* A cancelled job keeps its flag up to a checkpoint, and then only fails or ends.
Doomed(u) == Cancelled(u) \/ job[u] \in Failing \cup {"lost", "done"}

LEMMA DoomedStaysDoomed ==
    ASSUME TypeOK, NEW u \in Uploads, Doomed(u), [Next]_vars
    PROVE  Doomed(u)'
<1> USE DEF TypeOK, Doomed, Cancelled
<1>1. ASSUME NEW v \in Uploads, Api(v)
      PROVE  Doomed(u)'
  <2> USE <1>1
  <2>1. CASE StageUpload(v)
        BY <2>1 DEF StageUpload
  <2>2. CASE CommitRows(v)
        BY <2>2 DEF CommitRows
  <2>3. CASE EnqueuePipeline(v)
        BY <2>3 DEF EnqueuePipeline
  <2>4. CASE EnqueueFails(v)
        BY <2>4 DEF EnqueueFails
  <2>5. CASE IngestionComplete(v)
        BY <2>5 DEF IngestionComplete
  <2>6. CASE Deploy(v)
        BY <2>6 DEF Deploy
  <2>7. CASE Undeploy(v)
        BY <2>7 DEF Undeploy
  <2>8. CASE DeleteRequest(v)
        BY <2>8 DEF DeleteRequest
  <2>9. CASE DeleteRows(v)
        BY <2>9 DEF DeleteRows
  <2>10. CASE DeletePrefix(v)
        BY <2>10 DEF DeletePrefix
  <2>11. CASE DeleteSource(v)
        BY <2>11 DEF DeleteSource
  <2> QED BY <2>1, <2>2, <2>3, <2>4, <2>5, <2>6, <2>7, <2>8, <2>9, <2>10, <2>11 DEF Api
<1>2. ASSUME NEW v \in Uploads, PickUp(v) \/ JobStep(v)
      PROVE  Doomed(u)'
  <2> USE <1>2 DEF Goto
  <2>1. CASE PickUp(v)
        BY <2>1 DEF PickUp
  <2>2. CASE FetchSource(v)
        BY <2>2 DEF FetchSource
  <2>3. CASE PassCheckpoints(v)
        BY <2>3 DEF PassCheckpoints, ShouldCancel
  <2>4. CASE CancelAtCheckpoint(v)
        BY <2>4 DEF CancelAtCheckpoint
  <2>5. CASE PipelineError(v)
        BY <2>5 DEF PipelineError
  <2>6. CASE UploadArtifact(v)
        BY <2>6 DEF UploadArtifact
  <2>7. CASE UploadIngested(v)
        BY <2>7 DEF UploadIngested
  <2>8. CASE CacheArchitecture(v)
        BY <2>8 DEF CacheArchitecture
  <2>9. CASE CacheResults(v)
        BY <2>9 DEF CacheResults
  <2>10. CASE SuccessRead(v)
        BY <2>10 DEF SuccessRead
  <2>11. CASE SuccessCommit(v)
        BY <2>11 DEF SuccessCommit, EndJob
  <2>12. CASE LogError(v)
        BY <2>12 DEF LogError
  <2>13. CASE FailureRead(v)
        BY <2>13 DEF FailureRead
  <2>14. CASE FailureCommit(v)
        BY <2>14 DEF FailureCommit, EndJob
  <2>15. CASE FailureStale(v)
        BY <2>15 DEF FailureStale, EndJob
  <2>16. CASE FailureAborts(v)
        BY <2>16 DEF FailureAborts
  <2> QED BY <2>1, <2>2, <2>3, <2>4, <2>5, <2>6, <2>7, <2>8, <2>9, <2>10, <2>11,
           <2>12, <2>13, <2>14, <2>15, <2>16 DEF JobStep
<1>3. CASE ApiCrash
      BY <1>3 DEF ApiCrash, Killed
<1>4. CASE WorkerCrash
      BY <1>4 DEF WorkerCrash, Killed
<1>5. CASE ApiStart
      BY <1>5 DEF ApiStart
<1>6. CASE WorkerStart
      BY <1>6 DEF WorkerStart
<1>7. CASE Tick
      BY <1>7 DEF Tick
<1>8. CASE UNCHANGED vars
      BY <1>8 DEF vars
<1> QED BY <1>1, <1>2, <1>3, <1>4, <1>5, <1>6, <1>7, <1>8 DEF Next, Process

\* A job that is cancelled before its last checkpoint never publishes, whatever
\* crashes, restarts and requests come between (make_should_cancel, execute_pipeline).
THEOREM CancelledNeverPublishes ==
    LifecycleAssumption /\ Spec => CancelStopsJob
<1> SUFFICES ASSUME LifecycleAssumption
             PROVE  Spec => CancelStopsJob
    OBVIOUS
<1> DEFINE Silent(u) == job[u] \notin {"last"} \cup Publishing
<1>1. ASSUME NEW u \in Uploads
      PROVE  Spec => [](Cancelled(u) => []Silent(u))
  <2>1. Cancelled(u) => Doomed(u)
        BY DEF Doomed
  <2>2. Doomed(u) => Silent(u)
        BY DEF Doomed, Cancelled
  <2>3. TypeOK /\ Doomed(u) /\ [Next]_vars => Doomed(u)'
        BY DoomedStaysDoomed
  <2>4. Spec => []TypeOK
        BY TypeCorrect
  <2> HIDE DEF Silent
  <2> QED BY <2>1, <2>2, <2>3, <2>4, PTL DEF Spec
<1> QED BY <1>1 DEF CancelStopsJob, Cancelled
-----------------------------------------------------------------------------
(* What a model row promises about the object store and the result cache,   *)
(* and that Lifecycle implements ModelStatus.                               *)

USE DEF Pending

\* The part of TypeOK these proofs need.
FunctionTypes ==
    /\ job \in [Uploads -> Jobs]
    /\ model \in [Uploads -> Statuses]
    /\ key \in [Uploads -> Artifacts \cup {"none"}]
    /\ run \in [Uploads -> RunStatuses]
    /\ out \in [Uploads -> Artifacts \cup {"none"}]
    /\ del \in [Uploads -> Deletes]

-----------------------------------------------------------------------------
(* The object store.                                                        *)

\* While the model exists, the artifact its job uploaded is still there.
Stored(u) ==
    /\ key[u] # "none" => <<u, key[u]>> \in store
    /\ model[u] # "none" /\ job[u] \in Publishing /\ out[u] # "none"
          => <<u, out[u]>> \in store

StoredInv == \A u \in Uploads : Stored(u)

LEMMA ApiKeepsStoredInv ==
    ASSUME FunctionTypes, StatusInv, StoredInv, NEW u \in Uploads, Api(u)
    PROVE  StoredInv'
<1> USE DEF FunctionTypes, StatusInv, Coupled, StoredInv, Stored
<1>1. CASE StageUpload(u)
      BY <1>1 DEF StageUpload
<1>2. CASE CommitRows(u)
      BY <1>2 DEF CommitRows
<1>3. CASE EnqueuePipeline(u)
      BY <1>3 DEF EnqueuePipeline
<1>4. CASE EnqueueFails(u)
      BY <1>4 DEF EnqueueFails
<1>5. CASE IngestionComplete(u)
      BY <1>5 DEF IngestionComplete
<1>6. CASE Deploy(u)
      BY <1>6 DEF Deploy
<1>7. CASE Undeploy(u)
      BY <1>7 DEF Undeploy
<1>8. CASE DeleteRequest(u)
      BY <1>8 DEF DeleteRequest
<1>9. CASE DeleteRows(u)
      BY <1>9 DEF DeleteRows
<1>10. CASE DeletePrefix(u)
      BY <1>10 DEF DeletePrefix
<1>11. CASE DeleteSource(u)
      BY <1>11 DEF DeleteSource
<1> QED BY <1>1, <1>2, <1>3, <1>4, <1>5, <1>6, <1>7, <1>8, <1>9, <1>10, <1>11
        DEF Api

LEMMA JobKeepsStoredInv ==
    ASSUME FunctionTypes, StatusInv, StoredInv, NEW u \in Uploads, PickUp(u) \/ JobStep(u)
    PROVE  StoredInv'
<1> USE DEF FunctionTypes, StatusInv, Coupled, StoredInv, Stored, Goto
<1>1. CASE PickUp(u)
      BY <1>1 DEF PickUp
<1>2. CASE FetchSource(u)
      BY <1>2 DEF FetchSource
<1>3. CASE PassCheckpoints(u)
      BY <1>3 DEF PassCheckpoints
<1>4. CASE CancelAtCheckpoint(u)
      BY <1>4 DEF CancelAtCheckpoint
<1>5. CASE PipelineError(u)
      BY <1>5 DEF PipelineError
<1>6. CASE UploadArtifact(u)
      BY <1>6 DEF UploadArtifact
<1>7. CASE UploadIngested(u)
      BY <1>7 DEF UploadIngested
<1>8. CASE CacheArchitecture(u)
      BY <1>8 DEF CacheArchitecture
<1>9. CASE CacheResults(u)
      BY <1>9 DEF CacheResults
<1>10. CASE SuccessRead(u)
      BY <1>10 DEF SuccessRead
<1>11. CASE SuccessCommit(u)
      BY <1>11 DEF SuccessCommit, EndJob, EndRun, ReleaseModel, StaleRead
<1>12. CASE LogError(u)
      BY <1>12 DEF LogError
<1>13. CASE FailureRead(u)
      BY <1>13 DEF FailureRead
<1>14. CASE FailureCommit(u)
      BY <1>14 DEF FailureCommit, EndJob, EndRun, ReleaseModel, StaleRead
<1>15. CASE FailureStale(u)
      BY <1>15 DEF FailureStale, EndJob, StaleRead
<1>16. CASE FailureAborts(u)
      BY <1>16 DEF FailureAborts
<1> QED BY <1>1, <1>2, <1>3, <1>4, <1>5, <1>6, <1>7, <1>8, <1>9, <1>10, <1>11,
           <1>12, <1>13, <1>14, <1>15, <1>16
        DEF JobStep

LEMMA ProcessKeepsStoredInv ==
    ASSUME FunctionTypes, StatusInv, StoredInv, Process \/ Tick
    PROVE  StoredInv'
<1> USE DEF FunctionTypes, StatusInv, Coupled, StoredInv, Stored
<1>1. CASE ApiCrash    BY <1>1 DEF ApiCrash, Killed
<1>2. CASE WorkerCrash BY <1>2 DEF WorkerCrash, Killed
<1>3. CASE ApiStart    BY <1>3 DEF ApiStart, ReconcileOrphanedRuns
<1>4. CASE WorkerStart BY <1>4 DEF WorkerStart, ReconcileOrphanedRuns
<1>5. CASE Tick        BY <1>5 DEF Tick
<1> QED BY <1>1, <1>2, <1>3, <1>4, <1>5 DEF Process

LEMMA StoredInvariant == LifecycleAssumption /\ Spec => []StoredInv
<1> SUFFICES ASSUME LifecycleAssumption
             PROVE  Spec => []StoredInv
    OBVIOUS
<1>1. Init => StoredInv
      BY DEF Init, StoredInv, Stored
<1>2. TypeOK /\ StatusInv /\ StoredInv /\ [Next]_vars => StoredInv'
  <2> SUFFICES ASSUME TypeOK, StatusInv, StoredInv, [Next]_vars
               PROVE  StoredInv'
      OBVIOUS
  <2>1. FunctionTypes
        BY DEF TypeOK, FunctionTypes
  <2>2. CASE Next
        BY <2>1, <2>2, ApiKeepsStoredInv, JobKeepsStoredInv, ProcessKeepsStoredInv DEF Next
  <2>3. CASE UNCHANGED vars
        BY <2>3 DEF StoredInv, Stored, vars
  <2> QED BY <2>2, <2>3
<1>3. Spec => []TypeOK /\ []StatusInv
      BY TypeCorrect, StatusInvariant, PTL
<1> QED BY <1>1, <1>2, <1>3, PTL DEF Spec

\* A download never finds a dangling key.
THEOREM ArtifactKeysPointToObjects ==
    LifecycleAssumption /\ Spec => []NoDanglingArtifact
<1>1. StoredInv => NoDanglingArtifact
      BY DEF StoredInv, Stored, NoDanglingArtifact
<1> QED BY <1>1, StoredInvariant, PTL

-----------------------------------------------------------------------------
(* The result cache.                                                        *)

\* While the model exists, the results its job has committed are still there.
Cached(u) ==
    /\ model[u] # "none" /\ job[u] \in {"cached", "complete", "ready"}
          => <<u, "architecture">> \in rows
    /\ model[u] # "none" /\ job[u] \in {"complete", "ready"} /\ out[u] = "onnx"
          => <<u, "results">> \in rows
    /\ model[u] \in {"draft", "deployed"} \/ key[u] # "none"
          => <<u, "architecture">> \in rows
    /\ key[u] = "onnx" => <<u, "results">> \in rows

CachedInv == \A u \in Uploads : Cached(u)

\* A step keeps the results of an upload if it drops no row, makes no model
\* ready that was not, and the job has not just claimed to have cached something.
LEMMA ColumnsKeptKeepCachedInv ==
    ASSUME CachedInv, rows \subseteq rows',
           \A v \in Uploads :
               /\ key'[v] = key[v]
               /\ model'[v] \in {"draft", "deployed"}
                     => model[v] \in {"draft", "deployed"} \/ key[v] # "none"
               /\ \/ job'[v] \notin {"cached", "complete", "ready"}
                  \/ /\ job'[v] = job[v] /\ out'[v] = out[v]
                     /\ model'[v] # "none" => model[v] # "none"
    PROVE  CachedInv'
<1> SUFFICES ASSUME NEW v \in Uploads
             PROVE  Cached(v)'
    BY DEF CachedInv
<1>1. Cached(v)
      BY DEF CachedInv
<1>2. \A k \in RowKinds : <<v, k>> \in rows => <<v, k>> \in rows'
      OBVIOUS
<1> QED BY <1>1, <1>2 DEF Cached

LEMMA ApiKeepsCachedInv ==
    ASSUME FunctionTypes, StatusInv, CachedInv, NEW u \in Uploads, Api(u)
    PROVE  CachedInv'
<1> USE DEF FunctionTypes
<1>1. CASE StageUpload(u)
      BY <1>1, ColumnsKeptKeepCachedInv DEF StageUpload
<1>2. CASE CommitRows(u)
      BY <1>2, ColumnsKeptKeepCachedInv DEF CommitRows
<1>3. CASE EnqueuePipeline(u)
      BY <1>3, ColumnsKeptKeepCachedInv DEF EnqueuePipeline
<1>4. CASE EnqueueFails(u)
      BY <1>4, ColumnsKeptKeepCachedInv DEF EnqueueFails
<1>5. CASE IngestionComplete(u)
      BY <1>5, ColumnsKeptKeepCachedInv DEF IngestionComplete, StatusInv, Coupled
<1>6. CASE Deploy(u)
      BY <1>6, ColumnsKeptKeepCachedInv DEF Deploy
<1>7. CASE Undeploy(u)
      BY <1>7, ColumnsKeptKeepCachedInv DEF Undeploy
<1>8. CASE DeleteRequest(u)
      BY <1>8, ColumnsKeptKeepCachedInv DEF DeleteRequest
<1>9. CASE DeleteRows(u)
  <2> SUFFICES ASSUME NEW v \in Uploads
               PROVE  Cached(v)'
      BY DEF CachedInv
  <2>1. CASE v = u
    <3>1. model'[v] = "none" /\ key'[v] = "none"
          BY <1>9, <2>1 DEF DeleteRows
    <3> QED BY <3>1 DEF Cached
  <2>2. CASE v # u
    <3>1. \A k \in RowKinds : <<v, k>> \in rows => <<v, k>> \in rows'
          BY <1>9, <2>2 DEF DeleteRows
    <3>2. job'[v] = job[v] /\ model'[v] = model[v] /\ key'[v] = key[v]
          /\ out'[v] = out[v]
          BY <1>9, <2>2 DEF DeleteRows
    <3>3. Cached(v)
          BY DEF CachedInv
    <3> QED BY <3>1, <3>2, <3>3 DEF Cached
  <2> QED BY <2>1, <2>2
<1>10. CASE DeletePrefix(u)
      BY <1>10, ColumnsKeptKeepCachedInv DEF DeletePrefix
<1>11. CASE DeleteSource(u)
      BY <1>11, ColumnsKeptKeepCachedInv DEF DeleteSource
<1> QED BY <1>1, <1>2, <1>3, <1>4, <1>5, <1>6, <1>7, <1>8, <1>9, <1>10, <1>11
        DEF Api

LEMMA JobKeepsCachedInv ==
    ASSUME FunctionTypes, StatusInv, CachedInv, NEW u \in Uploads, PickUp(u) \/ JobStep(u)
    PROVE  CachedInv'
<1> USE DEF FunctionTypes, Goto
<1>1. CASE PickUp(u)
      BY <1>1, ColumnsKeptKeepCachedInv DEF PickUp
<1>2. CASE FetchSource(u)
      BY <1>2, ColumnsKeptKeepCachedInv DEF FetchSource
<1>3. CASE PassCheckpoints(u)
      BY <1>3, ColumnsKeptKeepCachedInv DEF PassCheckpoints
<1>4. CASE CancelAtCheckpoint(u)
      BY <1>4, ColumnsKeptKeepCachedInv DEF CancelAtCheckpoint
<1>5. CASE PipelineError(u)
      BY <1>5, ColumnsKeptKeepCachedInv DEF PipelineError
<1>6. CASE UploadArtifact(u)
      BY <1>6, ColumnsKeptKeepCachedInv DEF UploadArtifact
<1>7. CASE UploadIngested(u)
      BY <1>7, ColumnsKeptKeepCachedInv DEF UploadIngested
<1>8. CASE CacheArchitecture(u)
      BY <1>8, ZenonT(60) DEF CacheArchitecture, CachedInv, Cached
<1>9. CASE CacheResults(u)
      BY <1>9, ZenonT(60) DEF CacheResults, CachedInv, Cached
<1>10. CASE SuccessRead(u)
      BY <1>10, ZenonT(60) DEF SuccessRead, CachedInv, Cached
<1>11. CASE SuccessCommit(u)
  <2>1. rows \subseteq rows' /\ job[u] = "ready" /\ ~StaleRead(u)
        BY <1>11 DEF SuccessCommit
  <2>2. /\ job'[u] = "done"
        /\ \A v \in Uploads \ {u} : job'[v] = job[v] /\ out'[v] = out[v]
        BY <1>11 DEF SuccessCommit, EndJob
  <2>3. \A v \in Uploads \ {u} : model'[v] = model[v] /\ key'[v] = key[v]
    <3>1. CASE seen[u] = "none"
          BY <1>11, <3>1 DEF SuccessCommit
    <3>2. CASE seen[u] # "none"
          BY <1>11, <3>2 DEF SuccessCommit, ReleaseModel
    <3> QED BY <3>1, <3>2
  <2>4. Cached(u)'
    <3>1. CASE seen[u] = "none"
      <4>1. model'[u] = model[u] /\ key'[u] = key[u]
            BY <1>11, <3>1 DEF SuccessCommit
      <4> QED BY <2>1, <2>2, <4>1 DEF CachedInv, Cached
    <3>2. CASE seen[u] # "none"
      <4>1. model[u] # "none"
            BY <2>1, <3>2 DEF StaleRead
      <4>2. key'[u] \in {"none", out[u]}
            BY <1>11, <2>1, <3>2, <4>1 DEF SuccessCommit, StatusInv, Coupled
      <4>3. <<u, "architecture">> \in rows /\ (out[u] = "onnx" => <<u, "results">> \in rows)
            BY <2>1, <4>1 DEF CachedInv, Cached
      <4> QED BY <2>1, <2>2, <4>2, <4>3 DEF CachedInv, Cached
    <3> QED BY <3>1, <3>2
  <2>5. ASSUME NEW v \in Uploads \ {u}
        PROVE  Cached(v)'
    <3>1. Cached(v)
          BY DEF CachedInv
    <3> QED BY <3>1, <2>1, <2>2, <2>3 DEF Cached
  <2> QED BY <2>4, <2>5 DEF CachedInv
<1>12. CASE LogError(u)
      BY <1>12, ColumnsKeptKeepCachedInv DEF LogError
<1>13. CASE FailureRead(u)
      BY <1>13, ColumnsKeptKeepCachedInv DEF FailureRead
<1>14. CASE FailureCommit(u)
  <2>1. rows \subseteq rows' /\ job[u] = "read" /\ ~StaleRead(u)
        BY <1>14 DEF FailureCommit
  <2>2. /\ job'[u] = "done"
        /\ \A v \in Uploads \ {u} : job'[v] = job[v] /\ out'[v] = out[v]
        BY <1>14 DEF FailureCommit, EndJob
  <2>3. \A v \in Uploads \ {u} : model'[v] = model[v] /\ key'[v] = key[v]
    <3>1. CASE seen[u] = "none"
          BY <1>14, <3>1 DEF FailureCommit
    <3>2. CASE seen[u] # "none"
          BY <1>14, <3>2 DEF FailureCommit, ReleaseModel
    <3> QED BY <3>1, <3>2
  <2>4. /\ key'[u] = key[u]
        /\ model'[u] = model[u] \/ model'[u] = "failed"
    <3>1. CASE seen[u] = "none"
          BY <1>14, <3>1 DEF FailureCommit
    <3>2. CASE seen[u] # "none"
          BY <1>14, <3>2 DEF FailureCommit, ReleaseModel
    <3> QED BY <3>1, <3>2
  <2>5. ASSUME NEW v \in Uploads \ {u}
        PROVE  Cached(v)'
    <3>1. Cached(v)
          BY DEF CachedInv
    <3> QED BY <3>1, <2>1, <2>2, <2>3 DEF Cached
  <2>6. Cached(u)'
        BY <2>1, <2>2, <2>4 DEF CachedInv, Cached
  <2> QED BY <2>5, <2>6 DEF CachedInv
<1>15. CASE FailureStale(u)
      BY <1>15 DEF FailureStale, EndJob, StaleRead,
                    CachedInv, Cached
<1>16. CASE FailureAborts(u)
      BY <1>16, ColumnsKeptKeepCachedInv DEF FailureAborts
<1> QED BY <1>1, <1>2, <1>3, <1>4, <1>5, <1>6, <1>7, <1>8, <1>9, <1>10, <1>11,
           <1>12, <1>13, <1>14, <1>15, <1>16
        DEF JobStep

LEMMA ProcessKeepsCachedInv ==
    ASSUME FunctionTypes, StatusInv, CachedInv, Process \/ Tick
    PROVE  CachedInv'
<1> USE DEF FunctionTypes, StatusInv, Coupled, CachedInv, Cached
<1>1. CASE ApiCrash    BY <1>1 DEF ApiCrash, Killed
<1>2. CASE WorkerCrash BY <1>2 DEF WorkerCrash, Killed
<1>3. CASE ApiStart    BY <1>3 DEF ApiStart, ReconcileOrphanedRuns
<1>4. CASE WorkerStart BY <1>4 DEF WorkerStart, ReconcileOrphanedRuns
<1>5. CASE Tick        BY <1>5 DEF Tick
<1> QED BY <1>1, <1>2, <1>3, <1>4, <1>5 DEF Process

LEMMA CachedInvariant == LifecycleAssumption /\ Spec => []CachedInv
<1> SUFFICES ASSUME LifecycleAssumption
             PROVE  Spec => []CachedInv
    OBVIOUS
<1>1. Init => CachedInv
      BY DEF Init, CachedInv, Cached
<1>2. TypeOK /\ StatusInv /\ CachedInv /\ [Next]_vars => CachedInv'
  <2> SUFFICES ASSUME TypeOK, StatusInv, CachedInv, [Next]_vars
               PROVE  CachedInv'
      OBVIOUS
  <2>1. FunctionTypes
        BY DEF TypeOK, FunctionTypes
  <2>2. CASE Next
        BY <2>1, <2>2, ApiKeepsCachedInv, JobKeepsCachedInv, ProcessKeepsCachedInv DEF Next
  <2>3. CASE UNCHANGED vars
        BY <2>3 DEF CachedInv, Cached, vars
  <2> QED BY <2>2, <2>3
<1>3. Spec => []TypeOK /\ []StatusInv
      BY TypeCorrect, StatusInvariant, PTL
<1> QED BY <1>1, <1>2, <1>3, PTL DEF Spec

\* A model offered as ready has its cached results.
THEOREM ReadyModelsHaveResults ==
    LifecycleAssumption /\ Spec => []ReadyHasResults
<1>1. CachedInv => ReadyHasResults
      BY DEF CachedInv, Cached, ReadyHasResults
<1> QED BY <1>1, CachedInvariant, PTL

-----------------------------------------------------------------------------
(* Lifecycle implements ModelStatus, given the timing assumption.           *)

\* A job in flight owns its model, and only a ready model has an artifact key.
Owned(u) ==
    /\ job[u] \in InFlight => model[u] \in Pending \cup {"none"}
    /\ key[u] # "none" => model[u] \in {"draft", "deployed"}

OwnedInv == \A u \in Uploads : Owned(u)

LEMMA ApiKeepsOwnedInv ==
    ASSUME TypeOK, StatusInv, OwnedInv, NEW u \in Uploads, Api(u)
    PROVE  OwnedInv'
<1> USE DEF TypeOK, StatusInv, Coupled, OwnedInv, Owned
<1>1. CASE StageUpload(u)
      BY <1>1 DEF StageUpload
<1>2. CASE CommitRows(u)
      BY <1>2 DEF CommitRows
<1>3. CASE EnqueuePipeline(u)
      BY <1>3 DEF EnqueuePipeline
<1>4. CASE EnqueueFails(u)
      BY <1>4 DEF EnqueueFails
<1>5. CASE IngestionComplete(u)
      BY <1>5 DEF IngestionComplete
<1>6. CASE Deploy(u)
      BY <1>6 DEF Deploy
<1>7. CASE Undeploy(u)
      BY <1>7 DEF Undeploy
<1>8. CASE DeleteRequest(u)
      BY <1>8 DEF DeleteRequest
<1>9. CASE DeleteRows(u)
      BY <1>9 DEF DeleteRows
<1>10. CASE DeletePrefix(u)
      BY <1>10 DEF DeletePrefix
<1>11. CASE DeleteSource(u)
      BY <1>11 DEF DeleteSource
<1> QED BY <1>1, <1>2, <1>3, <1>4, <1>5, <1>6, <1>7, <1>8, <1>9, <1>10, <1>11
        DEF Api

LEMMA JobKeepsOwnedInv ==
    ASSUME TypeOK, StatusInv, OwnedInv, NEW u \in Uploads, PickUp(u) \/ JobStep(u)
    PROVE  OwnedInv'
<1> USE DEF TypeOK, StatusInv, Coupled, OwnedInv, Owned, Goto
<1>1. CASE PickUp(u)
      BY <1>1 DEF PickUp
<1>2. CASE FetchSource(u)
      BY <1>2 DEF FetchSource
<1>3. CASE PassCheckpoints(u)
      BY <1>3 DEF PassCheckpoints
<1>4. CASE CancelAtCheckpoint(u)
      BY <1>4 DEF CancelAtCheckpoint
<1>5. CASE PipelineError(u)
      BY <1>5 DEF PipelineError
<1>6. CASE UploadArtifact(u)
      BY <1>6 DEF UploadArtifact
<1>7. CASE UploadIngested(u)
      BY <1>7 DEF UploadIngested
<1>8. CASE CacheArchitecture(u)
      BY <1>8 DEF CacheArchitecture
<1>9. CASE CacheResults(u)
      BY <1>9 DEF CacheResults
<1>10. CASE SuccessRead(u)
      BY <1>10 DEF SuccessRead
<1>11. CASE SuccessCommit(u)
      BY <1>11 DEF SuccessCommit, EndJob, EndRun, ReleaseModel, StaleRead
<1>12. CASE LogError(u)
      BY <1>12 DEF LogError
<1>13. CASE FailureRead(u)
      BY <1>13 DEF FailureRead
<1>14. CASE FailureCommit(u)
      BY <1>14 DEF FailureCommit, EndJob, EndRun, ReleaseModel, StaleRead
<1>15. CASE FailureStale(u)
      BY <1>15 DEF FailureStale, EndJob, StaleRead
<1>16. CASE FailureAborts(u)
      BY <1>16 DEF FailureAborts
<1> QED BY <1>1, <1>2, <1>3, <1>4, <1>5, <1>6, <1>7, <1>8, <1>9, <1>10, <1>11,
           <1>12, <1>13, <1>14, <1>15, <1>16
        DEF JobStep

LEMMA ProcessKeepsOwnedInv ==
    ASSUME LifecycleAssumption, Timing, TypeOK, StatusInv, ReaperInv, OwnedInv,
           Process \/ Tick
    PROVE  OwnedInv'
<1> USE DEF TypeOK, StatusInv, Coupled, OwnedInv, Owned
<1>1. CASE ApiCrash    BY <1>1 DEF ApiCrash, Killed
<1>2. CASE WorkerCrash BY <1>2 DEF WorkerCrash, Killed
<1>3. CASE ApiStart
  <2>1. \A u \in Uploads : job[u] \in InFlight => run'[u] = run[u]
        BY <1>3, ReconcileSparesLiveJobs DEF ApiStart
  <2> QED BY <1>3, <2>1 DEF ApiStart, ReconcileOrphanedRuns
<1>4. CASE WorkerStart
  <2>1. ~InlineJobs
        BY <1>4 DEF WorkerStart, ReaperInv
  <2>2. \A u \in Uploads : job[u] \in InFlight => run'[u] = run[u]
        BY <1>4, <2>1, ReconcileSparesLiveJobs DEF WorkerStart
  <2> QED BY <1>4, <2>2 DEF WorkerStart, ReconcileOrphanedRuns
<1>5. CASE Tick        BY <1>5 DEF Tick
<1> QED BY <1>1, <1>2, <1>3, <1>4, <1>5 DEF Process

LEMMA OwnedInvariant == LifecycleAssumption /\ Timing /\ Spec => []OwnedInv
<1> SUFFICES ASSUME LifecycleAssumption, Timing
             PROVE  Spec => []OwnedInv
    OBVIOUS
<1>1. Init => OwnedInv
      BY DEF Init, OwnedInv, Owned
<1>2. TypeOK /\ StatusInv /\ ReaperInv /\ OwnedInv /\ [Next]_vars => OwnedInv'
  <2> SUFFICES ASSUME TypeOK, StatusInv, ReaperInv, OwnedInv, [Next]_vars
               PROVE  OwnedInv'
      OBVIOUS
  <2>1. CASE Next
        BY <2>1, ApiKeepsOwnedInv, JobKeepsOwnedInv, ProcessKeepsOwnedInv DEF Next
  <2>2. CASE UNCHANGED vars
        BY <2>2 DEF OwnedInv, Owned, vars
  <2> QED BY <2>1, <2>2
<1>3. Spec => []TypeOK /\ []StatusInv /\ []ReaperInv
      BY TypeCorrect, StatusInvariant, ReaperInvariant, PTL
<1> QED BY <1>1, <1>2, <1>3, PTL DEF Spec

\* One step of the shown status of one upload.
Moved(u) ==
    \/ Shown(u)' = Shown(u)
    \/ Shown(u) = "absent" /\ Shown(u)' = "analyzing"
    \/ Shown(u) = "analyzing" /\ Shown(u)' = "optimizing"
    \/ Shown(u) \in Pending /\ Shown(u)' \in {"draft", "failed"}
    \/ Shown(u) = "draft" /\ Shown(u)' = "deployed"
    \/ Shown(u) = "deployed" /\ Shown(u)' = "draft"
    \/ Shown(u) \notin {"absent", "deleted"} /\ Shown(u)' = "deleted"

LEMMA MovedIsMove ==
    ASSUME NEW u \in Uploads, TypeOK, TypeOK', Moved(u)
    PROVE  /\ Shown(u)' \in Abstract!States
           /\ Shown(u)' # Shown(u) => <<Shown(u), Shown(u)'>> \in Abstract!Moves
BY DEF Moved, Shown, TypeOK, Abstract!States, Abstract!Moves

LEMMA StepMoves ==
    ASSUME TypeOK, StatusInv, ReaperInv, OwnedInv, Next
    PROVE  \A u \in Uploads : Moved(u)
<1> USE DEF TypeOK, StatusInv, Coupled, OwnedInv, Owned, Moved, Shown
<1>1. ASSUME NEW v \in Uploads, Api(v)
      PROVE  \A u \in Uploads : Moved(u)
  <2> USE <1>1
  <2>1. CASE StageUpload(v)
        BY <2>1 DEF StageUpload
  <2>2. CASE CommitRows(v)
        BY <2>2 DEF CommitRows
  <2>3. CASE EnqueuePipeline(v)
        BY <2>3 DEF EnqueuePipeline
  <2>4. CASE EnqueueFails(v)
        BY <2>4 DEF EnqueueFails
  <2>5. CASE IngestionComplete(v)
        BY <2>5 DEF IngestionComplete
  <2>6. CASE Deploy(v)
        BY <2>6 DEF Deploy
  <2>7. CASE Undeploy(v)
        BY <2>7 DEF Undeploy
  <2>8. CASE DeleteRequest(v)
        BY <2>8 DEF DeleteRequest
  <2>9. CASE DeleteRows(v)
        BY <2>9 DEF DeleteRows
  <2>10. CASE DeletePrefix(v)
        BY <2>10 DEF DeletePrefix
  <2>11. CASE DeleteSource(v)
        BY <2>11 DEF DeleteSource
  <2> QED BY <2>1, <2>2, <2>3, <2>4, <2>5, <2>6, <2>7, <2>8, <2>9, <2>10, <2>11 DEF Api
<1>2. ASSUME NEW v \in Uploads, PickUp(v) \/ JobStep(v)
      PROVE  \A u \in Uploads : Moved(u)
  <2> USE <1>2 DEF Goto
  <2>1. CASE PickUp(v)
        BY <2>1 DEF PickUp
  <2>2. CASE FetchSource(v)
        BY <2>2 DEF FetchSource
  <2>3. CASE PassCheckpoints(v)
        BY <2>3 DEF PassCheckpoints
  <2>4. CASE CancelAtCheckpoint(v)
        BY <2>4 DEF CancelAtCheckpoint
  <2>5. CASE PipelineError(v)
        BY <2>5 DEF PipelineError
  <2>6. CASE UploadArtifact(v)
        BY <2>6 DEF UploadArtifact
  <2>7. CASE UploadIngested(v)
        BY <2>7 DEF UploadIngested
  <2>8. CASE CacheArchitecture(v)
        BY <2>8 DEF CacheArchitecture
  <2>9. CASE CacheResults(v)
        BY <2>9 DEF CacheResults
  <2>10. CASE SuccessRead(v)
        BY <2>10 DEF SuccessRead
  <2>11. CASE SuccessCommit(v)
        BY <2>11 DEF SuccessCommit, EndJob, EndRun, ReleaseModel, StaleRead
  <2>12. CASE LogError(v)
        BY <2>12 DEF LogError
  <2>13. CASE FailureRead(v)
        BY <2>13 DEF FailureRead
  <2>14. CASE FailureCommit(v)
        BY <2>14 DEF FailureCommit, EndJob, EndRun, ReleaseModel, StaleRead
  <2>15. CASE FailureStale(v)
        BY <2>15 DEF FailureStale, EndJob, StaleRead
  <2>16. CASE FailureAborts(v)
        BY <2>16 DEF FailureAborts
  <2> QED BY <2>1, <2>2, <2>3, <2>4, <2>5, <2>6, <2>7, <2>8, <2>9, <2>10, <2>11,
             <2>12, <2>13, <2>14, <2>15, <2>16 DEF JobStep
<1>3. CASE ApiCrash
      BY <1>3 DEF ApiCrash, Killed
<1>4. CASE WorkerCrash
      BY <1>4 DEF WorkerCrash, Killed
<1>5. CASE ApiStart
      BY <1>5 DEF ApiStart, ReconcileOrphanedRuns
<1>6. CASE WorkerStart
      BY <1>6 DEF WorkerStart, ReconcileOrphanedRuns
<1>7. CASE Tick
      BY <1>7 DEF Tick
<1> QED BY <1>1, <1>2, <1>3, <1>4, <1>5, <1>6, <1>7 DEF Next, Process

\* Whatever is split, delayed, repeated or lost underneath, a client sees each
\* model's status move as if every handler, job and reaper were one step.
THEOREM LifecycleImplementsModelStatus ==
    LifecycleAssumption /\ Timing /\ Spec => ImplementsModelStatus
<1> SUFFICES ASSUME LifecycleAssumption, Timing
             PROVE  Spec => ImplementsModelStatus
    OBVIOUS
<1>1. Init => Abstract!Init
      BY DEF Init, Abstract!Init, SeenStatus, Shown
<1>2. TypeOK /\ TypeOK' /\ StatusInv /\ ReaperInv /\ OwnedInv /\ [Next]_vars
        => [Abstract!Next]_SeenStatus
  <2> SUFFICES ASSUME TypeOK, TypeOK', StatusInv, ReaperInv, OwnedInv, [Next]_vars
               PROVE  [Abstract!Next]_SeenStatus
      OBVIOUS
  <2>1. CASE Next
    <3>1. \A u \in Uploads : Moved(u)
          BY <2>1, StepMoves
    <3>2. \A u \in Uploads :
             /\ Shown(u)' \in Abstract!States
             /\ Shown(u)' # Shown(u) => <<Shown(u), Shown(u)'>> \in Abstract!Moves
          BY <3>1, MovedIsMove
    <3> HIDE DEF Pending
    <3> QED BY <3>2 DEF Abstract!Next, SeenStatus
  <2>2. CASE UNCHANGED vars
        BY <2>2 DEF vars, SeenStatus, Shown
  <2> QED BY <2>1, <2>2
<1>3. Spec => []TypeOK /\ []StatusInv /\ []ReaperInv /\ []OwnedInv
      BY TypeCorrect, StatusInvariant, ReaperInvariant, OwnedInvariant, PTL
<1> QED BY <1>1, <1>2, <1>3, PTL DEF Spec, ImplementsModelStatus, Abstract!Spec
=============================================================================
