----------------------------- MODULE Lifecycle -----------------------------
(***************************************************************************)
(* The life of an uploaded model: the API handlers that create, complete,  *)
(* deploy and delete it, the queue, the worker that runs its compression   *)
(* pipeline, cooperative cancellation, and the reaper that runs at every   *)
(* process start.                                                          *)
(*                                                                         *)
(* One upload u stands for the token that names the model row, the         *)
(* ingestion run row and the dashboard run row, which are created in one   *)
(* commit and deleted in one commit.  Every action below is one database   *)
(* commit, one object-storage call or one queue operation; between two of  *)
(* them any other actor may run and any process may die.                   *)
(*                                                                         *)
(* Time is counted in abstract units.  age is what the reaper compares     *)
(* (since started_at, which is set at enqueue), elapsed is what the job's  *)
(* deadline compares (since pick-up, or since enqueue in inline mode).     *)
(***************************************************************************)
EXTENDS Naturals, FiniteSets

CONSTANTS
    Uploads,      \* tokens the API may hand out
    Imports,      \* the uploads that carry no bytes (POST /import)
    Outcomes,     \* kinds of artifact these uploads' pipelines produce
    InlineJobs,   \* settings.inline_jobs: jobs are threads of the API process
    JobWorkers,   \* settings.job_workers
    JobTimeout,   \* settings.job_timeout_sec
    Lag,          \* time a job may need to end once its deadline has passed
    MaxWait,      \* longest time from the rows' commit to the job's pick-up
    ReapAge,      \* job_timeout_sec + 300
    Faults        \* may processes die and may Redis or the database refuse

ASSUME LifecycleAssumption ==
    /\ Imports \subseteq Uploads
    /\ Outcomes \subseteq {"onnx", "npz", "none"}
    /\ InlineJobs \in BOOLEAN
    /\ Faults \in BOOLEAN
    /\ JobWorkers \in Nat
    /\ JobTimeout \in Nat
    /\ Lag \in Nat
    /\ MaxWait \in Nat
    /\ ReapAge \in Nat

VARIABLES
    job,        \* where the upload's handler or job stands
    model,      \* models.status ("none": no row)
    analysis,   \* is models.analysis_run_id set
    key,        \* models.artifact_key, by its suffix
    run,        \* ingestion_runs.status
    dash,       \* runs.status, the dashboard row
    rows,       \* log, result-cache and alert rows of the upload
    store,      \* objects of the upload in the object store
    cancel,     \* runs whose cancel flag is set
    seen,       \* the model status the job's last transaction has read
    out,        \* the kind of artifact the pipeline produced
    age,        \* time since started_at
    elapsed,    \* time on the job's deadline clock
    del,        \* where the upload's DELETE handler stands
    apiUp,      \* is the API process up
    workerUp    \* is the arq worker process up (unused in inline mode)

vars == <<job, model, analysis, key, run, dash, rows, store, cancel, seen,
          out, age, elapsed, del, apiUp, workerUp>>
data == <<model, analysis, key, run, dash>>
clocks == <<age, elapsed>>
procs == <<apiUp, workerUp>>

Statuses == {"none", "analyzing", "optimizing", "draft", "failed", "deployed"}
RunStatuses == {"none", "streaming", "completed", "failed"}
DashStatuses == {"none", "queued", "running", "done", "failed"}
Artifacts == {"onnx", "npz"}
Objects == Artifacts \cup {"source", "ingested"}
RowKinds == {"log", "architecture", "results", "alert_risk", "alert_fail"}

Waiting == {"committed", "queued"}
Piping == {"fetch", "work", "last"}
Publishing == {"uploaded", "stored", "cached", "complete", "ready"}
Failing == {"failing", "logged", "read"}
Active == Piping \cup Publishing \cup Failing
InFlight == Waiting \cup Active
Jobs == {"none", "staged", "dropped", "lost", "done"} \cup InFlight
Deletes == {"no", "requested", "rows", "prefix", "done", "aborted"}

WorkerUp == IF InlineJobs THEN apiUp ELSE workerUp

\* max(1, job_workers) threads inline; arq takes max_jobs as it is given.
SlotsUnclamped == JobWorkers
Slots == IF InlineJobs /\ JobWorkers = 0 THEN 1 ELSE JobWorkers

Init ==
    /\ job = [u \in Uploads |-> "none"]
    /\ model = [u \in Uploads |-> "none"]
    /\ analysis = [u \in Uploads |-> FALSE]
    /\ key = [u \in Uploads |-> "none"]
    /\ run = [u \in Uploads |-> "none"]
    /\ dash = [u \in Uploads |-> "none"]
    /\ rows = {}
    /\ store = {}
    /\ cancel = {}
    /\ seen = [u \in Uploads |-> "none"]
    /\ out = [u \in Uploads |-> "none"]
    /\ age = [u \in Uploads |-> 0]
    /\ elapsed = [u \in Uploads |-> 0]
    /\ del = [u \in Uploads |-> "no"]
    /\ apiUp = TRUE
    /\ workerUp = TRUE

-----------------------------------------------------------------------------
(* The API: POST /upload and /import, /ingestion/complete, DELETE,          *)
(* and the first commit of POST and the last of DELETE of a deployment.     *)

StageUpload(u) ==
    /\ apiUp /\ job[u] = "none" /\ u \notin Imports
    /\ job' = [job EXCEPT ![u] = "staged"]
    /\ store' = store \cup {<<u, "source">>}
    /\ UNCHANGED <<data, rows, cancel, seen, out, clocks, del, procs>>

CommitRows(u) ==
    /\ apiUp
    /\ job[u] = IF u \in Imports THEN "none" ELSE "staged"
    /\ job' = [job EXCEPT ![u] = "committed"]
    /\ model' = [model EXCEPT ![u] = "analyzing"]
    /\ analysis' = [analysis EXCEPT ![u] = TRUE]
    /\ run' = [run EXCEPT ![u] = "streaming"]
    /\ dash' = [dash EXCEPT ![u] = "queued"]
    /\ UNCHANGED <<key, rows, store, cancel, seen, out, clocks, del, procs>>

EnqueuePipeline(u) ==
    /\ apiUp /\ job[u] = "committed"
    /\ job' = [job EXCEPT ![u] = "queued"]
    /\ UNCHANGED <<data, rows, store, cancel, seen, out, clocks, del, procs>>

\* Redis refuses the job: the request fails after its rows were committed.
EnqueueFails(u) ==
    /\ Faults /\ ~InlineJobs
    /\ apiUp /\ job[u] = "committed"
    /\ job' = [job EXCEPT ![u] = "lost"]
    /\ UNCHANGED <<data, rows, store, cancel, seen, out, clocks, del, procs>>

CompleteUnguarded(u) ==
    /\ apiUp /\ model[u] # "none"
    /\ model' = [model EXCEPT ![u] = "optimizing"]
    /\ UNCHANGED <<job, analysis, key, run, dash, rows, store, cancel, seen, out,
                   clocks, del, procs>>

\* The guarded UPDATE, and the tail of the handler when it matches no row.
IngestionComplete(u) ==
    /\ apiUp /\ model[u] = "analyzing"
    /\ model' = [model EXCEPT ![u] =
                   CASE analysis[u] /\ run[u] = "streaming" -> "optimizing"
                     [] analysis[u] /\ run[u] = "failed"    -> "failed"
                     [] OTHER                               -> "draft"]
    /\ analysis' = [analysis EXCEPT ![u] = model'[u] = "optimizing"]
    /\ UNCHANGED <<job, key, run, dash, rows, store, cancel, seen, out,
                   clocks, del, procs>>

Deploy(u) ==
    /\ apiUp /\ model[u] # "none" /\ key[u] = "onnx"
    /\ model' = [model EXCEPT ![u] = "deployed"]
    /\ UNCHANGED <<job, analysis, key, run, dash, rows, store, cancel, seen,
                   out, clocks, del, procs>>

Undeploy(u) ==
    /\ apiUp /\ model[u] = "deployed"
    /\ model' = [model EXCEPT ![u] = "draft"]
    /\ UNCHANGED <<job, analysis, key, run, dash, rows, store, cancel, seen,
                   out, clocks, del, procs>>

DeleteRequest(u) ==
    /\ apiUp /\ model[u] # "none" /\ del[u] = "no"
    /\ del' = [del EXCEPT ![u] = "requested"]
    /\ cancel' = IF analysis[u] THEN cancel \cup {u} ELSE cancel
    /\ UNCHANGED <<job, data, rows, store, seen, out, clocks, procs>>

DeleteRowsSoftly(u) ==
    /\ apiUp /\ del[u] = "requested"
    /\ del' = [del EXCEPT ![u] = "rows"]
    /\ model' = [model EXCEPT ![u] = "deleted"]
    /\ UNCHANGED <<job, analysis, key, run, dash, rows, store, cancel, seen, out,
                   clocks, procs>>

DeleteRows(u) ==
    /\ apiUp /\ del[u] = "requested"
    /\ del' = [del EXCEPT ![u] = "rows"]
    /\ model' = [model EXCEPT ![u] = "none"]
    /\ analysis' = [analysis EXCEPT ![u] = FALSE]
    /\ key' = [key EXCEPT ![u] = "none"]
    /\ run' = [run EXCEPT ![u] = "none"]
    /\ dash' = [dash EXCEPT ![u] = "none"]
    /\ rows' = rows \ ({u} \X RowKinds)
    /\ UNCHANGED <<job, store, cancel, seen, out, clocks, procs>>

DeletePrefixFirst(u) ==
    /\ apiUp /\ del[u] \in {"requested", "rows"}
    /\ del' = [del EXCEPT ![u] = IF @ = "rows" THEN "prefix" ELSE @]
    /\ store' = store \ ({u} \X (Objects \ {"source"}))
    /\ UNCHANGED <<job, data, rows, cancel, seen, out, clocks, procs>>

DeletePrefix(u) ==
    /\ apiUp /\ del[u] = "rows"
    /\ del' = [del EXCEPT ![u] = "prefix"]
    /\ store' = store \ ({u} \X (Objects \ {"source"}))
    /\ UNCHANGED <<job, data, rows, cancel, seen, out, clocks, procs>>

DeleteSource(u) ==
    /\ apiUp /\ del[u] = "prefix"
    /\ del' = [del EXCEPT ![u] = "done"]
    /\ store' = store \ {<<u, "source">>}
    /\ UNCHANGED <<job, data, rows, cancel, seen, out, clocks, procs>>

-----------------------------------------------------------------------------
(* The worker: pick-up, pipeline with its cancellation checkpoints,         *)
(* publication of the results, and the failure path.                        *)

ShouldCancelLate(u) == elapsed[u] > JobTimeout
ShouldCancel(u) == u \in cancel \/ elapsed[u] > JobTimeout

PickUp(u) ==
    /\ WorkerUp /\ job[u] = "queued"
    /\ Cardinality({v \in Uploads : job[v] \in Active}) < Slots
    /\ job' = [job EXCEPT ![u] = "fetch"]
    /\ dash' = [dash EXCEPT ![u] = IF @ = "queued" THEN "running" ELSE @]
    /\ elapsed' = IF InlineJobs THEN elapsed ELSE [elapsed EXCEPT ![u] = 0]
    /\ UNCHANGED <<model, analysis, key, run, rows, store, cancel, seen, out,
                   age, del, procs>>

\* Move the job without touching the database or the store.
Goto(u, from, to) ==
    /\ WorkerUp /\ job[u] = from
    /\ job' = [job EXCEPT ![u] = to]
    /\ UNCHANGED <<data, store, cancel, clocks, del, procs>>

FetchSource(u) ==
    /\ Goto(u, "fetch", "work")
    /\ u \in Imports \/ <<u, "source">> \in store
    /\ UNCHANGED <<rows, seen, out>>

\* Every phase emits log rows and ends in a checkpoint; the last one passed.
PassCheckpoints(u) ==
    /\ Goto(u, "work", "last")
    /\ ~ShouldCancel(u)
    /\ rows' = rows \cup {<<u, "log">>}
    /\ UNCHANGED <<seen, out>>

CancelAtCheckpoint(u) ==
    /\ Goto(u, "work", "failing")
    /\ ShouldCancel(u)
    /\ rows' = rows \cup {<<u, "log">>}
    /\ UNCHANGED <<seen, out>>

\* Any exception of the engine, the store or the database inside the try; the
\* final commit's StaleDataError (below) is one of them.
PipelineError(u) ==
    /\ \E from \in Piping \cup Publishing : Goto(u, from, "failing")
    /\ UNCHANGED <<rows, seen, out>>

UploadAndRecordArtifact(u) ==
    /\ WorkerUp /\ job[u] = "last"
    /\ job' = [job EXCEPT ![u] = "uploaded"]
    /\ out' = [out EXCEPT ![u] = "onnx"]
    /\ store' = store \cup {<<u, "onnx">>}
    /\ key' = [key EXCEPT ![u] = IF model[u] = "none" THEN @ ELSE "onnx"]
    /\ UNCHANGED <<model, analysis, run, dash, rows, cancel, seen, clocks, del,
                   procs>>

UploadArtifact(u) ==
    /\ WorkerUp /\ job[u] = "last"
    /\ job' = [job EXCEPT ![u] = "uploaded"]
    /\ \E kind \in Outcomes :
          /\ out' = [out EXCEPT ![u] = kind]
          /\ store' = IF kind = "none" THEN store ELSE store \cup {<<u, kind>>}
    /\ UNCHANGED <<data, rows, cancel, seen, clocks, del, procs>>

UploadIngested(u) ==
    /\ WorkerUp /\ job[u] = "uploaded"
    /\ job' = [job EXCEPT ![u] = "stored"]
    /\ store' = IF out[u] = "onnx" THEN store \cup {<<u, "ingested">>} ELSE store
    /\ UNCHANGED <<data, rows, cancel, seen, out, clocks, del, procs>>

CacheNothing(u) ==
    /\ Goto(u, "stored", "cached")
    /\ UNCHANGED <<rows, seen, out>>

CacheArchitecture(u) ==
    /\ Goto(u, "stored", "cached")
    /\ rows' = rows \cup {<<u, "architecture">>}
    /\ UNCHANGED <<seen, out>>

\* pareto, benchmark, pareto_configs and artifact_meta; none for weights only.
CacheResults(u) ==
    /\ Goto(u, "cached", "complete")
    /\ rows' = IF out[u] = "onnx" THEN rows \cup {<<u, "results">>} ELSE rows
    /\ UNCHANGED <<seen, out>>

SuccessRead(u) ==
    /\ Goto(u, "complete", "ready")
    /\ seen' = [seen EXCEPT ![u] = model[u]]
    /\ UNCHANGED <<rows, out>>

\* An UPDATE of a row deleted since it was read: the ORM's StaleDataError.
NeverStale(u) == FALSE
StaleRead(u) == seen[u] # "none" /\ model[u] = "none"

EndJob(u) ==
    /\ job' = [job EXCEPT ![u] = "done"]
    /\ cancel' = cancel \ {u}
    /\ seen' = [seen EXCEPT ![u] = "none"]
    /\ out' = [out EXCEPT ![u] = "none"]
    /\ UNCHANGED <<store, clocks, del, procs>>

\* The two status rows of the run end together.
EndRunOnly(u, verdict, badge) ==
    /\ run' = [run EXCEPT ![u] = verdict]
    /\ dash' = dash

EndRun(u, verdict, badge) ==
    /\ run' = [run EXCEPT ![u] = verdict]
    /\ dash' = [dash EXCEPT ![u] = badge]

\* The model leaves the pipeline with the given status.
ReleaseModel(u, owner, status) ==
    /\ model' = [model EXCEPT ![u] = IF owner THEN status ELSE @]
    /\ analysis' = [analysis EXCEPT ![u] = @ /\ ~owner]

SuccessCommit(u) ==
    /\ WorkerUp /\ job[u] = "ready" /\ ~StaleRead(u)
    /\ EndJob(u)
    /\ \E risky \in BOOLEAN :
          rows' = IF risky THEN rows \cup {<<u, "alert_risk">>} ELSE rows
    /\ IF seen[u] = "none"
       THEN UNCHANGED data
       ELSE /\ EndRun(u, "completed", "done")
            /\ key' = [key EXCEPT ![u] = IF out[u] = "none" THEN @ ELSE out[u]]
            /\ ReleaseModel(u, seen[u] \in {"analyzing", "optimizing"}, "draft")

LogError(u) ==
    /\ Goto(u, "failing", "logged")
    /\ rows' = rows \cup {<<u, "log">>}
    /\ UNCHANGED <<seen, out>>

FailureRead(u) ==
    /\ Goto(u, "logged", "read")
    /\ seen' = [seen EXCEPT ![u] = model[u]]
    /\ UNCHANGED <<rows, out>>

FailureCommit(u) ==
    /\ WorkerUp /\ job[u] = "read" /\ ~StaleRead(u)
    /\ EndJob(u)
    /\ rows' = rows \cup {<<u, "alert_fail">>}
    /\ key' = key
    /\ IF seen[u] = "none"
       THEN UNCHANGED <<run, dash, model, analysis>>
       ELSE /\ EndRun(u, "failed", "failed")
            /\ ReleaseModel(u, seen[u] # "deployed", "failed")

\* The handler of the failure raises in its turn: nothing is written.
FailureStale(u) ==
    /\ WorkerUp /\ job[u] = "read" /\ StaleRead(u)
    /\ EndJob(u)
    /\ UNCHANGED <<data, rows>>

\* ... or the database refuses its log row or its commit.
FailureAborts(u) ==
    /\ Faults /\ WorkerUp /\ job[u] \in Failing
    /\ job' = [job EXCEPT ![u] = "lost"]
    /\ cancel' = cancel \ {u}
    /\ UNCHANGED <<data, rows, store, seen, out, clocks, del, procs>>

-----------------------------------------------------------------------------
(* Processes and time.                                                      *)

\* What the jobs of a dying process become.
Killed(dying) ==
    [u \in Uploads |-> CASE job[u] = "staged"  -> IF "staged" \in dying
                                                  THEN "dropped" ELSE "staged"
                         [] job[u] \in dying \ {"staged"} -> "lost"
                         [] OTHER -> job[u]]

ApiCrash ==
    /\ Faults /\ apiUp
    /\ apiUp' = FALSE
    /\ job' = Killed({"staged", "committed"}
                     \cup IF InlineJobs THEN InFlight ELSE {})
    /\ cancel' = IF InlineJobs THEN {} ELSE cancel
    /\ del' = [u \in Uploads |-> CASE del[u] = "requested" -> "no"
                                   [] del[u] \in {"rows", "prefix"} -> "aborted"
                                   [] OTHER -> del[u]]
    /\ UNCHANGED <<data, rows, store, seen, out, clocks, workerUp>>

WorkerCrash ==
    /\ Faults /\ ~InlineJobs /\ workerUp
    /\ workerUp' = FALSE
    /\ job' = Killed(Active)
    /\ UNCHANGED <<data, rows, store, cancel, seen, out, clocks, del, apiUp>>

ReconcileNothing == UNCHANGED data

ReconcileAnyAge ==
    /\ run' = [u \in Uploads |-> IF run[u] = "streaming" THEN "failed" ELSE run[u]]
    /\ model' = [u \in Uploads |-> IF analysis[u] THEN "failed" ELSE model[u]]
    /\ analysis' = [u \in Uploads |-> FALSE]
    /\ UNCHANGED <<key, dash>>

ReconcileRunsOnly ==
    /\ run' = [u \in Uploads |-> IF run[u] = "streaming" /\ age[u] >= ReapAge
                                 THEN "failed" ELSE run[u]]
    /\ UNCHANGED <<model, analysis, key, dash>>

ReconcileOrphanedRuns ==
    LET old == {u \in Uploads : run[u] = "streaming" /\ age[u] >= ReapAge}
        stuck == {u \in old : /\ model[u] \in {"analyzing", "optimizing"}
                              /\ analysis[u]}
    IN  /\ run' = [u \in Uploads |-> IF u \in old THEN "failed" ELSE run[u]]
        /\ model' = [u \in Uploads |-> IF u \in stuck THEN "failed" ELSE model[u]]
        /\ analysis' = [u \in Uploads |-> analysis[u] /\ u \notin stuck]
        /\ UNCHANGED <<key, dash>>

ApiStart ==
    /\ ~apiUp
    /\ apiUp' = TRUE
    /\ ReconcileOrphanedRuns
    /\ UNCHANGED <<job, rows, store, cancel, seen, out, clocks, del, workerUp>>

WorkerStart ==
    /\ ~workerUp
    /\ workerUp' = TRUE
    /\ ReconcileOrphanedRuns
    /\ UNCHANGED <<job, rows, store, cancel, seen, out, clocks, del, apiUp>>

Capped(n, bound) == IF n <= bound THEN n ELSE bound

\* The timing assumption: a job is picked up within MaxWait of its rows'
\* commit, and ends within Lag of its deadline.  Both counters stop where no
\* comparison can tell larger values apart.
Tick ==
    /\ \A u \in Uploads : job[u] \in Waiting => age[u] < MaxWait
    /\ \A u \in Uploads : job[u] \in Active => elapsed[u] < JobTimeout + Lag
    /\ age' = [u \in Uploads |-> IF run[u] = "streaming"
                                 THEN Capped(age[u] + 1, ReapAge) ELSE 0]
    /\ elapsed' = [u \in Uploads |->
                     IF job[u] \in Active \/ (InlineJobs /\ job[u] = "queued")
                     THEN Capped(elapsed[u] + 1, JobTimeout + Lag) ELSE 0]
    /\ UNCHANGED <<job, data, rows, store, cancel, seen, out, del, procs>>

-----------------------------------------------------------------------------
Api(u) ==
    \/ StageUpload(u) \/ CommitRows(u) \/ EnqueuePipeline(u) \/ EnqueueFails(u)
    \/ IngestionComplete(u) \/ Deploy(u) \/ Undeploy(u)
    \/ DeleteRequest(u) \/ DeleteRows(u) \/ DeletePrefix(u) \/ DeleteSource(u)

JobStep(u) ==
    \/ FetchSource(u) \/ PassCheckpoints(u) \/ CancelAtCheckpoint(u)
    \/ PipelineError(u) \/ UploadArtifact(u) \/ UploadIngested(u)
    \/ CacheArchitecture(u) \/ CacheResults(u)
    \/ SuccessRead(u) \/ SuccessCommit(u)
    \/ LogError(u) \/ FailureRead(u) \/ FailureCommit(u) \/ FailureStale(u)
    \/ FailureAborts(u)

Process == ApiCrash \/ WorkerCrash \/ ApiStart \/ WorkerStart

Next ==
    \/ \E u \in Uploads : Api(u) \/ PickUp(u) \/ JobStep(u)
    \/ Process
    \/ Tick

Spec == Init /\ [][Next]_vars

\* A handler that has started goes on, a running job goes on, waiting jobs are
\* served in turn, a process that died is started again, and time passes.
Fairness ==
    /\ \A u \in Uploads :
          /\ WF_vars(EnqueuePipeline(u))
          /\ WF_vars(DeleteRows(u) \/ DeletePrefix(u) \/ DeleteSource(u))
          /\ SF_vars(PickUp(u))
          /\ WF_vars(JobStep(u))
    /\ WF_vars(ApiStart)
    /\ WF_vars(WorkerStart)
    /\ WF_vars(Tick)

FairSpec == Spec /\ Fairness
-----------------------------------------------------------------------------
(* What must hold.                                                          *)

TypeOK ==
    /\ job \in [Uploads -> Jobs]
    /\ model \in [Uploads -> Statuses]
    /\ analysis \in [Uploads -> BOOLEAN]
    /\ key \in [Uploads -> Artifacts \cup {"none"}]
    /\ run \in [Uploads -> RunStatuses]
    /\ dash \in [Uploads -> DashStatuses]
    /\ rows \subseteq Uploads \X RowKinds
    /\ store \subseteq Uploads \X Objects
    /\ cancel \subseteq Uploads
    /\ seen \in [Uploads -> Statuses]
    /\ out \in [Uploads -> Artifacts \cup {"none"}]
    /\ age \in [Uploads -> Nat]
    /\ elapsed \in [Uploads -> Nat]
    /\ del \in [Uploads -> Deletes]
    /\ apiUp \in BOOLEAN
    /\ workerUp \in BOOLEAN

\* A model that reads "analyzing" or "optimizing" has its run, still streaming:
\* no interleaving of /complete, the worker's commit, the reaper and DELETE
\* leaves a model waiting for a run that has already ended.
ModelFollowsRun ==
    \A u \in Uploads :
        model[u] \in {"analyzing", "optimizing"}
            => analysis[u] /\ run[u] = "streaming"

\* The artifact key of a model row always names an object that exists, so a
\* download never finds a dangling key.
NoDanglingArtifact ==
    \A u \in Uploads : key[u] # "none" => <<u, key[u]>> \in store

\* A model offered as ready has its cached results: they are committed before
\* the commit that makes it ready, and only a DELETE takes them away.
ReadyHasResults ==
    \A u \in Uploads :
        model[u] \in {"draft", "deployed"}
            => /\ <<u, "architecture">> \in rows
               /\ key[u] = "onnx" => <<u, "results">> \in rows

\* The dashboard row and the run tell the same ending.
DashboardAgrees ==
    \A u \in Uploads :
        /\ run[u] = "completed" => dash[u] = "done"
        /\ dash[u] = "failed" => run[u] = "failed"

\* No run is failed while its job still waits or works: the reaper only takes
\* runs whose job is gone (given the timing assumption of Tick).
LiveJobNotReaped ==
    \A u \in Uploads :
        job[u] \in InFlight => run[u] \in {"streaming", "none"}

\* ... and in any case not while its worker runs it.
RunningJobNotReaped ==
    \A u \in Uploads : job[u] \in Active => run[u] \in {"streaming", "none"}

\* A deployed model never turns "failed": the guard in _on_failure is a second
\* defence, a job that can still fail never owns a deployed model.
DeployedNeverFails ==
    [][\A u \in Uploads : model[u] = "deployed" => model'[u] # "failed"]_vars

\* A deleted model, its run and its dashboard row never come back, whatever a
\* job that outlives the DELETE still commits.
DeletedStaysDeleted ==
    [][\A u \in Uploads :
          del[u] \in {"rows", "prefix", "done", "aborted"}
              => model'[u] = "none" /\ run'[u] = "none" /\ dash'[u] = "none"]_vars

\* A cancelled job that has not passed its last checkpoint never publishes.
CancelStopsJob ==
    \A u \in Uploads :
        [](u \in cancel /\ job[u] \in {"queued", "fetch", "work"}
              => [](job[u] \notin {"last"} \cup Publishing))

\* Without faults every run reaches its end, or its model is deleted.
EveryRunSettles ==
    \A u \in Uploads : (run[u] = "streaming") ~> (run[u] # "streaming")

\* With faults, if the API process is restarted again and again, no run hangs.
RestartsSettleRuns ==
    []<><<ApiStart>>_vars => EveryRunSettles

\* The status a client sees only moves as ModelStatus allows: Lifecycle, with
\* its split commits, crashes and races, implements the one-step life cycle.
Shown(u) ==
    IF model[u] # "none" THEN model[u]
    ELSE IF job[u] \in {"none", "staged", "dropped"} THEN "absent" ELSE "deleted"

SeenStatus == [u \in Uploads |-> Shown(u)]

Abstract == INSTANCE ModelStatus WITH status <- SeenStatus
ImplementsModelStatus == Abstract!Spec

\* After DELETE has finished and no job is left, nothing of the model remains.
NoResidueAfterDelete ==
    \A u \in Uploads :
        del[u] = "done" /\ job[u] \notin InFlight
            => /\ \A o \in Objects : <<u, o>> \notin store
               /\ \A k \in RowKinds : <<u, k>> \notin rows
=============================================================================
