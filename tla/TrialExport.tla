---------------------------- MODULE TrialExport ----------------------------
(***************************************************************************)
(* The artifact of one trial of a model, built on demand: requests of      *)
(* several API processes that share the object storage, each process with  *)
(* a lock per model, while the worker publishes the run, DELETE removes    *)
(* the model and processes crash.                                          *)
(*                                                                         *)
(* A local file is written in place: it is there, in part, from the first  *)
(* byte on.  An object of the S3 backend appears whole.                    *)
(***************************************************************************)
EXTENDS Naturals, FiniteSets

CONSTANTS
    Exports,      \* POST .../export requests
    Downloads,    \* GET .../artifact requests
    Processes,    \* API processes
    ProcessOf,    \* which of them serves each export
    Unowned       \* nobody

ASSUME TrialExportAssumption ==
    ProcessOf \in [Exports -> Processes] /\ Unowned \notin Exports \cup Processes

VARIABLES
    backend,     \* settings.storage_backend
    known,       \* what the database has: "model", its "configs" too, or "gone"
    source,      \* the ingested graph: "none", "small" or "large"
    artifact,    \* the trial's object: "none", "part" or "whole"
    writer,      \* the process that wrote it last
    holder,      \* who holds each process' lock of the model
    export,      \* where each export stands
    answer,      \* what it answered
    fetched,     \* what each download streamed
    purged       \* the DELETE has removed the model's objects

exportVars == <<backend, known, source, artifact, writer, holder, export, answer,
                fetched, purged>>

ExportInit ==
    /\ backend \in {"local", "s3"}
    /\ known \in {"model", "configs"}
    /\ source = IF known = "configs" THEN "small" ELSE "none"
    /\ artifact = "none" /\ writer = Unowned
    /\ holder = [p \in Processes |-> Unowned]
    /\ export = [x \in Exports |-> "idle"]
    /\ answer = [x \in Exports |-> "none"]
    /\ fetched = [g \in Downloads |-> "none"]
    /\ purged = FALSE

Lock(x) == holder[ProcessOf[x]]

Reply(x, what) ==
    /\ answer' = [answer EXCEPT ![x] = what]
    /\ export' = [export EXCEPT ![x] = "done"]

Goto(x, step) ==
    /\ export' = [export EXCEPT ![x] = step]
    /\ answer' = answer

Release(x) == holder' = [holder EXCEPT ![ProcessOf[x]] = Unowned]

\* owned_model and _trial_config: 404 without the model, 409 without the configs.
ReadConfig(x) ==
    /\ export[x] = "idle"
    /\ CASE known = "gone" -> Reply(x, "missing")
         [] known = "model" -> Reply(x, "unavailable")
         [] known = "configs" -> Goto(x, "look")
    /\ UNCHANGED <<backend, known, source, artifact, writer, holder, fetched, purged>>

LookUpExport(x) ==
    /\ export[x] = "look"
    /\ Goto(x, IF artifact = "none" THEN "source" ELSE "read")
    /\ UNCHANGED <<backend, known, source, artifact, writer, holder, fetched, purged>>

LookUpSource(x) ==
    /\ export[x] = "source"
    /\ IF source = "none" THEN Reply(x, "unavailable") ELSE Goto(x, "lock")
    /\ UNCHANGED <<backend, known, source, artifact, writer, holder, fetched, purged>>

AcquireLock(x) ==
    /\ export[x] = "lock" /\ Lock(x) = Unowned
    /\ holder' = [holder EXCEPT ![ProcessOf[x]] = x]
    /\ Goto(x, "recheck")
    /\ UNCHANGED <<backend, known, source, artifact, writer, fetched, purged>>

StillMissingUnchecked == TRUE

StillMissing == artifact = "none"

RecheckExport(x) ==
    /\ export[x] = "recheck"
    /\ IF StillMissing THEN Goto(x, "build") /\ UNCHANGED holder
       ELSE Goto(x, "read") /\ Release(x)
    /\ UNCHANGED <<backend, known, source, artifact, writer, fetched, purged>>

\* The source is read, its size checked, the graph rebuilt.
ReadSource(x) ==
    /\ export[x] = "build"
    /\ CASE source = "none" -> Reply(x, "error") /\ Release(x)
         [] source = "large" -> Reply(x, "too large") /\ Release(x)
         [] source = "small" -> Goto(x, "upload") /\ UNCHANGED holder
    /\ UNCHANGED <<backend, known, source, artifact, writer, fetched, purged>>

\* The first byte of a local file, or the whole of an object.
BeginUpload(x) ==
    /\ export[x] = "upload"
    /\ artifact' = IF backend = "local" THEN "part" ELSE "whole"
    /\ writer' = ProcessOf[x]
    /\ Goto(x, "copy")
    /\ UNCHANGED <<backend, known, source, holder, fetched, purged>>

\* The last byte; the lock is left.  Another process may be in the middle of
\* writing the same file, and a purge may have unlinked it.
EndUpload(x) ==
    /\ export[x] = "copy"
    /\ artifact' \in IF artifact # "part" THEN {artifact}
                     ELSE IF purged \/ \E y \in Exports \ {x} : export[y] = "copy"
                     THEN {"part", "whole"}
                     ELSE {"whole"}
    /\ Goto(x, "read")
    /\ Release(x)
    /\ UNCHANGED <<backend, known, source, writer, fetched, purged>>

\* The bytes are read back: sizeBytes and sha256 are theirs.
ReadBack(x) ==
    /\ export[x] = "read"
    /\ Reply(x, IF artifact = "none" THEN "error" ELSE artifact)
    /\ UNCHANGED <<backend, known, source, artifact, writer, holder, fetched, purged>>

\* 404 unless the model has configs and the object is there.
Download(g) ==
    /\ fetched[g] = "none" /\ known = "configs"
    /\ fetched' = [fetched EXCEPT ![g] = IF artifact = "none" THEN "missing" ELSE artifact]
    /\ UNCHANGED <<backend, known, source, artifact, writer, holder, export, answer, purged>>
-----------------------------------------------------------------------------
(* The worker, the DELETE handler and crashes.                              *)

\* _on_success uploads the graph before it commits the configs.
UploadIngested ==
    /\ known \in {"model", "gone"} /\ source = "none" /\ ~purged
    /\ source' \in {"small", "large"}
    /\ UNCHANGED <<backend, known, artifact, writer, holder, export, answer, fetched, purged>>

CacheConfigs ==
    /\ known = "model" /\ source # "none"
    /\ known' = "configs"
    /\ UNCHANGED <<backend, source, artifact, writer, holder, export, answer, fetched, purged>>

DeleteRows ==
    /\ known # "gone"
    /\ known' = "gone"
    /\ UNCHANGED <<backend, source, artifact, writer, holder, export, answer, fetched, purged>>

PurgeObjects ==
    /\ known = "gone" /\ ~purged
    /\ purged' = TRUE
    /\ source' = "none" /\ artifact' = "none"
    /\ UNCHANGED <<backend, known, writer, holder, export, answer, fetched>>

\* A process dies with its requests and its lock; a file stays as far as it got.
CrashProcess(p) ==
    /\ \E x \in Exports : ProcessOf[x] = p /\ export[x] \notin {"idle", "done"}
    /\ export' = [x \in Exports |->
                    IF ProcessOf[x] = p /\ export[x] # "idle" THEN "done" ELSE export[x]]
    /\ holder' = [holder EXCEPT ![p] = Unowned]
    /\ UNCHANGED <<backend, known, source, artifact, writer, answer, fetched, purged>>

ExportNext ==
    \/ \E x \in Exports :
          \/ ReadConfig(x) \/ LookUpExport(x) \/ LookUpSource(x) \/ AcquireLock(x)
          \/ RecheckExport(x) \/ ReadSource(x) \/ BeginUpload(x) \/ EndUpload(x) \/ ReadBack(x)
    \/ \E g \in Downloads : Download(g)
    \/ UploadIngested \/ CacheConfigs \/ DeleteRows \/ PurgeObjects
    \/ \E p \in Processes : CrashProcess(p)
-----------------------------------------------------------------------------
\* Built once: a process never writes over an artifact it finished, however many
\* requests it serves at once.  (Another process, whose lock is its own, may; and a
\* request may then answer "ready" for half a file.)
BuiltOncePerProcess ==
    [][\A x \in Exports :
          artifact = "whole" /\ export[x] = "upload" /\ export'[x] = "copy"
              => writer' # writer]_exportVars
=============================================================================
