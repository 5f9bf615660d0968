---------------------------- MODULE Deployments ----------------------------
(***************************************************************************)
(* The deployments of one compressed model and their API keys: the         *)
(* handlers that create and delete a deployment, rotate its key, pause and *)
(* resume it, the deletion of the model under them, and the repair of the  *)
(* deploy badge when the API starts.                                       *)
(*                                                                         *)
(* Handlers run concurrently on the API's threads.  One action is one      *)
(* transaction's reads or its commit.  A commit writes only the attributes *)
(* that differ from what the handler read (the ORM's unit of work), so a   *)
(* value another handler wrote meanwhile may survive it.                   *)
(***************************************************************************)
EXTENDS Naturals

CONSTANTS
    Ids,         \* deployment ids the API may hand out
    Legacy,      \* those a model from before the badge fix may already have
    Rotations,   \* rotate-key requests
    Target       \* the deployment each of them is for

ASSUME DeploymentsAssumption ==
    /\ Legacy \subseteq Ids
    /\ Target \in [Rotations -> Ids]
    /\ "create" \notin Rotations

VARIABLES
    model,      \* models.status; "none": no row
    flag,       \* models.is_deployed
    dep,        \* deployments.status ("serving": live or canary); "absent"
                \* before and "gone" after the row
    issued,     \* key rows, by deployment and the request that issued them
    live,       \* key rows that are not revoked
    create,     \* where the POST handler of a deployment stands
    delete,     \* where its DELETE handler stands
    rotate,     \* where each rotate-key handler stands
    seen,       \* the model row as the deployment's handler read it
    found,      \* the key rows its DELETE handler read
    old,        \* the key rows each rotate-key handler read
    purge,      \* where the DELETE handler of the model stands
    doomed,     \* the deployments its DELETE statement found
    apiUp,      \* is the API process up
    cut         \* has a crash cut a request between two of its commits

requests == <<create, delete, rotate, seen, found, old, purge, doomed>>
vars == <<model, flag, dep, issued, live, requests, apiUp, cut>>

Rows == {"serving", "paused"}
Unread == [status |-> "none", flag |-> FALSE]
Exists(d) == dep[d] \in Rows
KeysOf(d) == {k \in Rotations \cup {"create"} : <<d, k>> \in issued}
Revoke(d, keys) == live \ ({d} \X keys)

Init ==
    /\ model = "draft"
    /\ \E kept \in SUBSET Legacy :
          /\ flag = (kept # {})
          /\ dep = [d \in Ids |-> IF d \in kept THEN "serving" ELSE "absent"]
          /\ create = [d \in Ids |-> IF d \in kept THEN "done" ELSE "no"]
          /\ issued = kept \X {"create"}
    /\ live = issued
    /\ delete = [d \in Ids |-> "no"]
    /\ rotate = [r \in Rotations |-> "no"]
    /\ seen = [d \in Ids |-> Unread]
    /\ found = [d \in Ids |-> {}]
    /\ old = [r \in Rotations |-> {}]
    /\ purge = "no"
    /\ doomed = {}
    /\ apiUp = FALSE
    /\ cut = FALSE

SetsFlagOnly(d, status, deployed) ==
    /\ model' = model
    /\ flag' = IF seen[d].flag = deployed THEN flag ELSE deployed

\* A handler of deployment d sets the model's two badge attributes.
Sets(d, status, deployed) ==
    /\ model' = IF seen[d].status = status THEN model ELSE status
    /\ flag' = IF seen[d].flag = deployed THEN flag ELSE deployed

\* It needs an UPDATE, and the row is gone: StaleDataError.
Stale(d, status, deployed) ==
    /\ model = "none"
    /\ seen[d].status # status \/ seen[d].flag # deployed

ReadModel(d) == seen' = [seen EXCEPT ![d] = [status |-> model, flag |-> flag]]
Forget(d) == seen' = [seen EXCEPT ![d] = Unread]
-----------------------------------------------------------------------------
(* POST /models/{id}/deployments                                            *)

CreateRead(d) ==
    /\ apiUp /\ create[d] = "no" /\ model # "none"
    /\ create' = [create EXCEPT ![d] = "read"]
    /\ ReadModel(d)
    /\ UNCHANGED <<model, flag, dep, issued, live, delete, rotate, found, old,
                   purge, doomed, apiUp, cut>>

CreateCommit(d) ==
    /\ apiUp /\ create[d] = "read" /\ ~Stale(d, "deployed", TRUE)
    /\ create' = [create EXCEPT ![d] = "issue"]
    /\ dep' = [dep EXCEPT ![d] = "serving"]
    /\ Sets(d, "deployed", TRUE)
    /\ Forget(d)
    /\ UNCHANGED <<issued, live, delete, rotate, found, old, purge, doomed,
                   apiUp, cut>>

CreateStale(d) ==
    /\ apiUp /\ create[d] = "read" /\ Stale(d, "deployed", TRUE)
    /\ create' = [create EXCEPT ![d] = "failed"]
    /\ Forget(d)
    /\ UNCHANGED <<model, flag, dep, issued, live, delete, rotate, found, old,
                   purge, doomed, apiUp, cut>>

IssueUnsaved(d, k) ==
    /\ issued' = issued
    /\ live' = live \cup {<<d, k>>}

IssueKey(d, k) ==
    /\ issued' = issued \cup {<<d, k>>}
    /\ live' = live \cup {<<d, k>>}

CreateIssue(d) ==
    /\ apiUp /\ create[d] = "issue"
    /\ create' = [create EXCEPT ![d] = "done"]
    /\ IssueKey(d, "create")
    /\ UNCHANGED <<model, flag, dep, delete, rotate, seen, found, old, purge,
                   doomed, apiUp, cut>>
-----------------------------------------------------------------------------
(* DELETE /deployments/{id}                                                 *)

DeleteRead(d) ==
    /\ apiUp /\ delete[d] = "no" /\ Exists(d)
    /\ delete' = [delete EXCEPT ![d] = "keys"]
    /\ found' = [found EXCEPT ![d] = KeysOf(d)]
    /\ UNCHANGED <<model, flag, dep, issued, live, create, rotate, seen, old,
                   purge, doomed, apiUp, cut>>

RevokeKeys(d) ==
    /\ apiUp /\ delete[d] = "keys"
    /\ delete' = [delete EXCEPT ![d] = "row"]
    /\ live' = Revoke(d, found[d])
    /\ UNCHANGED <<model, flag, dep, issued, create, rotate, seen, found, old,
                   purge, doomed, apiUp, cut>>

\* When keys were revoked, that commit expired the row object: reloading it
\* fails if the row is gone.  With no commit the DELETE just matches nothing.
DropRow(d) ==
    /\ apiUp /\ delete[d] = "row"
    /\ delete' = [delete EXCEPT ![d] = IF Exists(d) \/ found[d] = {}
                                       THEN "count" ELSE "failed"]
    /\ dep' = [dep EXCEPT ![d] = "gone"]
    /\ found' = [found EXCEPT ![d] = {}]
    /\ UNCHANGED <<model, flag, issued, live, create, rotate, seen, old, purge,
                   doomed, apiUp, cut>>

\* The count still sees the row this handler deletes.
CountUnflushed(d) ==
    /\ apiUp /\ delete[d] = "count"
    /\ delete' = [delete EXCEPT ![d] = IF \E e \in Ids : Exists(e) \/ e = d
                                       THEN "done" ELSE "empty"]
    /\ UNCHANGED <<model, flag, dep, issued, live, create, rotate, seen, found,
                   old, purge, doomed, apiUp, cut>>

CountRemaining(d) ==
    /\ apiUp /\ delete[d] = "count"
    /\ delete' = [delete EXCEPT ![d] = IF \E e \in Ids : Exists(e)
                                       THEN "done" ELSE "empty"]
    /\ UNCHANGED <<model, flag, dep, issued, live, create, rotate, seen, found,
                   old, purge, doomed, apiUp, cut>>

ReleaseRead(d) ==
    /\ apiUp /\ delete[d] = "empty"
    /\ IF model = "none"
       THEN /\ delete' = [delete EXCEPT ![d] = "done"]
            /\ seen' = seen
       ELSE /\ delete' = [delete EXCEPT ![d] = "release"]
            /\ ReadModel(d)
    /\ UNCHANGED <<model, flag, dep, issued, live, create, rotate, found, old,
                   purge, doomed, apiUp, cut>>

ReleaseCommit(d) ==
    LET status == IF seen[d].status = "deployed" THEN "draft" ELSE seen[d].status
    IN  /\ apiUp /\ delete[d] = "release"
        /\ IF Stale(d, status, FALSE)
           THEN /\ delete' = [delete EXCEPT ![d] = "failed"]
                /\ UNCHANGED <<model, flag>>
           ELSE /\ delete' = [delete EXCEPT ![d] = "done"]
                /\ Sets(d, status, FALSE)
        /\ Forget(d)
        /\ UNCHANGED <<dep, issued, live, create, rotate, found, old, purge,
                       doomed, apiUp, cut>>
-----------------------------------------------------------------------------
(* POST /deployments/{id}/rotate-key, /pause and /resume                    *)

RotateRead(r) ==
    /\ apiUp /\ rotate[r] = "no" /\ Exists(Target[r])
    /\ rotate' = [rotate EXCEPT ![r] = "keys"]
    /\ old' = [old EXCEPT ![r] = KeysOf(Target[r])]
    /\ UNCHANGED <<model, flag, dep, issued, live, create, delete, seen, found,
                   purge, doomed, apiUp, cut>>

\* Revoke only the key the deployment was created with.
RotateRevokeFirst(r) ==
    /\ apiUp /\ rotate[r] = "keys"
    /\ rotate' = [rotate EXCEPT ![r] = "issue"]
    /\ live' = Revoke(Target[r], old[r] \cap {"create"})
    /\ UNCHANGED <<model, flag, dep, issued, create, delete, seen, found, old,
                   purge, doomed, apiUp, cut>>

RotateRevoke(r) ==
    /\ apiUp /\ rotate[r] = "keys"
    /\ rotate' = [rotate EXCEPT ![r] = "issue"]
    /\ live' = Revoke(Target[r], old[r])
    /\ UNCHANGED <<model, flag, dep, issued, create, delete, seen, found, old,
                   purge, doomed, apiUp, cut>>

\* Issue first, then revoke every key of the deployment.
RotateRevokeLast(r) ==
    /\ apiUp /\ rotate[r] = "issue"
    /\ rotate' = [rotate EXCEPT ![r] = "done"]
    /\ issued' = issued \cup {<<Target[r], r>>}
    /\ live' = Revoke(Target[r], KeysOf(Target[r]))
    /\ UNCHANGED <<model, flag, dep, create, delete, seen, found, old, purge,
                   doomed, apiUp, cut>>

RotateIssue(r) ==
    /\ apiUp /\ rotate[r] = "issue"
    /\ rotate' = [rotate EXCEPT ![r] = "done"]
    /\ IssueKey(Target[r], r)
    /\ UNCHANGED <<model, flag, dep, create, delete, seen, found, old, purge,
                   doomed, apiUp, cut>>

SetStatus(d, status) ==
    /\ apiUp /\ Exists(d)
    /\ dep' = [dep EXCEPT ![d] = status]
    /\ UNCHANGED <<model, flag, issued, live, requests, apiUp, cut>>

Pause(d) == SetStatus(d, "paused")
Resume(d) == SetStatus(d, "serving")
-----------------------------------------------------------------------------
(* DELETE /models/{id}: the statement that finds the deployments runs       *)
(* before the commit that removes them and the model.                       *)

PurgeRead ==
    /\ apiUp /\ purge = "no" /\ model # "none"
    /\ purge' = "found"
    /\ doomed' = {d \in Ids : Exists(d)}
    /\ UNCHANGED <<model, flag, dep, issued, live, create, delete, rotate, seen,
                   found, old, apiUp, cut>>

PurgeCommit ==
    /\ apiUp /\ purge = "found"
    /\ purge' = "done"
    /\ model' = "none"
    /\ flag' = FALSE
    /\ dep' = [d \in Ids |-> IF d \in doomed THEN "gone" ELSE dep[d]]
    /\ doomed' = {}
    /\ UNCHANGED <<issued, live, create, delete, rotate, seen, found, old,
                   apiUp, cut>>
-----------------------------------------------------------------------------
(* The API process.                                                         *)

Halfway ==
    \/ \E d \in Ids : \/ create[d] = "issue"
                      \/ delete[d] \in {"row", "count", "empty", "release"}
    \/ \E r \in Rotations : rotate[r] = "issue"

Drop(pc, initial, running) == IF pc \in running THEN initial ELSE pc

ApiCrash ==
    /\ apiUp
    /\ apiUp' = FALSE
    /\ cut' = (cut \/ Halfway)
    /\ create' = [d \in Ids |-> Drop(create[d], "failed", {"read", "issue"})]
    /\ delete' = [d \in Ids |-> Drop(delete[d], "no",
                                     {"keys", "row", "count", "empty", "release"})]
    /\ rotate' = [r \in Rotations |-> Drop(rotate[r], "failed", {"keys", "issue"})]
    /\ purge' = Drop(purge, "no", {"found"})
    /\ seen' = [d \in Ids |-> Unread]
    /\ found' = [d \in Ids |-> {}]
    /\ doomed' = {}
    /\ UNCHANGED <<model, flag, dep, issued, live, old>>

ReconcileDeployStatus ==
    model' = IF flag /\ model = "draft" THEN "deployed" ELSE model

ApiStart ==
    /\ ~apiUp
    /\ apiUp' = TRUE
    /\ ReconcileDeployStatus
    /\ UNCHANGED <<flag, dep, issued, live, requests, cut>>
-----------------------------------------------------------------------------
Handler(d) ==
    \/ CreateRead(d) \/ CreateCommit(d) \/ CreateStale(d) \/ CreateIssue(d)
    \/ DeleteRead(d) \/ RevokeKeys(d) \/ DropRow(d)
    \/ CountRemaining(d) \/ ReleaseRead(d) \/ ReleaseCommit(d)
    \/ Pause(d) \/ Resume(d)

Next ==
    \/ \E d \in Ids : Handler(d)
    \/ \E r \in Rotations : RotateRead(r) \/ RotateRevoke(r) \/ RotateIssue(r)
    \/ PurgeRead \/ PurgeCommit
    \/ ApiCrash \/ ApiStart

Spec == Init /\ [][Next]_vars
-----------------------------------------------------------------------------
(* What must hold.                                                          *)

Issuers == Rotations \cup {"create"}
ModelStatuses == {"draft", "deployed", "none"}

TypeOK ==
    /\ model \in ModelStatuses
    /\ flag \in BOOLEAN
    /\ dep \in [Ids -> Rows \cup {"absent", "gone"}]
    /\ issued \subseteq Ids \X Issuers
    /\ live \subseteq issued
    /\ create \in [Ids -> {"no", "read", "issue", "done", "failed"}]
    /\ delete \in [Ids -> {"no", "keys", "row", "count", "empty", "release",
                           "done", "failed"}]
    /\ rotate \in [Rotations -> {"no", "keys", "issue", "done", "failed"}]
    /\ seen \in [Ids -> [status : ModelStatuses, flag : BOOLEAN]]
    /\ found \in [Ids -> SUBSET Issuers]
    /\ old \in [Rotations -> SUBSET Issuers]
    /\ purge \in {"no", "found", "done"}
    /\ doomed \subseteq Ids
    /\ apiUp \in BOOLEAN
    /\ cut \in BOOLEAN

\* While the API serves, the badge ("deployed") and the is_deployed flag agree,
\* whatever handlers interleave and whatever row an older version left behind.
FlagAgrees ==
    apiUp /\ model # "none" => (flag <=> model = "deployed")

\* A model that reads "deployed" has a deployment, unless a crash cut a request
\* short or the DELETE of its last deployment is still under way.
BadgeHasDeployment ==
    /\ ~cut /\ model = "deployed"
    /\ \A d \in Ids : delete[d] \notin {"count", "empty", "release"}
    => \E d \in Ids : Exists(d)

\* Nobody is locked out of a deployment that stays: when its create and rotate
\* requests have run to their end, in whatever order, some key still opens it.
NoLockout ==
    \A d \in Ids :
        /\ ~cut /\ Exists(d)
        /\ create[d] = "done"
        /\ delete[d] \in {"no", "keys"}
        /\ \A r \in Rotations : Target[r] = d => rotate[r] # "issue"
        => \E k \in Issuers : <<d, k>> \in live

\* When rotate-key has answered, no key that existed when it started works.
RotationRetiresKeys ==
    \A r \in Rotations :
        rotate[r] = "done" => \A k \in old[r] : <<Target[r], k>> \notin live

\* A model with a live deployment reads "deployed".
LiveDeploymentReadsDeployed ==
    apiUp /\ model # "none" /\ (\E d \in Ids : dep[d] = "serving")
        => model = "deployed"
=============================================================================
