----------------------------- MODULE Telemetry -----------------------------
(***************************************************************************)
(* The closed telemetry loop of one deployment: SDK threads that drain     *)
(* recorded events into a spool on disk and send its segments, an          *)
(* unreliable network, the API handlers that ingest a batch at most once,  *)
(* the purge of their ledger, and the deployment being paused, re-keyed or *)
(* deleted meanwhile.                                                      *)
(*                                                                         *)
(* A batch is numbered in the order its segment is written; the number     *)
(* stands for its batchId and for the place of its file in the listing.    *)
(* Snapshots and windows travel as events do and are not told apart.       *)
(***************************************************************************)
EXTENDS Integers, FiniteSets

CONSTANTS
    MaxEvents,     \* events recorded (bound of the model)
    MaxBatches,    \* segments written (bound of the model)
    MaxTime,       \* clock (bound of the model)
    Senders,       \* threads and processes that flush the same spool
    Handlers,      \* concurrent requests in the API
    QueueMax,      \* _QUEUE_MAX
    BatchMax,      \* _BATCH_MAX
    SpoolMax,      \* _SPOOL_MAX_BYTES, in segments
    ServerMax,     \* settings.telemetry_batch_max
    Skews,         \* how far a client's clock may be off
    PastClamp,     \* _PAST_CLAMP
    FutureClamp,   \* _FUTURE_CLAMP
    LedgerDays,    \* settings.processed_batch_retention_days
    Nobody         \* no handler, no time

Events == 1 .. MaxEvents
Batches == 1 .. MaxBatches

ASSUME TelemetryAssumption ==
    /\ MaxEvents \in Nat /\ MaxBatches \in Nat /\ MaxTime \in Nat
    /\ QueueMax \in Nat \ {0} /\ BatchMax \in Nat \ {0}
    /\ SpoolMax \in Nat /\ ServerMax \in Nat
    /\ Skews \subseteq Int
    /\ PastClamp \in Nat /\ FutureClamp \in Nat /\ LedgerDays \in Nat
    /\ Nobody \notin Handlers /\ Nobody \notin Int

VARIABLES
    now,         \* the server's clock
    recorded,    \* number of events recorded so far
    ts,          \* the client's timestamp of each event
    queue,       \* events in the reporter's deque
    hand,        \* events a sender has drained and not yet written
    content,     \* events of each batch
    written,     \* number of segments written so far
    spool,       \* segments on disk
    todo,        \* the rest of the listing a sender works through
    at,          \* the request a sender waits for
    pc,          \* where each handler stands
    batch,       \* the batch it received
    answer,      \* what it answered
    ledger,      \* received_at of each processed batch
    times,       \* how often each event was inserted
    dropped,     \* events the SDK gave up for lack of room, or in a crash
    rejected,    \* events of segments the server refused for good
    expired,     \* events the server dropped for their timestamp
    dep,         \* the deployment: "live", "paused" or "gone"
    key,         \* is the key this client holds live
    clientUp,    \* is the SDK process up
    online       \* does the network carry requests and answers

client == <<recorded, ts, queue, hand, content, written>>
sending == <<spool, todo, at>>
server == <<pc, batch, answer, ledger, times>>
fate == <<dropped, rejected, expired>>
world == <<now, dep, key, clientUp, online>>
vars == <<client, sending, server, fate, world>>

Init ==
    /\ now = 0
    /\ recorded = 0
    /\ ts = [e \in Events |-> 0]
    /\ queue = {}
    /\ hand = [s \in Senders |-> {}]
    /\ content = [b \in Batches |-> {}]
    /\ written = 0
    /\ spool = {}
    /\ todo = [s \in Senders |-> {}]
    /\ at = [s \in Senders |-> Nobody]
    /\ pc = [h \in Handlers |-> "idle"]
    /\ batch = [h \in Handlers |-> 0]
    /\ answer = [h \in Handlers |-> "none"]
    /\ ledger = [b \in Batches |-> Nobody]
    /\ times = [e \in Events |-> 0]
    /\ dropped = {} /\ rejected = {} /\ expired = {}
    /\ dep = "live"
    /\ key = TRUE
    /\ clientUp = TRUE
    /\ online = TRUE

Oldest(S) == {x \in S : \A y \in S : x <= y}
EventsOf(B) == UNION {content[b] : b \in B}
-----------------------------------------------------------------------------
(* The SDK.                                                                 *)

RecordEvent ==
    /\ clientUp /\ recorded < MaxEvents
    /\ recorded' = recorded + 1
    /\ \E skew \in Skews : ts' = [ts EXCEPT ![recorded + 1] = now + skew]
    /\ LET out == IF Cardinality(queue) = QueueMax THEN Oldest(queue) ELSE {}
       IN  /\ queue' = (queue \ out) \cup {recorded + 1}
           /\ dropped' = dropped \cup out
    /\ UNCHANGED <<hand, content, written, sending, server, rejected, expired,
                   world>>

Resting(s) == clientUp /\ hand[s] = {} /\ todo[s] = {} /\ at[s] = Nobody

DrainAll(s) ==
    /\ Resting(s) /\ queue # {}
    /\ hand' = [hand EXCEPT ![s] = queue]
    /\ queue' = {}
    /\ UNCHANGED <<recorded, ts, content, written, sending, server, fate, world>>

\* The oldest events, as many as one batch may hold.
DrainToBatch(s) ==
    /\ Resting(s) /\ queue # {}
    /\ \E part \in SUBSET queue :
          /\ part # {} /\ Cardinality(part) <= BatchMax
          /\ Cardinality(part) < BatchMax => part = queue
          /\ \A x \in part, y \in queue \ part : x < y
          /\ hand' = [hand EXCEPT ![s] = part]
          /\ queue' = queue \ part
    /\ UNCHANGED <<recorded, ts, content, written, sending, server, fate, world>>

\* The segment is numbered before the counter moves.
SpoolWriteUncounted(s) ==
    /\ clientUp /\ hand[s] # {} /\ written < MaxBatches
    /\ spool' = spool \cup {written}
    /\ written' = written + 1
    /\ content' = [content EXCEPT ![written] = hand[s]]
    /\ hand' = [hand EXCEPT ![s] = {}]
    /\ todo' = [todo EXCEPT ![s] = spool']
    /\ UNCHANGED <<recorded, ts, queue, at, server, fate, world>>

\* The spool is brought under its cap, then the segment is added; what is
\* there now is listed for sending.
SpoolWrite(s) ==
    /\ clientUp /\ hand[s] # {} /\ written < MaxBatches
    /\ \E out \in SUBSET spool :
          /\ \A x \in out, y \in spool \ out : x < y
          /\ Cardinality(spool \ out) <= SpoolMax
          /\ out # {} => Cardinality(spool \ out) = SpoolMax
          /\ spool' = (spool \ out) \cup {written + 1}
          /\ dropped' = dropped \cup EventsOf(out)
    /\ written' = written + 1
    /\ content' = [content EXCEPT ![written + 1] = hand[s]]
    /\ hand' = [hand EXCEPT ![s] = {}]
    /\ todo' = [todo EXCEPT ![s] = spool']
    /\ UNCHANGED <<recorded, ts, queue, at, server, rejected, expired, world>>

ListIfRecording(s) ==
    /\ Resting(s) /\ queue # {} /\ spool # {}
    /\ todo' = [todo EXCEPT ![s] = spool]
    /\ UNCHANGED <<client, spool, at, server, fate, world>>

\* A flush with nothing to drain: list what is left from before.
ListSpool(s) ==
    /\ Resting(s) /\ queue = {} /\ spool # {}
    /\ todo' = [todo EXCEPT ![s] = spool]
    /\ UNCHANGED <<client, spool, at, server, fate, world>>

SkipMissing(s) ==
    /\ clientUp /\ at[s] = Nobody
    /\ \E b \in Oldest(todo[s]) \ spool : todo' = [todo EXCEPT ![s] = @ \ {b}]
    /\ UNCHANGED <<client, spool, at, server, fate, world>>

SendBatch(s) ==
    /\ clientUp /\ at[s] = Nobody
    /\ \E b \in Oldest(todo[s]) \cap spool, h \in Handlers :
          /\ pc[h] = "idle"
          /\ pc' = [pc EXCEPT ![h] = "arrived"]
          /\ batch' = [batch EXCEPT ![h] = b]
          /\ at' = [at EXCEPT ![s] = h]
    /\ UNCHANGED <<client, spool, todo, answer, ledger, times, fate, world>>

FinishedAnyway(reply) == TRUE

\* Delete the segment after an answer that no retry would change, otherwise
\* keep it and stop.
Finished(reply) == reply \in {"ack", "never"}

ReceiveAnswer(s) ==
    LET h == at[s]
        b == batch[h]
    IN  /\ clientUp /\ h # Nobody
        /\ pc[h] = "answered"
        /\ pc' = [pc EXCEPT ![h] = "idle"]
        /\ batch' = [batch EXCEPT ![h] = 0]
        /\ answer' = [answer EXCEPT ![h] = "none"]
        /\ at' = [at EXCEPT ![s] = Nobody]
        /\ IF Finished(answer[h])
           THEN /\ spool' = spool \ {b}
                /\ todo' = [todo EXCEPT ![s] = @ \ {b}]
           ELSE /\ spool' = spool
                /\ todo' = [todo EXCEPT ![s] = {}]
        /\ rejected' = IF answer[h] = "never" THEN rejected \cup content[b]
                       ELSE rejected
        /\ UNCHANGED <<client, ledger, times, dropped, expired, world>>

\* A request or its answer is lost or late.  The handler may go on alone.
GiveUp(s) ==
    LET h == at[s]
    IN  /\ clientUp /\ ~online /\ h # Nobody
        /\ at' = [at EXCEPT ![s] = Nobody]
        /\ todo' = [todo EXCEPT ![s] = {}]
        /\ \E lost \in BOOLEAN :
              IF pc[h] = "answered" \/ (pc[h] = "arrived" /\ lost)
              THEN /\ pc' = [pc EXCEPT ![h] = "idle"]
                   /\ batch' = [batch EXCEPT ![h] = 0]
                   /\ answer' = [answer EXCEPT ![h] = "none"]
              ELSE UNCHANGED <<pc, batch, answer>>
        /\ UNCHANGED <<client, spool, ledger, times, fate, world>>

\* ... or the same batch is posted again, whatever became of its segment.
Resend(s) ==
    LET h == at[s]
    IN  /\ clientUp /\ ~online /\ h # Nobody
        /\ \E g \in Handlers :
              /\ pc[g] = "idle" /\ pc[h] # "idle"
              /\ at' = [at EXCEPT ![s] = g]
              /\ IF pc[h] = "answered"
                 THEN /\ pc' = [pc EXCEPT ![g] = "arrived", ![h] = "idle"]
                      /\ batch' = [batch EXCEPT ![g] = batch[h], ![h] = 0]
                      /\ answer' = [answer EXCEPT ![h] = "none"]
                 ELSE /\ pc' = [pc EXCEPT ![g] = "arrived"]
                      /\ batch' = [batch EXCEPT ![g] = batch[h]]
                      /\ answer' = answer
        /\ UNCHANGED <<client, spool, todo, ledger, times, fate, world>>

\* The process dies: what was not yet written is gone, the spool stays.
ClientCrash ==
    /\ clientUp
    /\ clientUp' = FALSE
    /\ dropped' = dropped \cup queue \cup UNION {hand[s] : s \in Senders}
    /\ queue' = {}
    /\ hand' = [s \in Senders |-> {}]
    /\ todo' = [s \in Senders |-> {}]
    /\ at' = [s \in Senders |-> Nobody]
    /\ pc' = [h \in Handlers |-> IF pc[h] = "answered" THEN "idle" ELSE pc[h]]
    /\ batch' = [h \in Handlers |-> IF pc[h] = "answered" THEN 0 ELSE batch[h]]
    /\ answer' = [h \in Handlers |-> "none"]
    /\ UNCHANGED <<recorded, ts, content, written, spool, ledger, times,
                   rejected, expired, now, dep, key, online>>

\* ... and is started again, with its old key or with a fresh one.
ClientStart ==
    /\ ~clientUp
    /\ clientUp' = TRUE
    /\ key' \in IF dep = "gone" THEN {key} ELSE {key, TRUE}
    /\ UNCHANGED <<client, sending, server, fate, now, dep, online>>
-----------------------------------------------------------------------------
(* The API.                                                                 *)

Answer(h, reply) ==
    IF \E s \in Senders : at[s] = h
    THEN /\ pc' = [pc EXCEPT ![h] = "answered"]
         /\ answer' = [answer EXCEPT ![h] = reply]
         /\ batch' = batch
    ELSE /\ pc' = [pc EXCEPT ![h] = "idle"]
         /\ answer' = [answer EXCEPT ![h] = "none"]
         /\ batch' = [batch EXCEPT ![h] = 0]

Proceed(h, to) ==
    /\ pc' = [pc EXCEPT ![h] = to]
    /\ UNCHANGED <<batch, answer>>

\* 401, 404, 409, 422, in this order.
Resolve(h) ==
    /\ pc[h] = "arrived"
    /\ CASE ~key -> Answer(h, "later")
         [] key /\ dep = "gone" -> Answer(h, "never")
         [] key /\ dep = "paused" -> Answer(h, "later")
         [] key /\ dep = "live" ->
              IF Cardinality(content[batch[h]]) > ServerMax
              THEN Answer(h, "never") ELSE Proceed(h, "admitted")
    /\ UNCHANGED <<client, sending, ledger, times, fate, world>>

LookUpBatch(h) ==
    /\ pc[h] = "admitted"
    /\ IF ledger[batch[h]] # Nobody THEN Answer(h, "ack") ELSE Proceed(h, "ready")
    /\ UNCHANGED <<client, sending, ledger, times, fate, world>>

ValidTs(e) == now - PastClamp <= ts[e] /\ ts[e] <= now + FutureClamp

\* The rows and the ledger entry in one transaction; the entry's key decides
\* between concurrent requests.  Moving last_event_at of a deployment deleted
\* meanwhile fails the transaction.
CommitBatch(h) ==
    LET b == batch[h]
        good == {e \in content[b] : ValidTs(e)}
    IN  /\ pc[h] = "ready"
        /\ \/ /\ ledger[b] # Nobody
              /\ Answer(h, "ack")
              /\ UNCHANGED <<times, ledger, expired>>
           \/ /\ ledger[b] = Nobody /\ dep = "gone" /\ good # {}
              /\ Answer(h, "later")
              /\ UNCHANGED <<times, ledger, expired>>
           \/ /\ ledger[b] = Nobody
              /\ Answer(h, "ack")
              /\ times' = [e \in Events |-> times[e] + IF e \in good THEN 1 ELSE 0]
              /\ ledger' = [ledger EXCEPT ![b] = now]
              /\ expired' = expired \cup (content[b] \ good)
        /\ UNCHANGED <<client, sending, dropped, rejected, world>>

PurgeEarly ==
    /\ \E b \in Batches : ledger[b] # Nobody /\ ledger[b] <= now - LedgerDays
    /\ ledger' = [b \in Batches |->
                    IF ledger[b] # Nobody /\ ledger[b] <= now - LedgerDays
                    THEN Nobody ELSE ledger[b]]
    /\ UNCHANGED <<client, sending, pc, batch, answer, times, fate, world>>

PurgeLedger ==
    /\ \E b \in Batches : ledger[b] # Nobody /\ ledger[b] < now - LedgerDays
    /\ ledger' = [b \in Batches |->
                    IF ledger[b] # Nobody /\ ledger[b] < now - LedgerDays
                    THEN Nobody ELSE ledger[b]]
    /\ UNCHANGED <<client, sending, pc, batch, answer, times, fate, world>>

\* The API dies between any two steps: its callers see a broken connection.
ServerCrash ==
    /\ \E h \in Handlers : pc[h] # "idle"
    /\ pc' = [h \in Handlers |-> "idle"]
    /\ batch' = [h \in Handlers |-> 0]
    /\ answer' = [h \in Handlers |-> "none"]
    /\ at' = [s \in Senders |-> Nobody]
    /\ todo' = [s \in Senders |-> IF at[s] = Nobody THEN todo[s] ELSE {}]
    /\ online' = FALSE
    /\ UNCHANGED <<client, spool, ledger, times, fate, now, dep, key, clientUp>>
-----------------------------------------------------------------------------
(* The deployment, the network and time.                                    *)

PauseOrResume ==
    /\ dep \in {"live", "paused"}
    /\ dep' = IF dep = "live" THEN "paused" ELSE "live"
    /\ UNCHANGED <<client, sending, server, fate, now, key, clientUp, online>>

\* rotate-key, or the first commit of the deployment's DELETE.
RevokeKeys ==
    /\ key
    /\ key' = FALSE
    /\ UNCHANGED <<client, sending, server, fate, now, dep, clientUp, online>>

\* The second commit of the deployment's DELETE, or the model's DELETE.
RemoveDeployment ==
    /\ dep # "gone"
    /\ dep' = "gone"
    /\ UNCHANGED <<client, sending, server, fate, now, key, clientUp, online>>

Connectivity ==
    /\ online' = ~online
    /\ UNCHANGED <<client, sending, server, fate, now, dep, key, clientUp>>

\* A transaction is short: the clock does not advance inside one.
Tick ==
    /\ now < MaxTime
    /\ \A h \in Handlers : pc[h] # "ready"
    /\ now' = now + 1
    /\ UNCHANGED <<client, sending, server, fate, dep, key, clientUp, online>>
-----------------------------------------------------------------------------
Sender(s) ==
    \/ DrainToBatch(s) \/ SpoolWrite(s) \/ ListSpool(s) \/ SkipMissing(s)
    \/ SendBatch(s) \/ ReceiveAnswer(s)

Handler(h) == Resolve(h) \/ LookUpBatch(h) \/ CommitBatch(h)

Next ==
    \/ RecordEvent
    \/ \E s \in Senders : Sender(s) \/ GiveUp(s) \/ Resend(s)
    \/ \E h \in Handlers : Handler(h)
    \/ ClientCrash \/ ClientStart
    \/ ServerCrash \/ PurgeLedger
    \/ PauseOrResume \/ RevokeKeys \/ RemoveDeployment
    \/ Connectivity \/ Tick

Spec == Init /\ [][Next]_vars

\* The reporter's loop flushes again and again, and a request that arrived is
\* worked on to its end.
Fairness ==
    /\ \A s \in Senders : WF_vars(Sender(s))
    /\ \A h \in Handlers : WF_vars(Handler(h))

FairSpec == Spec /\ Fairness
-----------------------------------------------------------------------------
(* What must hold.                                                          *)

TypeOK ==
    /\ now \in Nat
    /\ recorded \in Nat
    /\ ts \in [Events -> Int]
    /\ queue \subseteq Events
    /\ hand \in [Senders -> SUBSET Events]
    /\ content \in [Batches -> SUBSET Events]
    /\ written \in 0 .. MaxBatches
    /\ spool \subseteq Batches
    /\ todo \in [Senders -> SUBSET Batches]
    /\ at \in [Senders -> Handlers \cup {Nobody}]
    /\ pc \in [Handlers -> {"idle", "arrived", "admitted", "ready", "answered"}]
    /\ batch \in [Handlers -> Batches \cup {0}]
    /\ \A h \in Handlers : pc[h] # "idle" => batch[h] \in Batches
    /\ answer \in [Handlers -> {"none", "ack", "later", "never"}]
    /\ ledger \in [Batches -> Nat \cup {Nobody}]
    /\ times \in [Events -> Nat]
    /\ dropped \subseteq Events /\ rejected \subseteq Events /\ expired \subseteq Events
    /\ dep \in {"live", "paused", "gone"}
    /\ key \in BOOLEAN /\ clientUp \in BOOLEAN /\ online \in BOOLEAN

\* An event is inserted at most once, however often its segment is sent, by
\* however many threads or processes, before or after the ledger forgets it.
NoDoubleCount == \A e \in Events : times[e] <= 1

\* An event that reached the disk is still there, or was inserted, or is lost
\* for a reason the SDK or the server counted: never in silence.
SpooledAccounted ==
    \A b \in 1 .. written : \A e \in content[b] :
        \/ b \in spool
        \/ times[e] > 0
        \/ e \in dropped \cup rejected \cup expired

\* The SDK gives no segment up while the deployment exists: neither a pause nor
\* a rotated key nor the size of a batch makes the server refuse it for good.
RejectedOnlyWhenGone == rejected # {} => dep = "gone"

\* Once the network, the client and its deployment stay up, every segment
\* leaves the spool: nothing blocks the head of the line.
RecoveredSpoolDrains ==
    <>[](online /\ clientUp /\ key /\ dep = "live")
        => \A b \in Batches : []<>(b \notin spool)

\* Once the deployment is gone for good, too, if the client can reach the API.
GoneSpoolDrains ==
    <>[](online /\ clientUp /\ dep = "gone") => []<>(spool = {})
=============================================================================
