------------------------------ MODULE Monitor ------------------------------
(***************************************************************************)
(* The drift monitor.  A pass works through all deployments in one         *)
(* transaction: it reads a window of their events, refreshes their metrics *)
(* and their per-minute rollups, and raises alerts; the purge of old rows  *)
(* follows in a transaction of its own.  Passes may overlap: the API's     *)
(* loop, the worker's cron and /simulate all run them.                     *)
(*                                                                         *)
(* A pass sees what others committed and what it wrote itself.  Of a row   *)
(* it writes only the columns that differ from what it read (the ORM's     *)
(* unit of work), and holds the row from then on to its commit.            *)
(***************************************************************************)
EXTENDS Integers, Sequences, FiniteSets, SequencesExt

CONSTANTS
    Watched,       \* deployments
    Fleets,        \* which of them may exist together
    Reporting,     \* those whose client ships windows
    Managed,       \* those that are paused, resumed or deleted meanwhile
    ModelOf,       \* the model of each
    Baseline,      \* p95 of the model's benchmark; 0: none
    Divergence,    \* 100 - agreementPct of the benchmark
    Answered,      \* what a request may come to: [ms, ok]
    Stats,         \* what a client's window may report: [mix, mean]
    MaxPasses,     \* passes (bound of the model)
    MaxClock,      \* clock (bound of the model)
    Lags,          \* how late a row may arrive
    MaxRows,       \* events and windows received (bound of the model)
    Minute,        \* ticks in a rollup's bucket
    Span,          \* settings.monitor_window_min
    Cooldown,      \* _ALERT_COOLDOWN_MIN
    RefWindows,    \* _REF_WINDOWS
    Fresh,         \* _WINDOW_FRESH_MIN
    DriftP95, DriftError, DriftMix, DriftMean,  \* thresholds of the settings
    ChartBuckets, ChartBucket,  \* of a range: number of buckets, their length
    EventDays,     \* settings.telemetry_retention_days
    AlertDays      \* settings.activity_retention_days

ASSUME MonitorAssumption ==
    /\ IsFiniteSet(Watched) /\ DOMAIN ModelOf = Watched /\ Fleets \subseteq SUBSET Watched
    /\ Reporting \subseteq Watched /\ Managed \subseteq Watched
    /\ MaxPasses \in Nat /\ MaxClock \in Nat /\ MaxRows \in Nat
    /\ Minute \in Nat \ {0} /\ Span \in Nat \ {0} /\ RefWindows \in Nat \ {0}
    /\ ChartBuckets \in Nat \ {0} /\ ChartBucket \in Nat \ {0}
    /\ Cooldown \in Nat /\ Fresh \in Nat
    /\ \A a \in Answered : a.ms \in Nat /\ a.ok \in BOOLEAN
    /\ Lags \subseteq Nat /\ EventDays \in Nat /\ AlertDays \in Nat
    /\ EventDays >= Span /\ AlertDays >= Cooldown

Passes == 1 .. MaxPasses

VARIABLES
    clock,      \* wall clock
    arrivals,   \* rows received from clients so far
    rows,       \* the deployments' rows
    events,     \* inference_events
    windows,    \* telemetry_window_stats
    rollups,    \* telemetry_rollup, by deployment and minute
    alerts,     \* alerts
    refs,       \* cached drift references
    pass,       \* each pass: where it stands and what it read
    draft       \* what it has written and not committed

monitorVars == <<clock, arrivals, rows, events, windows, rollups, alerts, refs,
                 pass, draft>>

Blank == [rows |-> <<>>, rollups |-> <<>>, alerts |-> {}, refs |-> {}]
Asleep == [state |-> "idle", now |-> 0, todo |-> <<>>, loaded |-> <<>>,
           saw |-> <<>>, after |-> {}]

MonitorInit ==
    /\ clock = 0 /\ arrivals = 0
    /\ \E fleet \in Fleets : rows = [d \in fleet |->
                                 [status |-> "live", count |-> 0, p95 |-> 0,
                                  errors |-> 0, drift |-> 0, last |-> -1]]
    /\ events = {} /\ windows = {} /\ rollups = <<>>
    /\ alerts = {} /\ refs = {}
    /\ pass = [p \in Passes |-> Asleep]
    /\ draft = [p \in Passes |-> Blank]

Running(p) == pass[p].state \in {"next", "read"}

\* The rollup's counters are added up, not set.
ChangesAdded(new, row) ==
    [c \in {c \in DOMAIN new : new[c] # row[c]} |->
        IF c = "count" THEN new[c] + row[c] ELSE new[c]]

\* The columns in which a new row differs from the row that was read, and a row
\* with those columns changed.
Changes(new, row) == [c \in {c \in DOMAIN new : new[c] # row[c]} |-> new[c]]
Changed(changes, row) == [c \in DOMAIN row |-> IF c \in DOMAIN changes THEN changes[c] ELSE row[c]]

\* Rows a pass holds: written, not committed.
Holds(w) == {<<d>> : d \in {d \in DOMAIN w.rows : DOMAIN w.rows[d] # {}}}
            \cup {k \in DOMAIN w.rollups : DOMAIN w.rollups[k] # {}}
HeldByOthers(p) == UNION {Holds(draft[q]) : q \in {q \in Passes \ {p} : Running(q)}}
-----------------------------------------------------------------------------
(* What a window of events amounts to.                                      *)

Inside(from, to) == {e \in events : from <= e.ts /\ e.ts < to}

\* Linear interpolation between the closest ranks, in hundredths.
Pct(sorted, q) ==
    IF sorted = <<>> THEN 0
    ELSE LET rank == q * (Len(sorted) - 1)
             below == sorted[1 + rank \div 100]
             above == sorted[Min({Len(sorted), 2 + rank \div 100})]
         IN  100 * below + (rank % 100) * (above - below)

\* In ascending order.
ByLatency(E) ==
    CHOOSE s \in [1 .. Cardinality(E) -> E] : \A i, j \in DOMAIN s :
        i < j => s[i].ms < s[j].ms \/ (s[i].ms = s[j].ms /\ s[i].id < s[j].id)

Latencies(E) ==
    LET sorted == ByLatency({e \in E : e.ok})
    IN  [i \in DOMAIN sorted |-> sorted[i].ms]

Errors(E) == Cardinality({e \in E : ~e.ok})

Summary(E) == [count |-> Cardinality(E), errors |-> Errors(E), p95 |-> Pct(Latencies(E), 95)]

ErrorPct(E) == IF E = {} THEN 0 ELSE (100 * Errors(E)) \div Cardinality(E)

Metrics(E) == [count |-> Cardinality(E), p95 |-> Pct(Latencies(E), 95),
               errors |-> ErrorPct(E), drift |-> IF E = {} THEN 0 ELSE Divergence]

\* last_event_at moves to the window's newest event, wherever it stood.
LiveMetrics(E, row) ==
    [count |-> Metrics(E).count, p95 |-> Metrics(E).p95, errors |-> Metrics(E).errors,
     drift |-> Metrics(E).drift, status |-> row.status,
     last |-> IF E = {} THEN row.last ELSE Max({e.ts : e \in E})]

MinuteOf(e) == e.ts \div Minute

\* One row per minute the window touches, from its events in the window.
Rollups(d, E) ==
    [k \in {<<d, MinuteOf(e)>> : e \in E} |-> Summary({e \in E : MinuteOf(e) = k[2]})]
-----------------------------------------------------------------------------
(* What the dashboard shows of a range.                                     *)

FetchEvents(model, from, to) == {e \in Inside(from, to) : ModelOf[e.dep] = model}

\* Nothing is shown of a model that has no event in the table, whatever its age.
HasAnyEvents(model) == \E e \in events : ModelOf[e.dep] = model

ChartStart == clock - ChartBucket * ChartBuckets
InBucket(time, i) ==
    time >= ChartStart /\ (time - ChartStart) \div ChartBucket = i - 1

\* The rollups of the model's deployments that begin inside the range.
ChartRollups(model) ==
    {k \in DOMAIN rollups :
        /\ k[1] \in DOMAIN rows /\ ModelOf[k[1]] = model
        /\ ChartStart <= k[2] * Minute /\ k[2] * Minute < clock}

\* Percentiles are averaged, weighted by the minutes' counts.
BucketRollups(model) ==
    [i \in 1 .. ChartBuckets |->
        LET minutes == {k \in ChartRollups(model) : InBucket(k[2] * Minute, i)}
            count == SumFunction([k \in minutes |-> rollups[k].count])
            weighed == SumFunction([k \in minutes |-> rollups[k].count * rollups[k].p95])
        IN  [count |-> count, p95 |-> weighed \div Max({1, count})]]

BucketRaw(model) ==
    [i \in 1 .. ChartBuckets |->
        LET E == {e \in FetchEvents(model, ChartStart, clock) : InBucket(e.ts, i)}
        IN  [count |-> Cardinality(E), p95 |-> Pct(Latencies(E), 95)]]

\* The raw events stand in as long as there is no rollup.
Series(model) == IF ChartRollups(model) = {} THEN BucketRaw(model) ELSE BucketRollups(model)
ShownSeries(model) == IF HasAnyEvents(model) THEN Series(model) ELSE <<>>

\* The headline figures, of the range and of the one before it.
Kpi(model) ==
    LET Of(E) == [requests |-> Cardinality(E), p95 |-> Pct(Latencies(E), 95),
                  errors |-> ErrorPct(E)]
    IN  [current |-> Of(FetchEvents(model, ChartStart, clock)),
         previous |-> Of(FetchEvents(model, 2 * ChartStart - clock, ChartStart))]
NoKpi == LET zero == [requests |-> 0, p95 |-> 0, errors |-> 0]
         IN  [current |-> zero, previous |-> zero]
ShownKpi(model) == IF HasAnyEvents(model) THEN Kpi(model) ELSE NoKpi

\* The range as a whole from its events, its buckets from what the chart uses.
Percentiles(model) ==
    [overall |-> Pct(Latencies(FetchEvents(model, ChartStart, clock)), 95),
     p95 |-> [i \in 1 .. ChartBuckets |-> Series(model)[i].p95]]
-----------------------------------------------------------------------------
(* What the windows shipped by clients say.                                 *)

History(d) ==
    SetToSortSeq({w \in windows : w.dep = d}, LAMBDA a, b :
        a.start < b.start \/ (a.start = b.start /\ a.id < b.id))

Distance(a, b) == IF a < b THEN b - a ELSE a - b

\* The mean over the earliest windows.
Reference(d, history) ==
    LET Mean(f(_)) == FoldSet(LAMBDA i, n : n + f(history[i]), 0, 1 .. RefWindows) \div RefWindows
    IN  [dep |-> d, mix |-> Mean(LAMBDA w : w.mix), mean |-> Mean(LAMBDA w : w.mean)]

NoReference(d) == [dep |-> d, mix |-> 0, mean |-> 0]
Pinned(d, w) == {r \in refs \cup w.refs : r.dep = d}

\* The references a pass may use: a cached one, or else the one it pins now.
DriftReference(d, history, w) ==
    IF Pinned(d, w) # {} THEN Pinned(d, w) ELSE {Reference(d, history)}

\* The titles of client drift, given a reference.
ClientDrift(history, ref, now) ==
    LET latest == history[Len(history)]
    IN  IF now - latest.start > Fresh THEN {}
        ELSE {t \in {"prediction drift", "input distribution shift"} :
                 IF t = "prediction drift" THEN Distance(ref.mix, latest.mix) > DriftMix
                 ELSE Distance(ref.mean, latest.mean) > DriftMean}

\* The titles of what the window of events shows.
TrafficDrift(E) ==
    {t \in {"p95 latency spike", "5xx error spike"} :
        IF t = "p95 latency spike"
        THEN Baseline > 0 /\ Metrics(E).p95 > Baseline * (100 + DriftP95)
        ELSE 100 * Errors(E) > DriftError * Cardinality(E)}

RecentAlertWithoutOwn(model, title, w) ==
    \E a \in alerts : a.model = model /\ a.title = title /\ a.at >= clock - Cooldown

\* An alert of this title for any deployment of the model, raised by another pass
\* that committed or by this one.
RecentAlert(model, title, w) ==
    \E a \in alerts \cup w.alerts :
        a.model = model /\ a.title = title /\ a.at >= clock - Cooldown

\* The alerts a pass raises for the titles it found.
Raised(p, d, titles) ==
    {[model |-> ModelOf[d], title |-> t, at |-> clock, pass |-> p] :
        t \in {t \in titles : ~RecentAlert(ModelOf[d], t, draft[p])}}
-----------------------------------------------------------------------------
(* One pass.                                                                *)

\* now and all deployments, in the order the database hands them out.
BeginPass(p) ==
    /\ pass[p] = Asleep /\ (p > 1 => pass[p - 1] # Asleep)
    /\ \E order \in SetToSeqs(DOMAIN rows) :
          pass' = [pass EXCEPT ![p] =
                     [state |-> "next", now |-> clock, todo |-> order, loaded |-> rows,
                      saw |-> <<>>, after |-> {q \in Passes : pass[q].state \in {"purge", "done"}}]]
    /\ UNCHANGED <<clock, arrivals, rows, events, windows, rollups, alerts, refs, draft>>

ReadEvents(p) ==
    /\ pass[p].state = "next" /\ pass[p].todo # <<>>
    /\ LET d == Head(pass[p].todo)
           seen == {e \in Inside(pass[p].now - Span, pass[p].now) : e.dep = d}
       IN  pass' = [pass EXCEPT ![p].state = "read",
                                ![p].saw = [x \in DOMAIN @ \cup {d} |->
                                              IF x = d THEN seen ELSE @[x]]]
    /\ UNCHANGED <<clock, arrivals, rows, events, windows, rollups, alerts, refs, draft>>

\* The rest of the loop's body.  It waits for rows another pass holds.
JudgeDeployment(p) ==
    LET d == Head(pass[p].todo)
        E == pass[p].saw[d]
        loaded == pass[p].loaded[d]
        summaries == Rollups(d, E)
        history == History(d)
        judged == loaded.status # "paused" /\ Len(history) > RefWindows
        written == [draft[p] EXCEPT
            !.rows = [x \in DOMAIN @ \cup {d} |->
                        IF x = d THEN Changes(LiveMetrics(E, loaded), loaded) ELSE @[x]],
            !.rollups = [k \in DOMAIN @ \cup DOMAIN summaries |->
                           IF k \notin DOMAIN summaries THEN @[k]
                           ELSE IF k \in DOMAIN rollups THEN Changes(summaries[k], rollups[k])
                           ELSE summaries[k]]]
        traffic == IF loaded.status = "paused" \/ E = {} THEN {} ELSE TrafficDrift(E)
    IN  /\ pass[p].state = "read"
        /\ Holds(written) \cap HeldByOthers(p) = {}
        /\ \E ref \in IF judged THEN DriftReference(d, history, draft[p]) ELSE {NoReference(d)} :
              draft' = [draft EXCEPT ![p] =
                 [written EXCEPT
                    !.refs = IF judged /\ Pinned(d, draft[p]) = {} THEN @ \cup {ref} ELSE @,
                    !.alerts = @ \cup Raised(p, d, traffic \cup
                                 IF judged THEN ClientDrift(history, ref, pass[p].now) ELSE {})]]
        /\ pass' = [pass EXCEPT ![p].state = "next", ![p].todo = Tail(@),
                                ![p].loaded = [x \in DOMAIN @ \ {d} |-> @[x]]]
        /\ UNCHANGED <<clock, arrivals, rows, events, windows, rollups, alerts, refs>>

\* One commit for all deployments.  An UPDATE of a deployment deleted meanwhile
\* matches no row, and the whole pass is rolled back.
CommitPass(p) ==
    LET w == draft[p]
        lost == {d \in DOMAIN w.rows : DOMAIN w.rows[d] # {} /\ d \notin DOMAIN rows}
    IN  /\ pass[p].state = "next" /\ pass[p].todo = <<>> /\ lost = {}
        /\ rows' = [d \in DOMAIN rows |->
                      IF d \in DOMAIN w.rows THEN Changed(w.rows[d], rows[d]) ELSE rows[d]]
        /\ rollups' = [k \in DOMAIN rollups \cup DOMAIN w.rollups |->
                         IF k \notin DOMAIN w.rollups THEN rollups[k]
                         ELSE IF k \in DOMAIN rollups THEN Changed(w.rollups[k], rollups[k])
                         ELSE w.rollups[k]]
        /\ alerts' = alerts \cup w.alerts
        /\ refs' = refs \cup w.refs
        /\ pass' = [pass EXCEPT ![p] = [Asleep EXCEPT !.state = "purge", !.saw = pass[p].saw,
                                                      !.after = pass[p].after]]
        /\ draft' = [draft EXCEPT ![p] = Blank]
        /\ UNCHANGED <<clock, arrivals, events, windows>>

\* A stale row, a deadlock on two rows, a locked database, a crash.
AbortPass(p) ==
    /\ Running(p)
    /\ pass' = [pass EXCEPT ![p] = [Asleep EXCEPT !.state = "failed"]]
    /\ draft' = [draft EXCEPT ![p] = Blank]
    /\ UNCHANGED <<clock, arrivals, rows, events, windows, rollups, alerts, refs>>

\* The purge that follows a pass that did not fail.
PurgeExpired(p) ==
    /\ pass[p].state = "purge"
    /\ events' = {e \in events : e.ts >= clock - EventDays}
    /\ windows' = {w \in windows : w.start >= clock - EventDays}
    /\ alerts' = {a \in alerts : a.at >= clock - AlertDays}
    /\ pass' = [pass EXCEPT ![p].state = "done"]
    /\ UNCHANGED <<clock, arrivals, rows, rollups, refs, draft>>
-----------------------------------------------------------------------------
(* What happens around the passes.                                          *)

Sent == {clock - lag : lag \in Lags} \cap Nat

\* No pass holds the deployment's row.
Free(d) == d \in DOMAIN rows /\ \A p \in Passes : Running(p) => <<d>> \notin Holds(draft[p])

\* A committed batch of one event; it waits for the deployment's row when it
\* moves last_event_at.
IngestEvent(d) ==
    /\ arrivals < MaxRows /\ Free(d) /\ rows[d].status # "paused"
    /\ arrivals' = arrivals + 1
    /\ \E ts \in Sent, a \in Answered :
          /\ events' = events \cup {[id |-> arrivals, dep |-> d, ts |-> ts, ms |-> a.ms, ok |-> a.ok]}
          /\ rows' = [rows EXCEPT ![d].last = Max({@, ts})]
    /\ UNCHANGED <<clock, windows, rollups, alerts, refs, pass, draft>>

IngestWindow(d) ==
    /\ arrivals < MaxRows /\ d \in DOMAIN rows /\ rows[d].status # "paused"
    /\ arrivals' = arrivals + 1
    /\ \E start \in Sent, s \in Stats :
          windows' = windows \cup {[id |-> arrivals, dep |-> d, start |-> start,
                                    mix |-> s.mix, mean |-> s.mean]}
    /\ UNCHANGED <<clock, rows, events, rollups, alerts, refs, pass, draft>>

\* pause, resume, DELETE: the events of a deleted deployment stay.
ToggleDeployment(d) ==
    /\ Free(d)
    /\ rows' = [rows EXCEPT ![d].status = IF @ = "paused" THEN "live" ELSE "paused"]
    /\ UNCHANGED <<clock, arrivals, events, windows, rollups, alerts, refs, pass, draft>>

RemoveDeployment(d) ==
    /\ Free(d)
    /\ rows' = [x \in DOMAIN rows \ {d} |-> rows[x]]
    /\ UNCHANGED <<clock, arrivals, events, windows, rollups, alerts, refs, pass, draft>>

Advance ==
    /\ clock < MaxClock
    /\ clock' = clock + 1
    /\ UNCHANGED <<arrivals, rows, events, windows, rollups, alerts, refs, pass, draft>>

MonitorNext ==
    \/ \E p \in Passes :
          BeginPass(p) \/ ReadEvents(p) \/ JudgeDeployment(p) \/ CommitPass(p)
          \/ AbortPass(p) \/ PurgeExpired(p)
    \/ \E d \in Watched : IngestEvent(d)
    \/ \E d \in Reporting : IngestWindow(d)
    \/ \E d \in Managed : ToggleDeployment(d) \/ RemoveDeployment(d)
    \/ Advance

MonitorSpec == MonitorInit /\ [][MonitorNext]_monitorVars
-----------------------------------------------------------------------------
(* What must hold.                                                          *)

Committed == {p \in Passes : pass[p].state \in {"purge", "done"}}

\* Neither began after the other had committed.
Overlapped(p, q) == p \notin pass[q].after /\ q \notin pass[p].after

\* One incident is alerted once: two alerts of a model with one title lie further
\* apart than the cooldown, unless two overlapping passes raised them.
AlertsSpaced ==
    \A a, b \in alerts :
        a # b /\ a.model = b.model /\ a.title = b.title
            => Distance(a.at, b.at) > Cooldown \/ (a.pass # b.pass /\ Overlapped(a.pass, b.pass))

\* The figures of a deployment's row, and those of each minute, are what one pass made
\* of its window.  The row may mix two passes that overlapped: each writes only the
\* columns that changed since it read them.
RowsFromOnePass ==
    /\ \A k \in DOMAIN rollups : \E p \in Committed :
          /\ k[1] \in DOMAIN pass[p].saw
          /\ k \in DOMAIN Rollups(k[1], pass[p].saw[k[1]])
          /\ rollups[k] = Rollups(k[1], pass[p].saw[k[1]])[k]
    /\ \A d \in DOMAIN rows :
          LET by == {p \in Committed : d \in DOMAIN pass[p].saw}
              Shows(E) == [c \in DOMAIN Metrics(E) |-> rows[d][c]] = Metrics(E)
          IN  \/ \E p \in by : Shows(pass[p].saw[d])
              \/ by = {} /\ Shows({})
              \/ \E p, q \in by : p # q /\ Overlapped(p, q)

\* The long chart counts no request twice, across minutes, deployments and passes, and
\* draws no bucket slower than the slowest request it may be of.  A short chart shows
\* each request of its headline in one bucket, none in the headline's range before.
ChartsAgree ==
    \A model \in {ModelOf[d] : d \in DOMAIN rows} :
        \E chart \in {ShownSeries(model)}, raw \in {BucketRaw(model)}, kpi \in {ShownKpi(model)} :
            LET met == events \cup UNION {UNION Range(pass[p].saw) : p \in Committed}
                Total(drawn) == SumFunction([i \in DOMAIN drawn |-> drawn[i].count])
                requests == kpi.current.requests
            IN  /\ Total(chart) <= Cardinality(met)
                /\ \A i \in DOMAIN chart :
                      chart[i].p95 <= 100 * Max({0} \cup {e.ms : e \in met})
                /\ Total(raw) = requests
                /\ requests + kpi.previous.requests <= Cardinality(events)
                /\ \A i \in DOMAIN raw :
                      0 < requests /\ raw[i].count = requests
                          => raw[i].p95 = Percentiles(model).overall

\* What the dashboard shows is what the monitor measured, of one window at a time.
FiguresFromOnePass == RowsFromOnePass /\ ChartsAgree
=============================================================================
