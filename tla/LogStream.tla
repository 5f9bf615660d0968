----------------------------- MODULE LogStream -----------------------------
(***************************************************************************)
(* The log of an ingestion run as its viewers get it, over a stream or by  *)
(* polling, while the worker writes it and ends the run, a process start   *)
(* may reap it and DELETE may remove it.                                   *)
(*                                                                         *)
(* A viewer takes two SELECTs, the log rows and the run's row, each seeing *)
(* what is committed at that moment.                                       *)
(***************************************************************************)
EXTENDS Naturals, Sequences, FiniteSets, SequencesExt

CONSTANTS
    Viewers,
    Kind,       \* how each of them follows the run: "stream" or "poll"
    MaxLogs,    \* rows the worker may write (bound of the model)
    MaxTurns,   \* events a viewer is shown (bound of the model)
    Percents    \* figures the worker reports

ASSUME LogStreamAssumption ==
    /\ Kind \in [Viewers -> {"stream", "poll"}]
    /\ MaxLogs \in Nat /\ MaxTurns \in Nat /\ Percents \subseteq 1 .. 99

VARIABLES
    worker,     \* the job: "busy", "failing" or "ended"
    written,    \* number of log rows written so far
    logs,       \* those in the table
    run,        \* the run's row: [status, progress]; status "gone": none
    reaped,     \* a process start, not the worker, ended the run
    viewer,     \* each viewer: where it stands, its cursor, what it read
    shown       \* the events each viewer was sent on this connection

feed == <<worker, written, logs, run, reaped>>
streamVars == <<feed, viewer, shown>>

Away == [at |-> "away", after |-> 0, last |-> -1, got |-> <<>>, done |-> FALSE, progress |-> -1]

StreamInit ==
    /\ worker = "busy" /\ written = 0 /\ logs = {}
    /\ run = [status |-> "streaming", progress |-> 0]
    /\ reaped = FALSE
    /\ viewer = [v \in Viewers |-> Away]
    /\ shown = [v \in Viewers |-> <<>>]

HasRun == run.status # "gone"
-----------------------------------------------------------------------------
(* The worker and those who interfere.                                      *)

\* A row takes the next number, and is committed on its own.
Emit ==
    /\ worker = "busy" /\ written < MaxLogs
    /\ written' = written + 1
    /\ logs' = logs \cup {written + 1}
    /\ UNCHANGED <<worker, run, reaped, viewer, shown>>

Progress ==
    /\ worker = "busy" /\ HasRun
    /\ \E pct \in Percents : pct > run.progress /\ run' = [run EXCEPT !.progress = pct]
    /\ UNCHANGED <<worker, written, logs, reaped, viewer, shown>>

\* The job's exception is logged first.
Break ==
    /\ worker = "busy" /\ written < MaxLogs
    /\ worker' = "failing"
    /\ written' = written + 1
    /\ logs' = logs \cup {written + 1}
    /\ UNCHANGED <<run, reaped, viewer, shown>>

\* _on_success: whatever the row says by then, if there is one.
Finish ==
    /\ worker = "busy"
    /\ worker' = "ended"
    /\ run' = IF HasRun THEN [status |-> "completed", progress |-> 100] ELSE run
    /\ UNCHANGED <<written, logs, reaped, viewer, shown>>

\* _on_failure, likewise.
Fail ==
    /\ worker = "failing"
    /\ worker' = "ended"
    /\ run' = IF HasRun THEN [run EXCEPT !.status = "failed"] ELSE run
    /\ UNCHANGED <<written, logs, reaped, viewer, shown>>

\* A process start takes the run for orphaned; its worker may be alive.
Reap ==
    /\ run.status = "streaming"
    /\ run' = [run EXCEPT !.status = "failed"]
    /\ reaped' = TRUE
    /\ UNCHANGED <<worker, written, logs, viewer, shown>>

\* DELETE of the model: the rows of the log go with the run's.
RemoveRun ==
    /\ HasRun
    /\ run' = [status |-> "gone", progress |-> 0]
    /\ logs' = {}
    /\ UNCHANGED <<worker, written, reaped, viewer, shown>>
-----------------------------------------------------------------------------
(* A viewer.                                                                *)

LogsFirst(kind) == FALSE

\* Which of the two SELECTs comes first.
RunFirst(kind) == kind = "poll"

\* 404 without a run.  A poll goes on from its cursor, a stream begins anew.
Connect(v) ==
    /\ viewer[v].at = "away" /\ HasRun
    /\ Len(shown[v]) < MaxTurns
    /\ viewer' = [viewer EXCEPT ![v] =
                    IF Kind[v] = "poll" THEN [@ EXCEPT !.at = "first", !.done = FALSE]
                    ELSE [Away EXCEPT !.at = "first"]]
    /\ shown' = [shown EXCEPT ![v] = IF Kind[v] = "poll" THEN @ ELSE <<>>]
    /\ UNCHANGED feed

Cursor(v) == viewer[v].after

\* ORDER BY: the members of a set of numbers in their order.
InOrder(S) ==
    CHOOSE s \in [1 .. Cardinality(S) -> S] : \A i, j \in DOMAIN s : i < j => s[i] < s[j]

\* What follows the first SELECT, and what the second.
AfterSelect(v) == IF viewer[v].at = "first" THEN "second" ELSE "answer"

SelectLogs(v) ==
    LET got == InOrder({k \in logs : k > Cursor(v)})
    IN  /\ viewer[v].at = IF RunFirst(Kind[v]) THEN "second" ELSE "first"
        /\ viewer' = [viewer EXCEPT ![v] = [@ EXCEPT !.at = AfterSelect(v), !.got = got]]
        /\ UNCHANGED <<feed, shown>>

SelectRun(v) ==
    LET gone == Kind[v] = "poll" /\ ~HasRun
    IN  /\ viewer[v].at = IF RunFirst(Kind[v]) THEN "first" ELSE "second"
        /\ viewer' = [viewer EXCEPT ![v] =
              [@ EXCEPT !.at = IF gone THEN "away" ELSE AfterSelect(v),
                        !.done = run.status \notin {"streaming", "gone"},
                        !.progress = IF HasRun THEN run.progress ELSE viewer[v].progress]]
        /\ UNCHANGED <<feed, shown>>

\* The rows, then the percentage if it moved, then the end.
SentTo(v) ==
    [i \in DOMAIN viewer[v].got |-> <<"log", viewer[v].got[i]>>]
    \o (IF viewer[v].progress # viewer[v].last THEN << <<"progress", viewer[v].progress>> >>
       ELSE <<>>)
    \o (IF viewer[v].done THEN << <<"done", 0>> >> ELSE <<>>)

\* A stream goes on until it sent done; a poll answers once.
AnswerViewer(v) ==
    LET seen == viewer[v].got
    IN  /\ viewer[v].at = "answer"
        /\ shown' = [shown EXCEPT ![v] = @ \o SentTo(v)]
        /\ viewer' = [viewer EXCEPT ![v] =
              [@ EXCEPT !.at = IF Kind[v] = "poll" \/ viewer[v].done THEN "away" ELSE "first",
                        !.after = IF seen = <<>> THEN viewer[v].after ELSE Last(seen),
                        !.last = viewer[v].progress,
                        !.got = <<>>]]
        /\ UNCHANGED feed

Disconnect(v) ==
    /\ viewer[v].at = "first"
    /\ viewer' = [viewer EXCEPT ![v] = [@ EXCEPT !.at = "away"]]
    /\ UNCHANGED <<feed, shown>>

StreamNext ==
    \/ Emit \/ Progress \/ Break \/ Finish \/ Fail \/ Reap \/ RemoveRun
    \/ \E v \in Viewers : Connect(v) \/ SelectLogs(v) \/ SelectRun(v)
                          \/ AnswerViewer(v) \/ Disconnect(v)

StreamSpec == StreamInit /\ [][StreamNext]_streamVars
-----------------------------------------------------------------------------
\* The places of the log's rows among what a viewer was shown, and how many it was
\* shown up to one of them.
LogLines(v) == {i \in DOMAIN shown[v] : shown[v][i][1] = "log"}
UpTo(v, i) == Cardinality({j \in LogLines(v) : j <= i})

\* A viewer gets the rows of an existing run in their order, none twice and none
\* left out, over any number of polls.  A poll that says the run is done has
\* returned the last of them, unless the run was taken from a worker still writing.
\* (A stream may end without the rows committed between its two SELECTs.)
LogComplete ==
    HasRun =>
        \A v \in Viewers :
            /\ \A i \in LogLines(v) : shown[v][i][2] = UpTo(v, i)
            /\ Kind[v] = "poll" /\ ~reaped /\ Contains(shown[v], <<"done", 0>>)
                  => Cardinality(LogLines(v)) = written
=============================================================================
