-------------------------- MODULE DashboardProofs --------------------------
(***************************************************************************)
(* Theorems about the requests the dashboard makes and the drift monitor.  *)
(* LogStream, for any viewers, any number of rows, polls and               *)
(* reconnections, whatever reaps the run or removes it meanwhile.          *)
(* TrialExport, for any exports, downloads and processes.                  *)
(* Deployments, for any number of deployments and of rotate-key requests   *)
(* and whatever rows an older version left behind.                         *)
(* Monitor, for any deployments, passes, thresholds, window and cooldown,  *)
(* whatever clients send, is deleted or fails meanwhile.                   *)
(***************************************************************************)
EXTENDS Deployments, LogStream, TrialExport, Monitor, FiniteFacts, TLAPS
-----------------------------------------------------------------------------
(* The stream of a run's log.                                               *)

\* The rows above a number, in their order.
LEMMA RowsAbove ==
    ASSUME NEW a \in Nat, NEW b \in Nat, a <= b
    PROVE  InOrder({k \in 1 .. b : k > a}) = [i \in 1 .. b - a |-> a + i]
<1> DEFINE S == {k \in 1 .. b : k > a}
           n == b - a
           Sorted(s) == s \in [1 .. n -> S] /\ \A i, j \in 1 .. n : i < j => s[i] < s[j]
           t == [i \in 1 .. n |-> a + i]
<1>1. S = (a + 1) .. b /\ n \in Nat
    OBVIOUS
<1>2. IsFiniteSet(S) /\ Cardinality(S) = n
  <2>1. /\ IsFiniteSet((a + 1) .. b)
        /\ Cardinality((a + 1) .. b) = IF a + 1 > b THEN 0 ELSE b - (a + 1) + 1
      BY FS_Interval
  <2>2. (IF a + 1 > b THEN 0 ELSE b - (a + 1) + 1) = n
      OBVIOUS
  <2> HIDE DEF S, n
  <2> QED BY <1>1, <2>1, <2>2
<1>3. Sorted(t)
    BY <1>1
<1>4. ASSUME NEW s, Sorted(s) PROVE s = t
  <2>1. \A i \in 1 .. n : s[i] \in Nat /\ a + 1 <= s[i] /\ s[i] <= b
      BY <1>1, <1>4
  <2>2. \A i \in 1 .. n : s[i] >= a + i
    <3> DEFINE T == {i \in 1 .. n : s[i] < a + i}
    <3>1. SUFFICES ASSUME T # {} PROVE FALSE
        BY <2>1
    <3>2. PICK i \in T : \A j \in T : i <= j
      <4>1. T \in SUBSET Nat
          OBVIOUS
      <4> HIDE DEF T
      <4> QED BY <3>1, <4>1, Least
    <3>3. i > 1 /\ i - 1 \in 1 .. n /\ i - 1 \notin T
        BY <2>1, <3>2
    <3>4. s[i - 1] >= a + (i - 1) /\ s[i - 1] < s[i]
        BY <1>4, <2>1, <3>3
    <3> QED BY <2>1, <3>3, <3>4
  <2>3. \A i \in 1 .. n : s[i] <= a + i
    <3> DEFINE T == {i \in 1 .. n : s[i] > a + i}
    <3>1. SUFFICES ASSUME T # {} PROVE FALSE
        BY <2>1
    <3>2. T \in SUBSET (0 .. n)
        BY <1>1
    <3>3. PICK i \in T : \A j \in T : j <= i
        BY <1>1, <3>1, <3>2, Greatest
    <3>4. i # n
        BY <1>1, <2>1, <3>3
    <3>5. i + 1 \in 1 .. n /\ i + 1 \notin T
        BY <1>1, <3>3, <3>4
    <3>6. s[i + 1] <= a + (i + 1) /\ s[i] < s[i + 1]
        BY <1>4, <2>1, <3>3, <3>5
    <3> QED BY <2>1, <3>3, <3>5, <3>6
  <2>4. \A i \in 1 .. n : s[i] = a + i
      BY <1>1, <2>1, <2>2, <2>3
  <2> QED BY <1>4, <2>4
<1>5. InOrder(S) = CHOOSE s : Sorted(s)
  <2>1. \A s \in [1 .. n -> S] : DOMAIN s = 1 .. n
      OBVIOUS
  <2> QED BY <1>2, <2>1 DEF InOrder
<1> QED BY <1>3, <1>4, <1>5
----------------------------------------------------------------------------
Events == {"log", "progress", "done"} \X Int

IsViewer(x) ==
    x \in [at : {"away", "first", "second", "answer"}, after : Nat, last : Int,
           got : Seq(Nat), done : BOOLEAN, progress : Int]

\* What a viewer has read and was not yet shown are the rows that follow its cursor.
ReadOn(x) == x.after + Len(x.got) <= written /\ x.got = [i \in 1 .. Len(x.got) |-> x.after + i]

HasTypes ==
    /\ worker \in {"busy", "failing", "ended"} /\ written \in Nat /\ reaped \in BOOLEAN
    /\ run \in [status : {"streaming", "completed", "failed"}, progress : Int]
    /\ \A v \in Viewers : IsViewer(viewer[v])
    /\ DOMAIN viewer = Viewers /\ shown \in [Viewers -> Seq(Events)]

\* The table has all rows, and only a start may end a run whose worker goes on.
TableFull ==
    /\ logs = 1 .. written
    /\ run.status # "streaming" /\ ~reaped => worker = "ended"

\* The cursor counts the rows shown, each of which was shown at its place.
InPlace(v) ==
    /\ IsFiniteSet(LogLines(v)) /\ Cardinality(LogLines(v)) = viewer[v].after
    /\ \A i \in LogLines(v) : shown[v][i][2] = UpTo(v, i)

\* Once a poll knows that the run is done nothing more is written.
NothingAfterDone(v) ==
    Kind[v] = "poll" /\ ~reaped =>
        /\ viewer[v].done => worker = "ended"
        /\ viewer[v].done /\ viewer[v].at = "answer"
              => viewer[v].after + Len(viewer[v].got) = written
        /\ Contains(shown[v], <<"done", 0>>) => worker = "ended" /\ viewer[v].after = written

StreamInv ==
    HasRun =>
        /\ HasTypes /\ TableFull
        /\ \A v \in Viewers : ReadOn(viewer[v]) /\ InPlace(v) /\ NothingAfterDone(v)

LEMMA StreamInvInit == StreamInit => StreamInv
<1> SUFFICES ASSUME StreamInit PROVE StreamInv
    OBVIOUS
<1>1. HasTypes
  <2>1. IsViewer(Away)
      BY DEF IsViewer, Away
  <2>2. ASSUME NEW v \in Viewers PROVE IsViewer(viewer[v])
    <3>1. viewer[v] = Away
        BY DEF StreamInit
    <3> QED BY <2>1, <3>1
  <2>3. DOMAIN viewer = Viewers /\ shown \in [Viewers -> Seq(Events)]
      BY DEF StreamInit
  <2>4. /\ worker \in {"busy", "failing", "ended"} /\ written \in Nat
        /\ run \in [status : {"streaming", "completed", "failed"}, progress : Int]
      BY DEF StreamInit
  <2>5. reaped \in BOOLEAN
      BY DEF StreamInit
  <2> QED BY <2>2, <2>3, <2>4, <2>5 DEF HasTypes
<1>2. TableFull
    BY DEF StreamInit, TableFull
<1>3. ASSUME NEW v \in Viewers PROVE ReadOn(viewer[v]) /\ InPlace(v) /\ NothingAfterDone(v)
  <2>1. viewer[v] = Away /\ shown[v] = <<>> /\ written = 0
      BY DEF StreamInit
  <2>2. LogLines(v) = {}
      BY <2>1 DEF LogLines
  <2>3. InPlace(v)
      BY <2>1, <2>2, FS_EmptySet DEF InPlace, Away
  <2>4. ~ Contains(shown[v], <<"done", 0>>)
      BY <2>1 DEF Contains
  <2> QED BY <2>1, <2>3, <2>4 DEF ReadOn, NothingAfterDone, Away
<1> QED BY <1>1, <1>2, <1>3 DEF StreamInv

\* A step that leaves the viewers alone, keeps the table full and writes nothing once
\* the worker has ended.
LEMMA FeedStep ==
    ASSUME StreamInv, HasRun, HasTypes', TableFull', UNCHANGED <<viewer, shown>>,
           written' >= written, worker = "ended" => worker' = "ended" /\ written' = written,
           reaped => reaped'
    PROVE  StreamInv'
<1> SUFFICES ASSUME NEW v \in Viewers
             PROVE  (ReadOn(viewer[v]) /\ InPlace(v) /\ NothingAfterDone(v))'
    BY DEF StreamInv
<1> USE DEF StreamInv
<1>1. ReadOn(viewer[v])'
  <2>1. viewer'[v] = viewer[v] /\ ReadOn(viewer[v])
      BY DEF StreamInv
  <2>2. viewer[v].after \in Nat /\ Len(viewer[v].got) \in Nat /\ written \in Nat /\ written' \in Nat
      BY DEF HasTypes, IsViewer
  <2> QED BY <2>1, <2>2 DEF ReadOn
<1>2. InPlace(v)'
  <2>1. InPlace(v) /\ LogLines(v)' = LogLines(v)
      BY DEF StreamInv, LogLines
  <2>2. \A i : UpTo(v, i)' = UpTo(v, i)
      BY <2>1 DEF UpTo
  <2> QED BY <2>1, <2>2 DEF InPlace
<1>3. NothingAfterDone(v)'
    BY DEF NothingAfterDone
<1> QED BY <1>1, <1>2, <1>3

\* One viewer moves and is shown nothing.
LEMMA ViewerStep ==
    ASSUME StreamInv, HasRun, NEW v \in Viewers, NEW x, IsViewer(x),
           viewer' = [viewer EXCEPT ![v] = x], UNCHANGED <<feed, shown>>,
           x.after = viewer[v].after, ReadOn(x),
           x.done => viewer[v].done \/ run.status # "streaming",
           x.done /\ x.at = "answer" /\ Kind[v] = "poll" => x.after + Len(x.got) = written
    PROVE  StreamInv'
<1> USE DEF StreamInv, feed
<1>1. viewer'[v] = x /\ \A w \in Viewers \ {v} : viewer'[w] = viewer[w]
    BY DEF HasTypes
<1>2. HasTypes'
    BY <1>1 DEF HasTypes
<1>3. TableFull'
    BY DEF TableFull
<1>4. ASSUME NEW w \in Viewers PROVE (ReadOn(viewer[w]) /\ InPlace(w) /\ NothingAfterDone(w))'
  <2> DEFINE y == viewer[w]
  <2>0. (w = v /\ y' = x) \/ (w # v /\ y' = y)
      BY <1>1
  <2>1. ReadOn(y)'
    <3>1. ReadOn(x) /\ ReadOn(y) /\ written' = written
        OBVIOUS
    <3>2. ReadOn(y') 
        BY <2>0, <3>1
    <3> QED BY <3>1, <3>2 DEF ReadOn
  <2>2. InPlace(w)'
    <3>1. viewer'[w].after = viewer[w].after /\ shown' = shown /\ InPlace(w)
        BY <2>0
    <3> QED BY <3>1 DEF InPlace, LogLines, UpTo
  <2>3. NothingAfterDone(w)'
      BY <1>1 DEF NothingAfterDone, TableFull
  <2> QED BY <2>1, <2>2, <2>3
<1> QED BY <1>2, <1>3, <1>4

\* The rows a SELECT returns follow the cursor, up to the last row of the table.
LEMMA SelectedRows ==
    ASSUME StreamInv, HasRun, NEW v \in Viewers
    PROVE  LET got == InOrder({k \in logs : k > Cursor(v)})
           IN  /\ got \in Seq(Nat) /\ viewer[v].after + Len(got) = written
               /\ got = [i \in 1 .. Len(got) |-> viewer[v].after + i]
<1> DEFINE a == viewer[v].after
           n == written - a
           t == [i \in 1 .. n |-> a + i]
<1>1. a \in Nat /\ written \in Nat /\ logs = 1 .. written
    BY DEF StreamInv, HasTypes, TableFull, IsViewer
<1>2. a <= written
  <2>1. Len(viewer[v].got) \in Nat
      BY DEF StreamInv, HasTypes, IsViewer
  <2>2. a + Len(viewer[v].got) <= written
      BY DEF StreamInv, ReadOn
  <2> QED BY <1>1, <2>1, <2>2
<1>3. InOrder({k \in logs : k > Cursor(v)}) = t
  <2>1. {k \in logs : k > Cursor(v)} = {k \in 1 .. written : k > a}
      BY <1>1 DEF Cursor
  <2> HIDE DEF a
  <2> QED BY <1>1, <1>2, <2>1, RowsAbove
<1>4. n \in Nat
    BY <1>1, <1>2
<1>5. \A i \in 1 .. n : a + i \in Nat
    BY <1>1, <1>4
<1> HIDE DEF a
<1>6. t \in Seq(Nat) /\ Len(t) = n
    BY <1>4, <1>5
<1>7. a + n = written
    BY <1>1, <1>4
<1> QED BY <1>3, <1>6, <1>7 DEF a

LEMMA SelectLogsStep ==
    ASSUME StreamInv, HasRun, NEW v \in Viewers, SelectLogs(v)
    PROVE  StreamInv'
<1> DEFINE got == InOrder({k \in logs : k > Cursor(v)})
           x == [viewer[v] EXCEPT !.at = AfterSelect(v), !.got = got]
<1>1. /\ got \in Seq(Nat) /\ viewer[v].after + Len(got) = written
      /\ got = [i \in 1 .. Len(got) |-> viewer[v].after + i]
    BY SelectedRows
<1>2. viewer' = [viewer EXCEPT ![v] = x] /\ UNCHANGED <<feed, shown>>
    BY DEF SelectLogs
<1> HIDE DEF got
<1>3. IsViewer(viewer[v]) /\ written \in Nat
    BY DEF StreamInv, HasTypes
<1>4. /\ IsViewer(x) /\ x.after = viewer[v].after /\ x.got = got
      /\ x.done = viewer[v].done
  <2>1. AfterSelect(v) \in {"second", "answer"}
      BY DEF AfterSelect
  <2> QED BY <1>1, <1>3, <2>1 DEF IsViewer
<1> HIDE DEF x
<1>5. ReadOn(x)
    BY <1>1, <1>3, <1>4 DEF ReadOn
<1> QED BY <1>1, <1>2, <1>4, <1>5, ViewerStep

LEMMA SelectRunStep ==
    ASSUME StreamInv, HasRun, NEW v \in Viewers, SelectRun(v)
    PROVE  StreamInv'
<1> DEFINE x == [viewer[v] EXCEPT !.at = AfterSelect(v),
                              !.done = run.status \notin {"streaming", "gone"},
                              !.progress = run.progress]
<1>1. viewer' = [viewer EXCEPT ![v] = x] /\ UNCHANGED <<feed, shown>>
    BY DEF SelectRun, HasRun
<1>2. IsViewer(viewer[v]) /\ run.progress \in Int /\ ReadOn(viewer[v])
    BY DEF StreamInv, HasTypes
<1>0. /\ AfterSelect(v) \in {"second", "answer"}
      /\ Kind[v] = "poll" => AfterSelect(v) = "second"
    BY DEF AfterSelect, SelectRun, RunFirst
<1>3. /\ IsViewer(x) /\ x.after = viewer[v].after /\ x.got = viewer[v].got
      /\ x.done = (run.status \notin {"streaming", "gone"}) /\ x.at = AfterSelect(v)
    BY <1>0, <1>2 DEF IsViewer
<1>4. /\ Kind[v] = "poll" => x.at = "second"
      /\ x.done => run.status # "streaming"
    BY <1>0, <1>3
<1> HIDE DEF x
<1>5. ReadOn(x)
    BY <1>2, <1>3 DEF ReadOn
<1> QED BY <1>1, <1>3, <1>4, <1>5, ViewerStep

LEMMA ConnectStep ==
    ASSUME StreamInv, HasRun, NEW v \in Viewers, Connect(v)
    PROVE  StreamInv'
<1>1. IsViewer(viewer[v]) /\ ReadOn(viewer[v])
    BY DEF StreamInv, HasTypes
<1>2. CASE Kind[v] = "poll"
  <2> DEFINE x == [viewer[v] EXCEPT !.at = "first", !.done = FALSE]
  <2>1. viewer' = [viewer EXCEPT ![v] = x] /\ UNCHANGED feed
      BY <1>2 DEF Connect
  <2>2. shown' = shown
    <3>1. shown' = [shown EXCEPT ![v] = shown[v]]
        BY <1>2 DEF Connect
    <3> QED BY <3>1 DEF StreamInv, HasTypes
  <2>3. IsViewer(x) /\ x.after = viewer[v].after /\ x.got = viewer[v].got /\ ~x.done
      BY <1>1 DEF IsViewer
  <2> HIDE DEF x
  <2>4. ReadOn(x)
      BY <1>1, <2>3 DEF ReadOn
  <2> QED BY <2>1, <2>2, <2>3, <2>4, ViewerStep
<1>3. CASE Kind[v] # "poll"
  <2> DEFINE x == [Away EXCEPT !.at = "first"]
  <2>1. /\ viewer' = [viewer EXCEPT ![v] = x] /\ shown' = [shown EXCEPT ![v] = <<>>]
        /\ UNCHANGED feed
      BY <1>3 DEF Connect
  <2>2. IsViewer(x) /\ x.after = 0 /\ x.got = <<>>
    <3>1. IsViewer(Away) /\ Away.after = 0 /\ Away.got = <<>>
        BY DEF IsViewer, Away
    <3> QED BY <3>1 DEF IsViewer
  <2> HIDE DEF x
  <2>3. /\ viewer'[v] = x /\ shown'[v] = <<>> /\ written' = written /\ written \in Nat
        /\ \A w \in Viewers \ {v} : viewer'[w] = viewer[w] /\ shown'[w] = shown[w]
      BY <2>1 DEF StreamInv, HasTypes, feed
  <2>4. HasTypes'
      BY <2>1, <2>2, <2>3 DEF StreamInv, HasTypes, feed
  <2>5. TableFull'
      BY <2>1 DEF StreamInv, TableFull, feed
  <2>6. ASSUME NEW w \in Viewers, w # v
        PROVE (ReadOn(viewer[w]) /\ InPlace(w) /\ NothingAfterDone(w))'
    <3>1. UNCHANGED <<viewer[w], shown[w], written, worker, reaped>>
        BY <2>1, <2>3, <2>6 DEF feed
    <3>2. ReadOn(viewer[w]) /\ InPlace(w) /\ NothingAfterDone(w)
        BY DEF StreamInv
    <3>3. ReadOn(viewer[w])'
        BY <3>1, <3>2 DEF ReadOn
    <3>4. InPlace(w)'
        BY <3>1, <3>2 DEF InPlace, LogLines, UpTo
    <3>5. NothingAfterDone(w)'
        BY <3>1, <3>2 DEF NothingAfterDone
    <3> QED BY <3>3, <3>4, <3>5
  <2>7. ReadOn(viewer[v])'
      BY <2>2, <2>3 DEF ReadOn
  <2>8. InPlace(v)'
    <3>1. LogLines(v)' = {}
        BY <2>3 DEF LogLines
    <3> QED BY <2>2, <2>3, <3>1, FS_EmptySet DEF InPlace
  <2>9. NothingAfterDone(v)'
      BY <1>3 DEF NothingAfterDone
  <2> QED BY <2>4, <2>5, <2>6, <2>7, <2>8, <2>9 DEF StreamInv
<1> QED BY <1>2, <1>3

LEMMA DisconnectStep ==
    ASSUME StreamInv, HasRun, NEW v \in Viewers, Disconnect(v)
    PROVE  StreamInv'
<1> DEFINE x == [viewer[v] EXCEPT !.at = "away"]
<1>1. viewer' = [viewer EXCEPT ![v] = x] /\ UNCHANGED <<feed, shown>>
    BY DEF Disconnect
<1>2. IsViewer(viewer[v]) /\ ReadOn(viewer[v])
    BY DEF StreamInv, HasTypes
<1>3. /\ IsViewer(x) /\ x.after = viewer[v].after /\ x.got = viewer[v].got
      /\ x.done = viewer[v].done /\ x.at = "away"
    BY <1>2 DEF IsViewer
<1> HIDE DEF x
<1>4. ReadOn(x)
    BY <1>2, <1>3 DEF ReadOn
<1> QED BY <1>1, <1>3, <1>4, ViewerStep

\* What an answer sends: the rows read, each with its number, and behind them no row,
\* and done only when the run's row said so.
LEMMA SentRows ==
    ASSUME StreamInv, HasRun, NEW v \in Viewers
    PROVE  LET s == SentTo(v)
               n == Len(viewer[v].got)
           IN  /\ s \in Seq(Events) /\ n \in Nat /\ n <= Len(s)
               /\ \A i \in 1 .. n : s[i] = <<"log", viewer[v].after + i>>
               /\ \A i \in (n + 1) .. Len(s) : s[i][1] # "log"
               /\ Contains(s, <<"done", 0>>) => viewer[v].done
<1> DEFINE y == viewer[v]
           n == Len(y.got)
           r == [i \in DOMAIN y.got |-> <<"log", y.got[i]>>]
           p == IF y.progress # y.last THEN << <<"progress", y.progress>> >> ELSE <<>>
           d == IF y.done THEN << <<"done", 0>> >> ELSE <<>>
<1>1. IsViewer(y) /\ ReadOn(y)
    BY DEF StreamInv, HasTypes
<1>2. y.got \in Seq(Nat) /\ n \in Nat /\ DOMAIN y.got = 1 .. n /\ y.after \in Nat /\ y.progress \in Int
    BY <1>1 DEF IsViewer
<1>3. \A i \in 1 .. n : y.got[i] = y.after + i
    BY <1>1 DEF ReadOn
<1> HIDE DEF y
<1>4. r \in Seq(Events) /\ Len(r) = n /\ \A i \in 1 .. n : r[i] = <<"log", y.after + i>>
  <2>1. \A i \in 1 .. n : <<"log", y.got[i]>> \in Events
      BY <1>2, <1>3 DEF Events
  <2>2. r = [i \in 1 .. n |-> <<"log", y.got[i]>>]
      BY <1>2
  <2> HIDE DEF r, n
  <2> QED BY <1>2, <1>3, <2>1, <2>2
<1>5. p \in Seq(Events) /\ \A i \in 1 .. Len(p) : p[i][1] = "progress"
  <2>1. <<"progress", y.progress>> \in Events
      BY <1>2 DEF Events
  <2>2. CASE y.progress # y.last
    <3>1. p = << <<"progress", y.progress>> >>
        BY <2>2
    <3> QED BY <2>1, <3>1
  <2>3. CASE y.progress = y.last
    <3>1. p = <<>>
        BY <2>3
    <3> QED BY <3>1
  <2> QED BY <2>2, <2>3
<1>6. d \in Seq(Events) /\ \A i \in 1 .. Len(d) : d[i][1] = "done" /\ y.done
    BY DEF Events
<1>7. SentTo(v) = r \o p \o d
    BY DEF SentTo, y
<1> HIDE DEF r, p, d, n
<1> DEFINE s == r \o p \o d
<1>8. s \in Seq(Events) /\ Len(s) = n + Len(p) + Len(d)
  <2>1. ASSUME NEW a \in Seq(Events), NEW b \in Seq(Events)
        PROVE  a \o b \in Seq(Events) /\ Len(a \o b) = Len(a) + Len(b)
      OBVIOUS
  <2>2. r \in Seq(Events) /\ p \in Seq(Events) /\ d \in Seq(Events) /\ Len(r) = n
      BY <1>4, <1>5, <1>6
  <2> HIDE DEF s
  <2> QED BY <2>1, <2>2 DEF s
<1>9. \A i \in 1 .. n : s[i] = r[i]
    BY <1>2, <1>4, <1>5, <1>6
<1>10. ASSUME NEW i \in (n + 1) .. Len(s)
       PROVE  (s[i][1] = "progress") \/ (s[i][1] = "done" /\ y.done)
  <2>1. CASE i <= n + Len(p)
    <3>1. i - n \in 1 .. Len(p) /\ s[i] = p[i - n]
        BY <1>2, <1>4, <1>5, <1>6, <2>1
    <3> QED BY <1>5, <3>1
  <2>2. CASE i > n + Len(p)
    <3>1. i - n - Len(p) \in 1 .. Len(d) /\ s[i] = d[i - n - Len(p)]
        BY <1>2, <1>4, <1>5, <1>6, <1>8, <2>2
    <3> QED BY <1>6, <3>1
  <2> QED BY <1>2, <1>5, <1>8, <2>1, <2>2
<1> HIDE DEF s
<1>11. ASSUME Contains(s, <<"done", 0>>) PROVE y.done
  <2>1. PICK i \in 1 .. Len(s) : s[i] = <<"done", 0>>
      BY <1>11 DEF Contains
  <2>2. i \notin 1 .. n
      BY <1>4, <1>9, <2>1
  <2>3. i \in (n + 1) .. Len(s)
      BY <1>2, <1>8, <2>2
  <2> QED BY <1>10, <2>1, <2>3
<1>12. n <= Len(s)
    BY <1>2, <1>5, <1>6, <1>8
<1> QED BY <1>2, <1>4, <1>7, <1>8, <1>9, <1>10, <1>11, <1>12 DEF s, y, n

\* A finite set of places followed by k more: how many there are.
LEMMA PlacesAfter ==
    ASSUME NEW m \in Nat, NEW k \in Nat, NEW S \in SUBSET (1 .. m), IsFiniteSet(S)
    PROVE  /\ IsFiniteSet(S \cup ((m + 1) .. (m + k)))
           /\ Cardinality(S \cup ((m + 1) .. (m + k))) = Cardinality(S) + k
<1> DEFINE T == (m + 1) .. (m + k)
<1>1. IsFiniteSet(T) /\ Cardinality(T) = IF m + 1 > m + k THEN 0 ELSE m + k - (m + 1) + 1
    BY FS_Interval
<1>2. (IF m + 1 > m + k THEN 0 ELSE m + k - (m + 1) + 1) = k
    OBVIOUS
<1>3. S \cap T = {}
    OBVIOUS
<1>4. Cardinality(S) \in Nat
    BY FS_CardinalityType
<1> HIDE DEF T
<1>5. Cardinality(S \cap T) = 0
    BY <1>3, FS_EmptySet
<1>6. /\ IsFiniteSet(S \cup T)
      /\ Cardinality(S \cup T) = Cardinality(S) + Cardinality(T) - Cardinality(S \cap T)
    BY <1>1, FS_Union
<1> QED BY <1>1, <1>2, <1>4, <1>5, <1>6 DEF T

\* An answer shows the rows that were read behind those shown before, each at its place.
LEMMA AnswerInPlace ==
    ASSUME StreamInv, HasRun, NEW v \in Viewers, NEW s, shown'[v] = shown[v] \o s,
           s \in Seq(Events), NEW n \in Nat, n <= Len(s),
           \A i \in 1 .. n : s[i] = <<"log", viewer[v].after + i>>,
           \A i \in (n + 1) .. Len(s) : s[i][1] # "log",
           viewer'[v].after = viewer[v].after + n
    PROVE  InPlace(v)'
<1> DEFINE L == LogLines(v)
           e == shown[v]
           m == Len(e)
           a == viewer[v].after
           T(k) == (m + 1) .. (m + k)
<1>1. e \in Seq(Events) /\ m \in Nat /\ DOMAIN e = 1 .. m /\ a \in Nat /\ InPlace(v)
  <2>1. HasTypes /\ InPlace(v)
      BY DEF StreamInv
  <2>2. e \in Seq(Events)
      BY <2>1 DEF HasTypes
  <2>3. IsViewer(viewer[v])
      BY <2>1 DEF HasTypes
  <2>4. a \in Nat
      BY <2>3 DEF IsViewer
  <2>5. m \in Nat /\ DOMAIN e = 1 .. m
    <3> HIDE DEF e
    <3> QED BY <2>2
  <2> HIDE DEF e, m, a
  <2> QED BY <2>1, <2>2, <2>4, <2>5
<1>2. L \in SUBSET (1 .. m) /\ IsFiniteSet(L) /\ Cardinality(L) = a
    BY <1>1 DEF LogLines, InPlace
<1>3. /\ DOMAIN (e \o s) = 1 .. (m + Len(s)) /\ Len(s) \in Nat
      /\ \A i \in 1 .. m : (e \o s)[i] = e[i]
      /\ \A i \in 1 .. Len(s) : (e \o s)[m + i] = s[i]
  <2> HIDE DEF e
  <2>1. e \in Seq(Events) /\ s \in Seq(Events) /\ m = Len(e)
      BY <1>1
  <2> HIDE DEF m
  <2> QED BY <2>1
<1> HIDE DEF e, m, a
<1>4. LogLines(v)' = L \cup T(n)
  <2>1. LogLines(v)' = {i \in 1 .. (m + Len(s)) : (e \o s)[i][1] = "log"}
      BY <1>3 DEF LogLines, e
  <2>2. L = {i \in 1 .. m : e[i][1] = "log"}
      BY <1>1 DEF LogLines, e
  <2>3. \A i \in 1 .. m : i \in LogLines(v)' <=> i \in L
      BY <1>1, <1>3, <2>1, <2>2
  <2>4. ASSUME NEW i \in 1 .. Len(s) PROVE (m + i \in LogLines(v)') <=> i <= n
    <3>1. (e \o s)[m + i] = s[i] /\ m + i \in 1 .. (m + Len(s))
        BY <1>1, <1>3
    <3>2. s[i][1] = "log" <=> i <= n
      <4>1. CASE i <= n
          BY <4>1
      <4>2. CASE i > n
          BY <4>2
      <4> QED BY <1>3, <4>1, <4>2
    <3> QED BY <2>1, <3>1, <3>2
  <2>5. ASSUME NEW i PROVE (i \in LogLines(v)') <=> (i \in L \cup T(n))
    <3>1. CASE i \in 1 .. m
        BY <1>1, <2>3, <3>1
    <3>2. CASE i \in (m + 1) .. (m + Len(s))
      <4>1. i - m \in 1 .. Len(s) /\ i = m + (i - m) /\ i \notin L
          BY <1>1, <1>2, <1>3, <3>2
      <4>2. i \in LogLines(v)' <=> i - m <= n
          BY <2>4, <4>1
      <4> QED BY <1>1, <3>2, <4>1, <4>2
    <3>3. CASE i \notin 1 .. m /\ i \notin (m + 1) .. (m + Len(s))
        BY <1>1, <1>2, <1>3, <2>1, <3>3
    <3> QED BY <3>1, <3>2, <3>3
  <2> QED BY <2>5
<1>5. ASSUME NEW k \in 0 .. n
      PROVE  IsFiniteSet(L \cup T(k)) /\ Cardinality(L \cup T(k)) = a + k
  <2> HIDE DEF L
  <2>1. k \in Nat
      OBVIOUS
  <2> QED BY <1>1, <1>2, <2>1, PlacesAfter
<1> HIDE DEF L
<1>6. IsFiniteSet(LogLines(v)') /\ Cardinality(LogLines(v)') = viewer'[v].after
  <2>1. n \in 0 .. n /\ viewer'[v].after = a + n
      BY DEF a
  <2>2. IsFiniteSet(L \cup T(n)) /\ Cardinality(L \cup T(n)) = a + n
    <3> HIDE DEF T
    <3> QED BY <1>5, <2>1
  <2> HIDE DEF T
  <2> QED BY <1>4, <2>1, <2>2
<1>7. ASSUME NEW i \in LogLines(v)' PROVE shown'[v][i][2] = UpTo(v, i)'
  <2>1. UpTo(v, i)' = Cardinality({j \in L \cup T(n) : j <= i})
      BY <1>4 DEF UpTo
  <2>2. CASE i \in L
    <3>0. i \in 1 .. m
        BY <1>2, <2>2
    <3>1. {j \in L \cup T(n) : j <= i} = {j \in L : j <= i}
      <4>1. \A j \in T(n) : ~(j <= i)
          BY <1>1, <3>0
      <4> HIDE DEF T
      <4> QED BY <4>1
    <3>2. e[i][2] = UpTo(v, i)
        BY <1>1, <2>2 DEF InPlace, e, L
    <3>3. UpTo(v, i) = Cardinality({j \in L : j <= i})
        BY DEF UpTo, L
    <3> QED BY <1>3, <2>1, <3>0, <3>1, <3>2, <3>3 DEF e
  <2>3. CASE i \in T(n)
    <3> DEFINE k == i - m
    <3>1. k \in 1 .. n /\ i = m + k /\ k \in 1 .. Len(s)
        BY <1>1, <1>3, <2>3
    <3>2. {j \in L \cup T(n) : j <= i} = L \cup T(k)
      <4>1. \A j \in L : j <= i
          BY <1>1, <1>2, <3>1
      <4>2. \A j : j \in T(n) /\ j <= i <=> j \in T(k)
          BY <1>1, <3>1
      <4> HIDE DEF T
      <4> QED BY <4>1, <4>2
    <3>3. shown'[v][i] = <<"log", a + k>>
      <4>1. (e \o s)[m + k] = s[k] /\ s[k] = <<"log", a + k>>
          BY <1>3, <3>1 DEF a
      <4> QED BY <3>1, <4>1 DEF e
    <3> HIDE DEF T, k
    <3>4. Cardinality(L \cup T(k)) = a + k
      <4>1. k \in 0 .. n
          BY <3>1
      <4> QED BY <1>5, <4>1
    <3>5. UpTo(v, i)' = a + k
        BY <2>1, <3>2, <3>4
    <3> QED BY <3>3, <3>5
  <2> QED BY <1>4, <2>2, <2>3
<1> QED BY <1>6, <1>7 DEF InPlace

LEMMA AnswerStep ==
    ASSUME StreamInv, HasRun, NEW v \in Viewers, AnswerViewer(v)
    PROVE  StreamInv'
<1> DEFINE y == viewer[v]
           n == Len(y.got)
           s == SentTo(v)
           after == IF y.got = <<>> THEN y.after ELSE Last(y.got)
           at == IF Kind[v] = "poll" \/ y.done THEN "away" ELSE "first"
           x == [y EXCEPT !.at = at, !.after = after, !.last = y.progress, !.got = <<>>]
<1>1. /\ y.at = "answer" /\ UNCHANGED feed
      /\ viewer' = [viewer EXCEPT ![v] = x] /\ shown' = [shown EXCEPT ![v] = shown[v] \o s]
    BY DEF AnswerViewer
<1>2. IsViewer(y) /\ ReadOn(y) /\ written \in Nat
    BY DEF StreamInv, HasTypes
<1>3. /\ s \in Seq(Events) /\ n \in Nat /\ n <= Len(s)
      /\ \A i \in 1 .. n : s[i] = <<"log", y.after + i>>
      /\ \A i \in (n + 1) .. Len(s) : s[i][1] # "log"
      /\ Contains(s, <<"done", 0>>) => y.done
    BY SentRows
<1>4. after = y.after + n /\ y.after \in Nat /\ after \in Nat
  <2>1. y.got \in Seq(Nat) /\ y.after \in Nat
      BY <1>2 DEF IsViewer
  <2>2. CASE y.got = <<>>
      BY <2>1, <2>2
  <2>3. CASE y.got # <<>>
    <3>1. n \in 1 .. n /\ y.got[n] = y.after + n
        BY <1>2, <2>1, <2>3 DEF ReadOn
    <3> QED BY <2>1, <2>3, <3>1 DEF Last
  <2> QED BY <2>1, <2>2, <2>3
<1>0. at \in {"away", "first"} /\ (Kind[v] = "poll" => at = "away")
    OBVIOUS
<1> HIDE DEF s, after, at
<1>5. /\ IsViewer(x) /\ x.after = after /\ x.got = <<>> /\ x.done = y.done
      /\ Kind[v] = "poll" => x.at = "away"
  <2>1. y.progress \in Int /\ <<>> \in Seq(Nat)
      BY <1>2 DEF IsViewer
  <2> HIDE DEF y
  <2> QED BY <1>0, <1>2, <1>4, <2>1 DEF IsViewer
<1> HIDE DEF x, y
<1>6. /\ viewer'[v] = x /\ shown'[v] = shown[v] \o s
      /\ \A w \in Viewers \ {v} : viewer'[w] = viewer[w] /\ shown'[w] = shown[w]
      /\ written' = written /\ worker' = worker /\ reaped' = reaped
    BY <1>1 DEF StreamInv, HasTypes, feed
<1>7. HasTypes'
  <2>1. shown[v] \o s \in Seq(Events)
      BY <1>3 DEF StreamInv, HasTypes
  <2> QED BY <1>1, <1>5, <1>6, <2>1 DEF StreamInv, HasTypes, feed
<1>8. TableFull'
    BY <1>1 DEF StreamInv, TableFull, feed
<1>9. ASSUME NEW w \in Viewers, w # v
      PROVE (ReadOn(viewer[w]) /\ InPlace(w) /\ NothingAfterDone(w))'
  <2>1. UNCHANGED <<viewer[w], shown[w], written, worker, reaped>>
      BY <1>6, <1>9
  <2>2. ReadOn(viewer[w]) /\ InPlace(w) /\ NothingAfterDone(w)
      BY DEF StreamInv
  <2>3. ReadOn(viewer[w])'
      BY <2>1, <2>2 DEF ReadOn
  <2>4. InPlace(w)'
      BY <2>1, <2>2 DEF InPlace, LogLines, UpTo
  <2>5. NothingAfterDone(w)'
      BY <2>1, <2>2 DEF NothingAfterDone
  <2> QED BY <2>3, <2>4, <2>5
<1>10. y.after + n <= written
    BY <1>2 DEF ReadOn
<1>11. ReadOn(viewer[v])'
    BY <1>4, <1>5, <1>6, <1>10 DEF ReadOn
<1>12. InPlace(v)'
  <2>1. viewer'[v].after = viewer[v].after + n
      BY <1>4, <1>5, <1>6 DEF y
  <2> HIDE DEF n
  <2> QED BY <1>3, <1>6, <2>1, AnswerInPlace DEF y
<1>13. NothingAfterDone(v)'
  <2> SUFFICES ASSUME Kind[v] = "poll", ~reaped
               PROVE  /\ x.done => worker = "ended"
                      /\ Contains(shown'[v], <<"done", 0>>) => worker = "ended" /\ after = written
      BY <1>5, <1>6 DEF NothingAfterDone
  <2>1. /\ y.done => worker = "ended" /\ y.after + n = written
        /\ Contains(shown[v], <<"done", 0>>) => worker = "ended" /\ y.after = written
      BY <1>1 DEF StreamInv, NothingAfterDone, y
  <2>2. ASSUME Contains(shown'[v], <<"done", 0>>)
        PROVE  Contains(shown[v], <<"done", 0>>) \/ y.done
    <3>1. shown[v] \in Seq(Events)
        BY DEF StreamInv, HasTypes
    <3> DEFINE e == shown[v]
    <3> HIDE DEF e
    <3>2. PICK i \in 1 .. Len(e \o s) : (e \o s)[i] = <<"done", 0>>
        BY <1>6, <2>2 DEF Contains, e
    <3>3. CASE i \in 1 .. Len(e)
      <4>1. e[i] = <<"done", 0>>
          BY <1>3, <3>1, <3>2, <3>3 DEF e
      <4> QED BY <3>3, <4>1 DEF Contains, e
    <3>4. CASE i \notin 1 .. Len(e)
      <4>1. i - Len(e) \in 1 .. Len(s) /\ s[i - Len(e)] = <<"done", 0>>
          BY <1>3, <3>1, <3>2, <3>4 DEF e
      <4> QED BY <1>3, <4>1 DEF Contains
    <3> QED BY <3>3, <3>4
  <2> QED BY <1>3, <1>4, <1>5, <1>10, <2>1, <2>2
<1> QED BY <1>7, <1>8, <1>9, <1>11, <1>12, <1>13 DEF StreamInv
----------------------------------------------------------------------------
LEMMA EmitStep ==
    ASSUME StreamInv, HasRun, Emit \/ Break
    PROVE  StreamInv'
<1>1. /\ worker = "busy" /\ worker' \in {"busy", "failing"} /\ written' = written + 1
      /\ logs' = logs \cup {written + 1} /\ UNCHANGED <<run, reaped, viewer, shown>>
    BY DEF Emit, Break
<1>2. written \in Nat /\ written' >= written
    BY <1>1 DEF StreamInv, HasTypes
<1>3. HasTypes'
    BY <1>1 DEF StreamInv, HasTypes
<1>4. TableFull'
    BY <1>1, <1>2 DEF StreamInv, TableFull
<1> QED BY <1>1, <1>2, <1>3, <1>4, FeedStep

\* The percentage and the end of the run leave the rows alone.
LEMMA RunStep ==
    ASSUME StreamInv, HasRun, Progress \/ Finish \/ Fail \/ Reap
    PROVE  StreamInv'
<1> DEFINE RunRows == [status : {"streaming", "completed", "failed"}, progress : Int]
<1>1. run \in RunRows /\ worker \in {"busy", "failing", "ended"} /\ reaped \in BOOLEAN
    BY DEF StreamInv, HasTypes
<1>2. /\ UNCHANGED <<written, logs, viewer, shown>>
      /\ run' \in RunRows
      /\ worker' \in {"busy", "failing", "ended"} /\ (worker = "ended" => worker' = "ended")
      /\ reaped' \in BOOLEAN /\ (reaped => reaped')
      /\ run'.status # "streaming" => run.status # "streaming" \/ worker' = "ended" \/ reaped'
  <2>1. CASE Progress
    <3>1. PICK pct \in Percents : run' = [run EXCEPT !.progress = pct]
        BY <2>1 DEF Progress
    <3>2. pct \in Int
        BY LogStreamAssumption
    <3> QED BY <1>1, <2>1, <3>1, <3>2 DEF Progress
  <2>2. CASE Finish
      BY <1>1, <2>2 DEF Finish
  <2>3. CASE Fail
      BY <1>1, <2>3 DEF Fail
  <2>4. CASE Reap
      BY <1>1, <2>4 DEF Reap
  <2> QED BY <2>1, <2>2, <2>3, <2>4
<1>3. HasTypes'
    BY <1>1, <1>2 DEF StreamInv, HasTypes
<1>4. TableFull'
    BY <1>1, <1>2 DEF StreamInv, TableFull
<1>5. written' >= written
    BY <1>2 DEF StreamInv, HasTypes
<1> QED BY <1>2, <1>3, <1>4, <1>5, FeedStep

\* A run that was removed does not come back.
LEMMA RunStaysGone == ASSUME StreamNext, HasRun' PROVE HasRun
<1>1. ASSUME ~HasRun PROVE run' = run
    BY <1>1 DEF StreamNext, Emit, Progress, Break, Finish, Fail, Reap, RemoveRun, Connect,
        SelectLogs, SelectRun, AnswerViewer, Disconnect, feed, HasRun
<1> QED BY <1>1 DEF HasRun

LEMMA StreamInvStep == StreamInv /\ [StreamNext]_streamVars => StreamInv'
<1> SUFFICES ASSUME StreamInv, [StreamNext]_streamVars, HasRun' PROVE StreamInv'
    BY DEF StreamInv
<1>1. CASE UNCHANGED streamVars
  <2>1. UNCHANGED <<worker, written, logs, run, reaped, viewer, shown>>
      BY <1>1 DEF streamVars, feed
  <2>2. HasRun
      BY <2>1 DEF HasRun
  <2>3. HasTypes' /\ TableFull'
      BY <2>1, <2>2 DEF StreamInv, HasTypes, TableFull
  <2>4. written' >= written
      BY <2>1 DEF StreamInv, HasTypes, HasRun
  <2> QED BY <2>1, <2>2, <2>3, <2>4, FeedStep
<1>2. CASE StreamNext
  <2>1. HasRun
      BY <1>2, RunStaysGone
  <2>2. CASE Emit \/ Break
      BY <2>1, <2>2, EmitStep
  <2>3. CASE Progress \/ Finish \/ Fail \/ Reap
      BY <2>1, <2>3, RunStep
  <2>4. CASE RemoveRun
      BY <2>4 DEF RemoveRun, HasRun
  <2>5. ASSUME NEW v \in Viewers, Connect(v) PROVE StreamInv'
      BY <2>1, <2>5, ConnectStep
  <2>6. ASSUME NEW v \in Viewers, SelectLogs(v) PROVE StreamInv'
      BY <2>1, <2>6, SelectLogsStep
  <2>7. ASSUME NEW v \in Viewers, SelectRun(v) PROVE StreamInv'
      BY <2>1, <2>7, SelectRunStep
  <2>8. ASSUME NEW v \in Viewers, AnswerViewer(v) PROVE StreamInv'
      BY <2>1, <2>8, AnswerStep
  <2>9. ASSUME NEW v \in Viewers, Disconnect(v) PROVE StreamInv'
      BY <2>1, <2>9, DisconnectStep
  <2> QED BY <1>2, <2>2, <2>3, <2>4, <2>5, <2>6, <2>7, <2>8, <2>9 DEF StreamNext
<1> QED BY <1>1, <1>2

\* Whatever the order in which the two SELECTs of a viewer, the worker, a process start
\* and a DELETE take their turns, a viewer is shown the rows in their order, none twice
\* and none left out, and a poll that says done has returned the last of them
\* (stream_logs and poll_logs of ingestion.py).
THEOREM LogCompleteAlways == StreamSpec => []LogComplete
<1>1. StreamInv => LogComplete
  <2> SUFFICES ASSUME StreamInv, HasRun, NEW v \in Viewers
               PROVE  /\ \A i \in LogLines(v) : shown[v][i][2] = UpTo(v, i)
                      /\ Kind[v] = "poll" /\ ~reaped /\ Contains(shown[v], <<"done", 0>>)
                            => Cardinality(LogLines(v)) = written
      BY DEF LogComplete
  <2> QED BY DEF StreamInv, InPlace, NothingAfterDone
<1> QED BY <1>1, StreamInvInit, StreamInvStep, PTL DEF StreamSpec
-----------------------------------------------------------------------------
(* The export of a trial.                                                   *)

Steps == {"idle", "look", "source", "lock", "recheck", "build", "upload", "copy", "read", "done"}

\* Where an export stands only while it has its process' lock of the model.
Inner == {"recheck", "build", "upload", "copy"}

ExportTypes ==
    /\ export \in [Exports -> Steps]
    /\ holder \in [Processes -> Exports \cup {Unowned}]
    /\ known \in {"model", "configs", "gone"}
    /\ source \in {"none", "small", "large"}
    /\ artifact \in {"none", "part", "whole"}

\* The lock excludes: of the exports of one process only its holder is inside.
LockHeld == \A x \in Exports : export[x] \in Inner => Lock(x) = x

\* Between the second look and its own write, an export meets only what another
\* process has written.
OwnStillMissing ==
    \A x \in Exports :
        export[x] \in {"build", "upload"} /\ artifact # "none" => writer # ProcessOf[x]

ExportInv == ExportTypes /\ LockHeld /\ OwnStillMissing

ExportSpec == ExportInit /\ [][ExportNext]_exportVars
----------------------------------------------------------------------------
LEMMA ExportInvInit == ExportInit => ExportInv
BY TrialExportAssumption
   DEF ExportInit, ExportInv, ExportTypes, LockHeld, OwnStillMissing, Steps, Inner

LEMMA ExportInvStep ==
    ASSUME ExportInv, [ExportNext]_exportVars
    PROVE  ExportInv'
<1> USE TrialExportAssumption
    DEF ExportInv, ExportTypes, LockHeld, OwnStillMissing, Lock, Steps, Inner
<1>1. ASSUME NEW x \in Exports, ReadConfig(x) PROVE ExportInv'
    BY <1>1 DEF ReadConfig, Reply, Goto
<1>2. ASSUME NEW x \in Exports, LookUpExport(x) PROVE ExportInv'
    BY <1>2 DEF LookUpExport, Goto
<1>3. ASSUME NEW x \in Exports, LookUpSource(x) PROVE ExportInv'
    BY <1>3 DEF LookUpSource, Reply, Goto
<1>4. ASSUME NEW x \in Exports, AcquireLock(x) PROVE ExportInv'
    BY <1>4 DEF AcquireLock, Goto
<1>5. ASSUME NEW x \in Exports, RecheckExport(x) PROVE ExportInv'
    BY <1>5 DEF RecheckExport, StillMissing, Goto, Release
<1>6. ASSUME NEW x \in Exports, ReadSource(x) PROVE ExportInv'
  <2>1. CASE source = "small"
      BY <1>6, <2>1 DEF ReadSource, Goto
  <2>2. CASE source # "small"
    <3>1. /\ export' = [export EXCEPT ![x] = "done"]
          /\ holder' = [holder EXCEPT ![ProcessOf[x]] = Unowned]
          /\ UNCHANGED <<known, source, artifact, writer>>
        BY <1>6, <2>2 DEF ReadSource, Reply, Release
    <3>2. \A y \in Exports \ {x} : ProcessOf[y] = ProcessOf[x] => export[y] \notin Inner
        BY <1>6 DEF ReadSource
    <3> QED BY <3>1, <3>2
  <2> QED BY <2>1, <2>2
<1>7. ASSUME NEW x \in Exports, BeginUpload(x) PROVE ExportInv'
  <2>1. \A y \in Exports \ {x} : ProcessOf[y] = ProcessOf[x] => export'[y] \notin Inner
      BY <1>7 DEF BeginUpload, Goto
  <2> QED BY <1>7, <2>1 DEF BeginUpload, Goto
<1>8. ASSUME NEW x \in Exports, EndUpload(x) PROVE ExportInv'
  <2>1. artifact' # "none" => artifact # "none"
      BY <1>8 DEF EndUpload
  <2> QED BY <1>8, <2>1 DEF EndUpload, Goto, Release
<1>9. ASSUME NEW x \in Exports, ReadBack(x) PROVE ExportInv'
    BY <1>9 DEF ReadBack, Reply
<1>10. ASSUME NEW g \in Downloads, Download(g) PROVE ExportInv'
    BY <1>10 DEF Download
<1>11. CASE UploadIngested
    BY <1>11 DEF UploadIngested
<1>12. CASE CacheConfigs
    BY <1>12 DEF CacheConfigs
<1>13. CASE DeleteRows
    BY <1>13 DEF DeleteRows
<1>14. CASE PurgeObjects
    BY <1>14 DEF PurgeObjects
<1>15. ASSUME NEW p \in Processes, CrashProcess(p) PROVE ExportInv'
    BY <1>15 DEF CrashProcess
<1>16. CASE UNCHANGED exportVars
    BY <1>16 DEF exportVars
<1> QED BY <1>1, <1>2, <1>3, <1>4, <1>5, <1>6, <1>7, <1>8, <1>9, <1>10, <1>11,
           <1>12, <1>13, <1>14, <1>15, <1>16 DEF ExportNext

\* The inductive invariant of the export holds in every reachable state: the types,
\* who holds a process's lock, and who is writing the artifact (trial_export.py).
THEOREM ExportInvariant == ExportSpec => []ExportInv
BY ExportInvInit, ExportInvStep, PTL DEF ExportSpec

\* Two exports that are both inside belong to different processes.
LockExcludes ==
    \A x, y \in Exports :
        {export[x], export[y]} \subseteq Inner /\ ProcessOf[x] = ProcessOf[y] => x = y

\* Of the exports of one process, at most one is between its second look at the
\* artifact and its read-back, so only one builds (_LOCK of trial_export.py).
THEOREM LockCorrect == ExportSpec => []LockExcludes
<1>1. ExportInv => LockExcludes
    BY DEF ExportInv, LockHeld, Lock, LockExcludes
<1> QED BY <1>1, ExportInvariant, PTL

\* A process never writes over an artifact it finished, whatever its other requests,
\* the other processes, a crash, the worker and a DELETE do (trial_export.py: the
\* look after the lock).
THEOREM BuiltOnce == ExportSpec => BuiltOncePerProcess
<1>1. ASSUME ExportInv, [ExportNext]_exportVars,
             NEW x \in Exports, artifact = "whole", export[x] = "upload", export'[x] = "copy"
      PROVE  writer' # writer
  <2>1. writer # ProcessOf[x]
      BY <1>1 DEF ExportInv, OwnStillMissing
  <2>2. BeginUpload(x)
    <3>1. ASSUME NEW y \in Exports, export'[x] = "copy",
                 \/ ReadConfig(y) \/ LookUpExport(y) \/ LookUpSource(y)
                 \/ AcquireLock(y) \/ RecheckExport(y) \/ ReadSource(y)
                 \/ EndUpload(y) \/ ReadBack(y)
          PROVE  FALSE
        BY <1>1, <3>1 DEF ExportInv, ExportTypes, Reply, Goto, ReadConfig, LookUpExport,
           LookUpSource, AcquireLock, RecheckExport, ReadSource, EndUpload, ReadBack
    <3>2. ASSUME NEW y \in Exports, BeginUpload(y) PROVE y = x
        BY <1>1, <3>2 DEF ExportInv, ExportTypes, Goto, BeginUpload
    <3>3. ~ UNCHANGED export
        BY <1>1
    <3> QED BY <1>1, <3>1, <3>2, <3>3 DEF ExportNext, exportVars, Download, UploadIngested,
            CacheConfigs, DeleteRows, PurgeObjects, CrashProcess, ExportInv, ExportTypes
  <2> QED BY <2>1, <2>2 DEF BeginUpload
<1> DEFINE Kept == \A x \in Exports :
                      artifact = "whole" /\ export[x] = "upload" /\ export'[x] = "copy"
                          => writer' # writer
<1>2. ExportInv /\ [ExportNext]_exportVars => [Kept]_exportVars
    BY <1>1
<1>3. ExportSpec => [][Kept]_exportVars
    BY <1>2, ExportInvariant, PTL DEF ExportSpec
<1> QED BY <1>3 DEF BuiltOncePerProcess

-----------------------------------------------------------------------------
(* The requests that create, stop and delete deployments.                   *)

USE DEF Rows, Unread, Issuers, ModelStatuses, requests

LEMMA TypeOKStep ==
    ASSUME TypeOK, [Next]_vars
    PROVE  TypeOK'
<1> USE DeploymentsAssumption DEF TypeOK, Exists, KeysOf, Revoke
<1>1. ASSUME NEW d \in Ids, CreateRead(d) PROVE TypeOK'
    BY <1>1 DEF CreateRead, ReadModel
<1>2. ASSUME NEW d \in Ids, CreateCommit(d) PROVE TypeOK'
    BY <1>2 DEF CreateCommit, Sets, Stale, Forget
<1>3. ASSUME NEW d \in Ids, CreateStale(d) PROVE TypeOK'
    BY <1>3 DEF CreateStale, Stale, Forget
<1>4. ASSUME NEW d \in Ids, CreateIssue(d) PROVE TypeOK'
    BY <1>4 DEF CreateIssue, IssueKey
<1>5. ASSUME NEW d \in Ids, DeleteRead(d) PROVE TypeOK'
    BY <1>5 DEF DeleteRead, KeysOf
<1>6. ASSUME NEW d \in Ids, RevokeKeys(d) PROVE TypeOK'
    BY <1>6 DEF RevokeKeys, Revoke
<1>7. ASSUME NEW d \in Ids, DropRow(d) PROVE TypeOK'
    BY <1>7 DEF DropRow
<1>8. ASSUME NEW d \in Ids, CountRemaining(d) PROVE TypeOK'
    BY <1>8 DEF CountRemaining
<1>9. ASSUME NEW d \in Ids, ReleaseRead(d) PROVE TypeOK'
  <2>1. [status |-> model, flag |-> flag] \in [status : ModelStatuses, flag : BOOLEAN]
        OBVIOUS
  <2>2. seen' \in [Ids -> [status : ModelStatuses, flag : BOOLEAN]]
        BY <1>9, <2>1 DEF ReleaseRead, ReadModel
  <2> QED BY <1>9, <2>2 DEF ReleaseRead
<1>10. ASSUME NEW d \in Ids, ReleaseCommit(d) PROVE TypeOK'
    BY <1>10 DEF ReleaseCommit, Sets, Stale, Forget
<1>11. ASSUME NEW d \in Ids, Pause(d) PROVE TypeOK'
    BY <1>11 DEF Pause, SetStatus
<1>12. ASSUME NEW d \in Ids, Resume(d) PROVE TypeOK'
    BY <1>12 DEF Resume, SetStatus
<1>13. ASSUME NEW r \in Rotations, RotateRead(r) PROVE TypeOK'
    BY <1>13 DEF RotateRead, KeysOf
<1>14. ASSUME NEW r \in Rotations, RotateRevoke(r) PROVE TypeOK'
    BY <1>14 DEF RotateRevoke, Revoke
<1>15. ASSUME NEW r \in Rotations, RotateIssue(r) PROVE TypeOK'
    BY <1>15 DEF RotateIssue, IssueKey
<1>16. CASE PurgeRead
    BY <1>16 DEF PurgeRead
<1>17. CASE PurgeCommit
    BY <1>17 DEF PurgeCommit
<1>18. CASE ApiCrash
    BY <1>18 DEF ApiCrash, Drop, Halfway
<1>19. CASE ApiStart
    BY <1>19 DEF ApiStart, ReconcileDeployStatus
<1>20. CASE UNCHANGED vars
    BY <1>20 DEF vars, requests
<1> QED BY <1>1, <1>2, <1>3, <1>4, <1>5, <1>6, <1>7, <1>8, <1>9, <1>10,
           <1>11, <1>12, <1>13, <1>14, <1>15, <1>16, <1>17, <1>18, <1>19,
           <1>20
        DEF Next, Handler

\* Every reachable state has the declared types.
THEOREM TypeCorrect == Spec => []TypeOK
<1>1. Init => TypeOK
  <2> SUFFICES ASSUME Init PROVE TypeOK
      OBVIOUS
  <2>1. PICK kept \in SUBSET Legacy :
             /\ flag = (kept # {})
             /\ dep = [d \in Ids |-> IF d \in kept THEN "serving" ELSE "absent"]
             /\ create = [d \in Ids |-> IF d \in kept THEN "done" ELSE "no"]
             /\ issued = kept \X {"create"}
        BY DEF Init
  <2>2. flag \in BOOLEAN
        BY <2>1
  <2>3. issued \subseteq Ids \X Issuers
        BY <2>1, DeploymentsAssumption
  <2>4. dep \in [Ids -> Rows \cup {"absent", "gone"}]
        BY <2>1
  <2>5. create \in [Ids -> {"no", "read", "issue", "done", "failed"}]
        BY <2>1
  <2>6. seen \in [Ids -> [status : ModelStatuses, flag : BOOLEAN]]
        BY DEF Init
  <2> QED BY <2>2, <2>3, <2>4, <2>5, <2>6 DEF Init, TypeOK
<1> QED BY <1>1, TypeOKStep, PTL DEF Spec

-----------------------------------------------------------------------------
\* The two badge attributes agree while the API serves; a handler that will
\* write them has read them in agreement; the one row that may disagree is a
\* legacy row, with its deployment, before the API has started.  No DELETE has
\* found a deployment that does not exist yet.
Agreeing(d) == seen[d].status # "none" /\ (seen[d].flag <=> seen[d].status = "deployed")

BadgeInv ==
    /\ model = "deployed" => flag
    /\ flag /\ model = "draft" => ~apiUp /\ \E d \in Ids : Exists(d)
    /\ model = "none" => ~flag
    /\ \A d \in Ids :
          create[d] = "read" \/ delete[d] = "release" => Agreeing(d)
    /\ \A d \in Ids :
          create[d] \in {"no", "read"}
              => dep[d] = "absent" /\ delete[d] = "no" /\ d \notin doomed

\* The last commit of a DELETE takes the badge away, or finds it already gone.
LEMMA ReleaseEffect ==
    ASSUME TypeOK, BadgeInv, NEW d \in Ids, ReleaseCommit(d)
    PROVE  /\ apiUp /\ delete[d] = "release"
           /\ \/ model' = model /\ flag' = flag
                 /\ (seen[d].status = "deployed" => model = "none")
              \/ model' = "draft" /\ flag' = FALSE
           /\ \E end \in {"failed", "done"} : delete' = [delete EXCEPT ![d] = end]
           /\ seen' = [seen EXCEPT ![d] = Unread]
           /\ UNCHANGED <<dep, create, doomed, apiUp, cut>>
<1>1. Agreeing(d)
      BY DEF ReleaseCommit, BadgeInv
<1>2. seen[d].flag \in BOOLEAN
      BY DEF TypeOK
<1>3. CASE seen[d].status = "deployed"
  <2>1. seen[d].flag = TRUE
        BY <1>1, <1>2, <1>3 DEF Agreeing
  <2> QED BY <1>3, <2>1 DEF ReleaseCommit, Sets, Stale, Forget
<1>4. CASE seen[d].status # "deployed"
  <2>1. seen[d].flag = FALSE
        BY <1>1, <1>2, <1>4 DEF Agreeing
  <2> QED BY <1>4, <2>1 DEF ReleaseCommit, Sets, Stale, Forget
<1> QED BY <1>3, <1>4

LEMMA BadgeInvStep ==
    ASSUME TypeOK, BadgeInv, [Next]_vars
    PROVE  BadgeInv'
<1> USE DeploymentsAssumption DEF TypeOK, BadgeInv, Agreeing, Exists
<1>1. ASSUME NEW d \in Ids, CreateRead(d) PROVE BadgeInv'
    BY <1>1 DEF CreateRead, ReadModel
<1>2. ASSUME NEW d \in Ids, CreateCommit(d) PROVE BadgeInv'
    BY <1>2 DEF CreateCommit, Sets, Stale, Forget
<1>3. ASSUME NEW d \in Ids, CreateStale(d) PROVE BadgeInv'
    BY <1>3 DEF CreateStale, Stale, Forget
<1>4. ASSUME NEW d \in Ids, CreateIssue(d) PROVE BadgeInv'
    BY <1>4 DEF CreateIssue, IssueKey
<1>5. ASSUME NEW d \in Ids, DeleteRead(d) PROVE BadgeInv'
    BY <1>5 DEF DeleteRead, KeysOf
<1>6. ASSUME NEW d \in Ids, RevokeKeys(d) PROVE BadgeInv'
    BY <1>6 DEF RevokeKeys, Revoke
<1>7. ASSUME NEW d \in Ids, DropRow(d) PROVE BadgeInv'
    BY <1>7 DEF DropRow
<1>8. ASSUME NEW d \in Ids, CountRemaining(d) PROVE BadgeInv'
    BY <1>8 DEF CountRemaining
<1>9. ASSUME NEW d \in Ids, ReleaseRead(d) PROVE BadgeInv'
    BY <1>9 DEF ReleaseRead, ReadModel
<1>10. ASSUME NEW d \in Ids, ReleaseCommit(d) PROVE BadgeInv'
    <2>1. /\ apiUp /\ delete[d] = "release"
          /\ (model' = model /\ flag' = flag) \/ (model' = "draft" /\ flag' = FALSE)
          /\ UNCHANGED <<dep, create, doomed, apiUp>>
          BY <1>10, ReleaseEffect
    <2>2. PICK end \in {"failed", "done"} : /\ delete' = [delete EXCEPT ![d] = end]
                                           /\ seen' = [seen EXCEPT ![d] = Unread]
          BY <1>10, ReleaseEffect
    <2>3. \A e \in Ids : create'[e] = "read" => e # d
          BY <2>1
    <2>4. \A e \in Ids :
             create'[e] = "read" \/ delete'[e] = "release" => Agreeing(e)'
          BY <2>1, <2>2, <2>3
    <2>5. \A e \in Ids :
             create'[e] \in {"no", "read"}
                 => dep'[e] = "absent" /\ delete'[e] = "no" /\ e \notin doomed'
          BY <2>1, <2>2
    <2> QED BY <2>1, <2>4, <2>5
<1>11. ASSUME NEW d \in Ids, Pause(d) PROVE BadgeInv'
    BY <1>11 DEF Pause, SetStatus
<1>12. ASSUME NEW d \in Ids, Resume(d) PROVE BadgeInv'
    BY <1>12 DEF Resume, SetStatus
<1>13. ASSUME NEW r \in Rotations, RotateRead(r) PROVE BadgeInv'
    BY <1>13 DEF RotateRead, KeysOf
<1>14. ASSUME NEW r \in Rotations, RotateRevoke(r) PROVE BadgeInv'
    BY <1>14 DEF RotateRevoke, Revoke
<1>15. ASSUME NEW r \in Rotations, RotateIssue(r) PROVE BadgeInv'
    BY <1>15 DEF RotateIssue, IssueKey
<1>16. CASE PurgeRead
    BY <1>16 DEF PurgeRead
<1>17. CASE PurgeCommit
    BY <1>17 DEF PurgeCommit
<1>18. CASE ApiCrash
    BY <1>18 DEF ApiCrash, Drop, Halfway
<1>19. CASE ApiStart
    BY <1>19 DEF ApiStart, ReconcileDeployStatus
<1>20. CASE UNCHANGED vars
    BY <1>20 DEF vars, requests
<1> QED BY <1>1, <1>2, <1>3, <1>4, <1>5, <1>6, <1>7, <1>8, <1>9, <1>10,
           <1>11, <1>12, <1>13, <1>14, <1>15, <1>16, <1>17, <1>18, <1>19,
           <1>20
        DEF Next, Handler
LEMMA BadgeInvHolds == Spec => []BadgeInv
<1>1. Init => BadgeInv
      BY DeploymentsAssumption DEF Init, BadgeInv, Exists
<1> QED BY <1>1, BadgeInvStep, TypeCorrect, PTL DEF Spec

\* Badge and flag agree while the API serves, for any interleaving of its
\* handlers and crashes (FlagAgrees).
THEOREM BadgeAndFlagAgree == Spec => []FlagAgrees
<1>1. TypeOK /\ BadgeInv => FlagAgrees
      BY DEF TypeOK, BadgeInv, FlagAgrees
<1> QED BY <1>1, TypeCorrect, BadgeInvHolds, PTL

-----------------------------------------------------------------------------
\* When the last deployment of a deployed model is gone, some DELETE handler is
\* on its way to take the badge away: it has yet to count, or it has counted
\* none and has not read the model, or it has read it deployed.
Releasing(d) ==
    \/ delete[d] \in {"count", "empty"}
    \/ delete[d] = "release" /\ seen[d].status = "deployed"

RemainInv ==
    ~cut /\ model = "deployed" /\ (\A d \in Ids : ~Exists(d))
        => \E d \in Ids : Releasing(d)

LEMMA RemainInvStep ==
    ASSUME TypeOK, BadgeInv, RemainInv, [Next]_vars
    PROVE  RemainInv'
<1> USE DeploymentsAssumption DEF TypeOK, BadgeInv, RemainInv, Releasing, Agreeing, Exists
<1>1. ASSUME NEW d \in Ids, CreateRead(d) PROVE RemainInv'
    BY <1>1 DEF CreateRead, ReadModel
<1>2. ASSUME NEW d \in Ids, CreateCommit(d) PROVE RemainInv'
    BY <1>2 DEF CreateCommit, Sets, Stale, Forget
<1>3. ASSUME NEW d \in Ids, CreateStale(d) PROVE RemainInv'
    BY <1>3 DEF CreateStale, Stale, Forget
<1>4. ASSUME NEW d \in Ids, CreateIssue(d) PROVE RemainInv'
    BY <1>4 DEF CreateIssue, IssueKey
<1>5. ASSUME NEW d \in Ids, DeleteRead(d) PROVE RemainInv'
    BY <1>5 DEF DeleteRead, KeysOf
<1>6. ASSUME NEW d \in Ids, RevokeKeys(d) PROVE RemainInv'
    BY <1>6 DEF RevokeKeys, Revoke
<1>7. ASSUME NEW d \in Ids, DropRow(d) PROVE RemainInv'
    BY <1>7 DEF DropRow
<1>8. ASSUME NEW d \in Ids, CountRemaining(d) PROVE RemainInv'
    BY <1>8 DEF CountRemaining
<1>9. ASSUME NEW d \in Ids, ReleaseRead(d) PROVE RemainInv'
    BY <1>9 DEF ReleaseRead, ReadModel
<1>10. ASSUME NEW d \in Ids, ReleaseCommit(d) PROVE RemainInv'
    <2>1. /\ \/ model' = model /\ (seen[d].status = "deployed" => model = "none")
             \/ model' = "draft"
          /\ delete[d] = "release" /\ UNCHANGED <<dep, cut>>
          BY <1>10, ReleaseEffect
    <2>2. PICK end \in {"failed", "done"} : /\ delete' = [delete EXCEPT ![d] = end]
                                           /\ seen' = [seen EXCEPT ![d] = Unread]
          BY <1>10, ReleaseEffect
    <2>3. model' = "deployed" => model = "deployed" /\ ~Releasing(d)
          BY <2>1
    <2>4. \A e \in Ids \ {d} : Releasing(e) => Releasing(e)'
          BY <2>2
    <2> QED BY <2>1, <2>3, <2>4
<1>11. ASSUME NEW d \in Ids, Pause(d) PROVE RemainInv'
    BY <1>11 DEF Pause, SetStatus
<1>12. ASSUME NEW d \in Ids, Resume(d) PROVE RemainInv'
    BY <1>12 DEF Resume, SetStatus
<1>13. ASSUME NEW r \in Rotations, RotateRead(r) PROVE RemainInv'
    BY <1>13 DEF RotateRead, KeysOf
<1>14. ASSUME NEW r \in Rotations, RotateRevoke(r) PROVE RemainInv'
    BY <1>14 DEF RotateRevoke, Revoke
<1>15. ASSUME NEW r \in Rotations, RotateIssue(r) PROVE RemainInv'
    BY <1>15 DEF RotateIssue, IssueKey
<1>16. CASE PurgeRead
    BY <1>16 DEF PurgeRead
<1>17. CASE PurgeCommit
    BY <1>17 DEF PurgeCommit
<1>18. CASE ApiCrash
    BY <1>18 DEF ApiCrash, Drop, Halfway
<1>19. CASE ApiStart
    BY <1>19 DEF ApiStart, ReconcileDeployStatus
<1>20. CASE UNCHANGED vars
    BY <1>20 DEF vars, requests
<1> QED BY <1>1, <1>2, <1>3, <1>4, <1>5, <1>6, <1>7, <1>8, <1>9, <1>10,
           <1>11, <1>12, <1>13, <1>14, <1>15, <1>16, <1>17, <1>18, <1>19,
           <1>20
        DEF Next, Handler
LEMMA RemainInvHolds == Spec => []RemainInv
<1>1. Init => RemainInv
      BY DeploymentsAssumption DEF Init, RemainInv, Exists
<1> QED BY <1>1, RemainInvStep, TypeCorrect, BadgeInvHolds, PTL DEF Spec

\* The badge of a model without deployments is always taken away: by some
\* handler still under way, unless a crash cut it short (BadgeHasDeployment).
THEOREM BadgeNeedsDeployment == Spec => []BadgeHasDeployment
<1>1. TypeOK /\ RemainInv => BadgeHasDeployment
      BY DEF TypeOK, RemainInv, Releasing, BadgeHasDeployment
<1> QED BY <1>1, TypeCorrect, RemainInvHolds, PTL

-----------------------------------------------------------------------------
(* Keys.                                                                    *)

LEMMA NoLockoutStep ==
    ASSUME TypeOK, NoLockout, [Next]_vars
    PROVE  NoLockout'
<1> USE DeploymentsAssumption DEF TypeOK, NoLockout, Exists
<1>1. ASSUME NEW d \in Ids, CreateRead(d) PROVE NoLockout'
    BY <1>1 DEF CreateRead, ReadModel
<1>2. ASSUME NEW d \in Ids, CreateCommit(d) PROVE NoLockout'
    BY <1>2 DEF CreateCommit, Sets, Stale, Forget
<1>3. ASSUME NEW d \in Ids, CreateStale(d) PROVE NoLockout'
    BY <1>3 DEF CreateStale, Stale, Forget
<1>4. ASSUME NEW d \in Ids, CreateIssue(d) PROVE NoLockout'
    BY <1>4 DEF CreateIssue, IssueKey
<1>5. ASSUME NEW d \in Ids, DeleteRead(d) PROVE NoLockout'
    BY <1>5 DEF DeleteRead, KeysOf
<1>6. ASSUME NEW d \in Ids, RevokeKeys(d) PROVE NoLockout'
    BY <1>6 DEF RevokeKeys, Revoke
<1>7. ASSUME NEW d \in Ids, DropRow(d) PROVE NoLockout'
    BY <1>7 DEF DropRow
<1>8. ASSUME NEW d \in Ids, CountRemaining(d) PROVE NoLockout'
    BY <1>8 DEF CountRemaining
<1>9. ASSUME NEW d \in Ids, ReleaseRead(d) PROVE NoLockout'
    BY <1>9 DEF ReleaseRead, ReadModel
<1>10. ASSUME NEW d \in Ids, ReleaseCommit(d) PROVE NoLockout'
    BY <1>10 DEF ReleaseCommit, Sets, Stale, Forget
<1>11. ASSUME NEW d \in Ids, Pause(d) PROVE NoLockout'
    BY <1>11 DEF Pause, SetStatus
<1>12. ASSUME NEW d \in Ids, Resume(d) PROVE NoLockout'
    BY <1>12 DEF Resume, SetStatus
<1>13. ASSUME NEW r \in Rotations, RotateRead(r) PROVE NoLockout'
    BY <1>13 DEF RotateRead, KeysOf
<1>14. ASSUME NEW r \in Rotations, RotateRevoke(r) PROVE NoLockout'
    BY <1>14 DEF RotateRevoke, Revoke
<1>15. ASSUME NEW r \in Rotations, RotateIssue(r) PROVE NoLockout'
    BY <1>15 DEF RotateIssue, IssueKey
<1>16. CASE PurgeRead
    BY <1>16 DEF PurgeRead
<1>17. CASE PurgeCommit
    BY <1>17 DEF PurgeCommit
<1>18. CASE ApiCrash
    BY <1>18 DEF ApiCrash, Drop, Halfway
<1>19. CASE ApiStart
    BY <1>19 DEF ApiStart, ReconcileDeployStatus
<1>20. CASE UNCHANGED vars
    BY <1>20 DEF vars, requests
<1> QED BY <1>1, <1>2, <1>3, <1>4, <1>5, <1>6, <1>7, <1>8, <1>9, <1>10,
           <1>11, <1>12, <1>13, <1>14, <1>15, <1>16, <1>17, <1>18, <1>19,
           <1>20
        DEF Next, Handler

\* A deployment that stays has a working key whenever its create and rotate
\* requests have ended and none was cut short (NoLockout).
THEOREM NobodyLockedOut == Spec => []NoLockout
<1>1. Init => NoLockout
      BY DeploymentsAssumption DEF Init, NoLockout, Exists
<1> QED BY <1>1, NoLockoutStep, TypeCorrect, PTL DEF Spec

-----------------------------------------------------------------------------
\* A request's key is issued by its last step only, for its own deployment;
\* the keys a rotation read exist, and are dead once it has revoked them.
RetireInv ==
    /\ \A d \in Ids : <<d, "create">> \in issued => create[d] = "done"
    /\ \A d \in Ids, r \in Rotations :
          <<d, r>> \in issued => d = Target[r] /\ rotate[r] = "done"
    /\ \A r \in Rotations :
          rotate[r] \in {"keys", "issue", "done"}
              => \A k \in old[r] : <<Target[r], k>> \in issued
    /\ \A r \in Rotations :
          rotate[r] \in {"issue", "done"}
              => \A k \in old[r] : <<Target[r], k>> \notin live

LEMMA RetireInvStep ==
    ASSUME TypeOK, RetireInv, [Next]_vars
    PROVE  RetireInv'
<1> USE DeploymentsAssumption DEF TypeOK, RetireInv, Exists
<1>1. ASSUME NEW d \in Ids, CreateRead(d) PROVE RetireInv'
    BY <1>1 DEF CreateRead, ReadModel
<1>2. ASSUME NEW d \in Ids, CreateCommit(d) PROVE RetireInv'
    BY <1>2 DEF CreateCommit, Sets, Stale, Forget
<1>3. ASSUME NEW d \in Ids, CreateStale(d) PROVE RetireInv'
    BY <1>3 DEF CreateStale, Stale, Forget
<1>4. ASSUME NEW d \in Ids, CreateIssue(d) PROVE RetireInv'
    BY <1>4 DEF CreateIssue, IssueKey
<1>5. ASSUME NEW d \in Ids, DeleteRead(d) PROVE RetireInv'
    BY <1>5 DEF DeleteRead, KeysOf
<1>6. ASSUME NEW d \in Ids, RevokeKeys(d) PROVE RetireInv'
    BY <1>6 DEF RevokeKeys, Revoke
<1>7. ASSUME NEW d \in Ids, DropRow(d) PROVE RetireInv'
    BY <1>7 DEF DropRow
<1>8. ASSUME NEW d \in Ids, CountRemaining(d) PROVE RetireInv'
    BY <1>8 DEF CountRemaining
<1>9. ASSUME NEW d \in Ids, ReleaseRead(d) PROVE RetireInv'
    BY <1>9 DEF ReleaseRead, ReadModel
<1>10. ASSUME NEW d \in Ids, ReleaseCommit(d) PROVE RetireInv'
    BY <1>10 DEF ReleaseCommit, Sets, Stale, Forget
<1>11. ASSUME NEW d \in Ids, Pause(d) PROVE RetireInv'
    BY <1>11 DEF Pause, SetStatus
<1>12. ASSUME NEW d \in Ids, Resume(d) PROVE RetireInv'
    BY <1>12 DEF Resume, SetStatus
<1>13. ASSUME NEW r \in Rotations, RotateRead(r) PROVE RetireInv'
    BY <1>13 DEF RotateRead, KeysOf
<1>14. ASSUME NEW r \in Rotations, RotateRevoke(r) PROVE RetireInv'
    BY <1>14 DEF RotateRevoke, Revoke
<1>15. ASSUME NEW r \in Rotations, RotateIssue(r) PROVE RetireInv'
    BY <1>15 DEF RotateIssue, IssueKey
<1>16. CASE PurgeRead
    BY <1>16 DEF PurgeRead
<1>17. CASE PurgeCommit
    BY <1>17 DEF PurgeCommit
<1>18. CASE ApiCrash
    BY <1>18 DEF ApiCrash, Drop, Halfway
<1>19. CASE ApiStart
    BY <1>19 DEF ApiStart, ReconcileDeployStatus
<1>20. CASE UNCHANGED vars
    BY <1>20 DEF vars, requests
<1> QED BY <1>1, <1>2, <1>3, <1>4, <1>5, <1>6, <1>7, <1>8, <1>9, <1>10,
           <1>11, <1>12, <1>13, <1>14, <1>15, <1>16, <1>17, <1>18, <1>19,
           <1>20
        DEF Next, Handler
LEMMA RetireInvHolds == Spec => []RetireInv
<1>1. Init => RetireInv
      BY DeploymentsAssumption DEF Init, RetireInv
<1> QED BY <1>1, RetireInvStep, TypeCorrect, PTL DEF Spec

\* After rotate-key has answered, none of the keys it found works again
\* (RotationRetiresKeys).
THEOREM RotatedKeysStayDead == Spec => []RotationRetiresKeys
<1>1. RetireInv => RotationRetiresKeys
      BY DEF RetireInv, RotationRetiresKeys
<1> QED BY <1>1, RetireInvHolds, PTL
-----------------------------------------------------------------------------
(* The drift monitor: passes, their drafts and alerts.                       *)

States == {"idle", "next", "read", "purge", "done", "failed"}

\* What a pass and its draft are made of.
IsPass(x) ==
    /\ {"state", "now", "todo", "loaded", "saw", "after"} \subseteq DOMAIN x
    /\ x.state \in States
IsDraft(w) == {"rows", "rollups", "alerts", "refs"} \subseteq DOMAIN w

Formed ==
    /\ clock \in Nat
    /\ pass = [p \in Passes |-> pass[p]] /\ draft = [p \in Passes |-> draft[p]]
    /\ \A p \in Passes : IsPass(pass[p]) /\ IsDraft(draft[p])

\* Only a running pass has written something, and it knows only passes that committed.
DraftsOfRunning ==
    \A p \in Passes :
        /\ ~Running(p) => draft[p].alerts = {}
        /\ pass[p].after \subseteq Committed

\* An alert is of the pass that raised it, and not of the future.
AlertsSigned ==
    /\ \A a \in alerts : a.pass \in Committed /\ a.at \in Nat /\ a.at <= clock
    /\ \A p \in Passes : \A b \in draft[p].alerts : b.pass = p /\ b.at \in Nat /\ b.at <= clock

SameKind(a, b) == a.model = b.model /\ a.title = b.title
Apart(a, b) == Distance(a.at, b.at) > Cooldown

\* A running pass keeps its distance from itself and from the passes before it.
DraftsSpaced ==
    \A p \in Passes : \A b \in draft[p].alerts :
        /\ \A a \in draft[p].alerts : a # b /\ SameKind(a, b) => Apart(a, b)
        /\ \A a \in alerts : a.pass \in pass[p].after /\ SameKind(a, b) => Apart(a, b)

AlertInv == Formed /\ DraftsOfRunning /\ AlertsSigned /\ DraftsSpaced /\ AlertsSpaced
----------------------------------------------------------------------------
LEMMA AlertInvInit == MonitorInit => AlertInv
BY MonitorAssumption
   DEF MonitorInit, AlertInv, Formed, DraftsOfRunning, AlertsSigned, DraftsSpaced,
       AlertsSpaced, States, IsPass, IsDraft, Asleep, Blank, Running, Committed, Passes

\* One pass and its draft change, the others do not.
LEMMA OneMoves ==
    ASSUME Formed, NEW p \in Passes, NEW x, NEW w, IsPass(x), IsDraft(w),
           pass' = [pass EXCEPT ![p] = x], draft' = [draft EXCEPT ![p] = w], clock' = clock
    PROVE  /\ Formed' /\ pass'[p] = x /\ draft'[p] = w
           /\ \A q \in Passes \ {p} : pass'[q] = pass[q] /\ draft'[q] = draft[q]
<1>1. /\ pass'[p] = x /\ draft'[p] = w
      /\ \A q \in Passes \ {p} : pass'[q] = pass[q] /\ draft'[q] = draft[q]
    BY DEF Formed
<1>2. pass' = [q \in Passes |-> pass'[q]] /\ draft' = [q \in Passes |-> draft'[q]]
    BY DEF Formed
<1>3. Passes' = Passes
    BY DEF Passes
<1>4. ASSUME NEW q \in Passes PROVE IsPass(pass'[q]) /\ IsDraft(draft'[q])
    BY <1>1 DEF Formed
<1> QED BY <1>1, <1>2, <1>3, <1>4 DEF Formed

\* A step that leaves the alerts and every draft of them alone, and in which no pass
\* stops running, commits or learns of another.
LEMMA QuietStep ==
    ASSUME AlertInv, Formed', UNCHANGED alerts, clock' >= clock,
           \A p \in Passes :
              /\ draft'[p].alerts = draft[p].alerts /\ pass'[p].after = pass[p].after
              /\ \/ pass'[p].state = pass[p].state
                 \/ {pass'[p].state, pass[p].state} \subseteq {"next", "read"}
                 \/ {pass'[p].state, pass[p].state} \subseteq {"purge", "done"}
    PROVE  AlertInv'
<1>1. Committed' = Committed
    BY DEF Committed, Passes
<1>2. \A p \in Passes : Running(p)' <=> Running(p)
    BY DEF Running
<1>3. DraftsOfRunning'
    BY <1>1, <1>2 DEF AlertInv, DraftsOfRunning
<1>4. AlertsSigned'
    BY <1>1 DEF AlertInv, Formed, AlertsSigned
<1>5. DraftsSpaced'
    BY DEF AlertInv, DraftsSpaced, SameKind, Apart
<1>6. AlertsSpaced'
    BY DEF AlertInv, AlertsSpaced, AlertsSigned, Committed, Overlapped
<1> QED BY <1>3, <1>4, <1>5, <1>6 DEF AlertInv

LEMMA BeginStep ==
    ASSUME AlertInv, NEW p \in Passes, BeginPass(p)
    PROVE  AlertInv'
<1> USE DEF AlertInv
<1>a. PICK order : pass' = [pass EXCEPT ![p] =
                     [state |-> "next", now |-> clock, todo |-> order, loaded |-> rows,
                      saw |-> <<>>, after |-> Committed]]
    BY DEF BeginPass, Committed
<1> DEFINE x == [state |-> "next", now |-> clock, todo |-> order, loaded |-> rows,
                 saw |-> <<>>, after |-> Committed]
<1>0. pass' = [pass EXCEPT ![p] = x] /\ IsPass(x) /\ x.state = "next" /\ x.after = Committed
    BY <1>a DEF IsPass, States
<1> HIDE DEF x
<1>1. /\ Formed' /\ pass'[p] = x /\ draft' = draft /\ alerts' = alerts /\ clock' = clock
      /\ \A q \in Passes \ {p} : pass'[q] = pass[q]
  <2>1. draft' = [draft EXCEPT ![p] = draft[p]] /\ IsDraft(draft[p]) /\ clock' = clock
      BY DEF BeginPass, Formed
  <2> QED BY <1>0, <2>1, OneMoves DEF BeginPass
<1>2. pass[p].state = "idle"
    BY DEF BeginPass, Asleep
<1>3. Committed' = Committed
    BY <1>0, <1>1, <1>2 DEF Committed, Passes
<1>4. draft[p].alerts = {} /\ \A a \in alerts : a.pass # p
    BY <1>2 DEF DraftsOfRunning, Running, AlertsSigned, Committed
<1>5. DraftsOfRunning'
    BY <1>0, <1>1, <1>3, <1>4 DEF DraftsOfRunning, Running
<1>6. AlertsSigned'
    BY <1>1, <1>3 DEF AlertsSigned
<1>7. DraftsSpaced'
    BY <1>1, <1>4 DEF DraftsSpaced, SameKind, Apart
<1>8. AlertsSpaced'
    BY <1>1, <1>4 DEF AlertsSpaced, Overlapped, AlertsSigned, Committed
<1> QED BY <1>1, <1>5, <1>6, <1>7, <1>8

LEMMA JudgeFacts ==
    ASSUME AlertInv, NEW p \in Passes, JudgeDeployment(p)
    PROVE  /\ Formed' /\ pass[p].state = "read" /\ pass'[p].state = "next"
           /\ pass'[p].after = pass[p].after
           /\ \A q \in Passes \ {p} : pass'[q] = pass[q] /\ draft'[q] = draft[q]
           /\ \E d, T : draft'[p].alerts = draft[p].alerts \cup Raised(p, d, T)
           /\ alerts' = alerts /\ clock' = clock
<1> USE DEF AlertInv
<1>1. PICK T, L : pass' = [pass EXCEPT ![p].state = "next", ![p].todo = T, ![p].loaded = L]
    BY DEF JudgeDeployment
<1> DEFINE x == [pass[p] EXCEPT !.state = "next", !.todo = T, !.loaded = L]
<1>2. IsPass(x) /\ x.state = "next" /\ x.after = pass[p].after
    BY DEF Formed, IsPass, States
<1>3. pass' = [pass EXCEPT ![p] = x]
    BY <1>1 DEF Formed
<1> HIDE DEF x
<1>4. PICK w : draft' = [draft EXCEPT ![p] = w] /\ IsDraft(w)
               /\ \E d, S : w.alerts = draft[p].alerts \cup Raised(p, d, S)
  <2> DEFINE d == Head(pass[p].todo)
             E == pass[p].saw[d]
             loaded == pass[p].loaded[d]
             judged == loaded.status # "paused" /\ Len(History(d)) > RefWindows
             A == [y \in DOMAIN draft[p].rows \cup {d} |->
                      IF y = d THEN Changes(LiveMetrics(E, loaded), loaded) ELSE draft[p].rows[y]]
             B == [k \in DOMAIN draft[p].rollups \cup DOMAIN Rollups(d, E) |->
                      IF k \notin DOMAIN Rollups(d, E) THEN draft[p].rollups[k]
                      ELSE IF k \in DOMAIN rollups THEN Changes(Rollups(d, E)[k], rollups[k])
                      ELSE Rollups(d, E)[k]]
             R(ref) == IF judged /\ Pinned(d, draft[p]) = {} THEN draft[p].refs \cup {ref}
                       ELSE draft[p].refs
             traffic == IF loaded.status = "paused" \/ E = {} THEN {} ELSE TrafficDrift(E)
             S(ref) == traffic \cup
                 IF judged THEN ClientDrift(History(d), ref, pass[p].now) ELSE {}
             Becomes(ref) == [draft[p] EXCEPT !.rows = A, !.rollups = B, !.refs = R(ref),
                               !.alerts = @ \cup Raised(p, d, S(ref))]
  <2>1. IsDraft(draft[p])
      BY DEF Formed
  <2>2. PICK ref : draft' = [draft EXCEPT ![p] = Becomes(ref)]
      BY <2>1 DEF JudgeDeployment, IsDraft
  <2> HIDE DEF d, A, B, R, S
  <2>3. IsDraft(Becomes(ref)) /\ Becomes(ref).alerts = draft[p].alerts \cup Raised(p, d, S(ref))
      BY <2>1 DEF IsDraft
  <2> HIDE DEF Becomes
  <2> QED BY <2>2, <2>3
<1>5. pass[p].state = "read" /\ alerts' = alerts /\ clock' = clock
    BY DEF JudgeDeployment
<1>6. /\ Formed' /\ pass'[p] = x /\ draft'[p] = w
      /\ \A q \in Passes \ {p} : pass'[q] = pass[q] /\ draft'[q] = draft[q]
    BY <1>2, <1>3, <1>4, <1>5, OneMoves
<1> QED BY <1>2, <1>4, <1>5, <1>6

\* What is raised now lies apart from everything the pass could see.
LEMMA RaisedApart ==
    ASSUME AlertInv, NEW p \in Passes, NEW d, NEW T, NEW b \in Raised(p, d, T)
    PROVE  /\ b.pass = p /\ b.at = clock
           /\ \A a \in alerts \cup draft[p].alerts : SameKind(a, b) => Apart(a, b) /\ Apart(b, a)
           /\ \A a \in Raised(p, d, T) : SameKind(a, b) => a = b
<1>1. /\ b = [model |-> ModelOf[d], title |-> b.title, at |-> clock, pass |-> p]
      /\ ~RecentAlert(ModelOf[d], b.title, draft[p])
    BY DEF Raised
<1>2. ASSUME NEW a \in alerts \cup draft[p].alerts, SameKind(a, b)
      PROVE  Apart(a, b) /\ Apart(b, a)
  <2>1. ~(a.at >= clock - Cooldown)
      BY <1>1, <1>2 DEF RecentAlert, SameKind
  <2>2. a.at \in Nat /\ clock \in Nat /\ Cooldown \in Nat
      BY <1>2, MonitorAssumption DEF AlertInv, AlertsSigned, Formed
  <2> QED BY <1>1, <2>1, <2>2 DEF Apart, Distance
<1>3. ASSUME NEW a \in Raised(p, d, T), SameKind(a, b) PROVE a = b
  <2>1. a = [model |-> ModelOf[d], title |-> a.title, at |-> clock, pass |-> p]
      BY DEF Raised
  <2> QED BY <1>1, <1>3, <2>1 DEF SameKind
<1> QED BY <1>1, <1>2, <1>3

LEMMA JudgeStep ==
    ASSUME AlertInv, NEW p \in Passes, JudgeDeployment(p)
    PROVE  AlertInv'
<1>1. /\ Formed' /\ pass[p].state = "read" /\ pass'[p].state = "next"
      /\ pass'[p].after = pass[p].after
      /\ \A q \in Passes \ {p} : pass'[q] = pass[q] /\ draft'[q] = draft[q]
      /\ alerts' = alerts /\ clock' = clock
    BY JudgeFacts
<1>2. PICK d, T : draft'[p].alerts = draft[p].alerts \cup Raised(p, d, T)
    BY JudgeFacts
<1>3. Committed' = Committed
    BY <1>1 DEF Committed, Passes
<1>4. DraftsOfRunning'
    BY <1>1, <1>3 DEF AlertInv, DraftsOfRunning, Running
<1>5. \A b \in Raised(p, d, T) : b.pass = p /\ b.at = clock
    BY RaisedApart
<1>6. AlertsSigned'
    BY <1>1, <1>2, <1>3, <1>5 DEF AlertInv, AlertsSigned, Formed
<1>7. \A b \in Raised(p, d, T) :
          /\ \A a \in alerts \cup draft[p].alerts : SameKind(a, b) => Apart(a, b) /\ Apart(b, a)
          /\ \A a \in Raised(p, d, T) : SameKind(a, b) => a = b
    BY RaisedApart
<1>8. DraftsSpaced'
  <2>1. ASSUME NEW b \in draft'[p].alerts, NEW a \in draft'[p].alerts, a # b, SameKind(a, b)
        PROVE  Apart(a, b)
    <3>1. SameKind(b, a)
        BY <2>1 DEF SameKind
    <3> QED BY <1>2, <1>7, <2>1, <3>1 DEF AlertInv, DraftsSpaced
  <2>2. ASSUME NEW b \in draft'[p].alerts, NEW a \in alerts,
               a.pass \in pass[p].after, SameKind(a, b)
        PROVE  Apart(a, b)
      BY <1>2, <1>7, <2>2 DEF AlertInv, DraftsSpaced
  <2>3. ASSUME NEW q \in Passes, NEW b \in draft'[q].alerts
        PROVE  /\ \A a \in draft'[q].alerts : a # b /\ SameKind(a, b) => Apart(a, b)
               /\ \A a \in alerts' : a.pass \in pass'[q].after /\ SameKind(a, b) => Apart(a, b)
    <3>1. CASE q = p
        BY <1>1, <2>1, <2>2, <3>1
    <3>2. CASE q # p
        BY <1>1, <3>2 DEF AlertInv, DraftsSpaced
    <3> QED BY <3>1, <3>2
  <2> QED BY <2>3 DEF DraftsSpaced, SameKind, Apart, Passes
<1>9. AlertsSpaced'
    BY <1>1 DEF AlertInv, AlertsSpaced, AlertsSigned, Committed, Overlapped
<1> QED BY <1>1, <1>4, <1>6, <1>8, <1>9 DEF AlertInv

LEMMA CommitStep ==
    ASSUME AlertInv, NEW p \in Passes, CommitPass(p)
    PROVE  AlertInv'
<1> DEFINE x == [Asleep EXCEPT !.state = "purge", !.saw = pass[p].saw, !.after = pass[p].after]
<1>1. IsPass(x) /\ x.state = "purge" /\ x.after = pass[p].after
    BY DEF IsPass, States, Asleep
<1>2. pass' = [pass EXCEPT ![p] = x] /\ draft' = [draft EXCEPT ![p] = Blank]
      /\ alerts' = alerts \cup draft[p].alerts /\ clock' = clock /\ pass[p].state = "next"
    BY DEF CommitPass
<1> HIDE DEF x
<1>3. IsDraft(Blank) /\ Blank.alerts = {}
    BY DEF IsDraft, Blank
<1>4. /\ Formed' /\ pass'[p] = x /\ draft'[p] = Blank
      /\ \A q \in Passes \ {p} : pass'[q] = pass[q] /\ draft'[q] = draft[q]
    BY <1>1, <1>2, <1>3, OneMoves DEF AlertInv
<1>5. Committed' = Committed \cup {p} /\ p \notin Committed
    BY <1>1, <1>2, <1>4 DEF Committed, Passes
<1>6. DraftsOfRunning'
    BY <1>1, <1>3, <1>4, <1>5 DEF AlertInv, DraftsOfRunning, Running, Passes
<1>7. AlertsSigned'
    BY <1>2, <1>3, <1>4, <1>5 DEF AlertInv, AlertsSigned, Passes
<1>8. DraftsSpaced'
  <2>1. ASSUME NEW q \in Passes PROVE p \notin pass[q].after
      BY <1>5 DEF AlertInv, DraftsOfRunning
  <2>2. ASSUME NEW q \in Passes, NEW b \in draft'[q].alerts
        PROVE  /\ \A a \in draft'[q].alerts : a # b /\ SameKind(a, b) => Apart(a, b)
               /\ \A a \in alerts' : a.pass \in pass'[q].after /\ SameKind(a, b) => Apart(a, b)
    <3>1. q # p /\ pass'[q] = pass[q] /\ draft'[q] = draft[q]
        BY <1>3, <1>4, <2>2
    <3>2. ASSUME NEW a \in alerts', a.pass \in pass[q].after PROVE a \in alerts
        BY <1>2, <2>1, <3>2 DEF AlertInv, AlertsSigned
    <3> QED BY <3>1, <3>2 DEF AlertInv, DraftsSpaced
  <2> QED BY <2>2 DEF DraftsSpaced, SameKind, Apart, Passes
<1>9. \A q \in Passes : pass'[q].after = pass[q].after
    BY <1>1, <1>4
<1>10. AlertsSpaced'
  <2>1. ASSUME NEW a \in alerts, NEW b \in draft[p].alerts, SameKind(a, b)
        PROVE  Apart(a, b) \/ (a.pass # b.pass /\ Overlapped(a.pass, b.pass))
    <3>1. b.pass = p /\ a.pass \in Committed /\ a.pass # p /\ a.pass \in Passes
        BY <1>5 DEF AlertInv, AlertsSigned, Committed
    <3>2. p \notin pass[a.pass].after
        BY <1>5, <3>1 DEF AlertInv, DraftsOfRunning
    <3>3. a.pass \in pass[p].after => Apart(a, b)
        BY <2>1 DEF AlertInv, DraftsSpaced
    <3> QED BY <3>1, <3>2, <3>3 DEF Overlapped
  <2>2. ASSUME NEW a \in alerts', NEW b \in alerts', a # b, SameKind(a, b)
        PROVE  Apart(a, b) \/ (a.pass # b.pass /\ Overlapped(a.pass, b.pass))
    <3>1. SameKind(b, a) /\ (Apart(b, a) => Apart(a, b))
          /\ (Overlapped(b.pass, a.pass) => Overlapped(a.pass, b.pass))
      <4>1. a.at \in Nat /\ b.at \in Nat
          BY <1>2 DEF AlertInv, AlertsSigned
      <4> QED BY <2>2, <4>1, MonitorAssumption DEF SameKind, Apart, Distance, Overlapped
    <3>2. CASE a \in alerts /\ b \in alerts
        BY <2>2, <3>2 DEF AlertInv, AlertsSpaced, SameKind, Apart
    <3>3. CASE a \in alerts /\ b \in draft[p].alerts
        BY <2>1, <2>2, <3>3
    <3>4. CASE a \in draft[p].alerts /\ b \in alerts
        BY <2>1, <3>1, <3>4
    <3>5. CASE a \in draft[p].alerts /\ b \in draft[p].alerts
        BY <2>2, <3>5 DEF AlertInv, DraftsSpaced
    <3> QED BY <1>2, <3>2, <3>3, <3>4, <3>5
  <2>3. ASSUME NEW a \in alerts' PROVE a.pass \in Passes
      BY <1>7, <2>3 DEF AlertsSigned, Committed, Passes
  <2> QED BY <1>9, <2>2, <2>3 DEF AlertsSpaced, SameKind, Apart, Overlapped
<1> QED BY <1>4, <1>6, <1>7, <1>8, <1>10 DEF AlertInv

LEMMA AbortStep ==
    ASSUME AlertInv, NEW p \in Passes, AbortPass(p)
    PROVE  AlertInv'
<1> DEFINE x == [Asleep EXCEPT !.state = "failed"]
<1>1. IsPass(x) /\ x.state = "failed" /\ x.after = {} /\ IsDraft(Blank) /\ Blank.alerts = {}
    BY DEF IsPass, States, Asleep, IsDraft, Blank
<1>2. pass' = [pass EXCEPT ![p] = x] /\ draft' = [draft EXCEPT ![p] = Blank]
      /\ alerts' = alerts /\ clock' = clock /\ pass[p].state \in {"next", "read"}
    BY DEF AbortPass, Running
<1> HIDE DEF x
<1>3. /\ Formed' /\ pass'[p] = x /\ draft'[p] = Blank
      /\ \A q \in Passes \ {p} : pass'[q] = pass[q] /\ draft'[q] = draft[q]
    BY <1>1, <1>2, OneMoves DEF AlertInv
<1>4. Committed' = Committed /\ p \notin Committed
    BY <1>1, <1>2, <1>3 DEF Committed, Passes
<1>5. DraftsOfRunning'
    BY <1>1, <1>3, <1>4 DEF AlertInv, DraftsOfRunning, Running, Passes
<1>6. AlertsSigned'
    BY <1>1, <1>2, <1>3, <1>4 DEF AlertInv, AlertsSigned, Passes
<1>7. DraftsSpaced'
    BY <1>1, <1>2, <1>3 DEF AlertInv, DraftsSpaced, SameKind, Apart, Passes
<1>8. AlertsSpaced'
    BY <1>2, <1>3, <1>4 DEF AlertInv, AlertsSpaced, AlertsSigned, Committed, Overlapped
<1> QED BY <1>3, <1>5, <1>6, <1>7, <1>8 DEF AlertInv

LEMMA PurgeStep ==
    ASSUME AlertInv, NEW p \in Passes, PurgeExpired(p)
    PROVE  AlertInv'
<1> DEFINE x == [pass[p] EXCEPT !.state = "done"]
<1>1. IsPass(x) /\ x.state = "done" /\ x.after = pass[p].after
    BY DEF AlertInv, Formed, IsPass, States
<1>2. pass' = [pass EXCEPT ![p] = x] /\ draft' = [draft EXCEPT ![p] = draft[p]]
      /\ alerts' \subseteq alerts /\ clock' = clock /\ pass[p].state = "purge"
      /\ IsDraft(draft[p])
    BY DEF PurgeExpired, AlertInv, Formed
<1> HIDE DEF x
<1>3. /\ Formed' /\ pass'[p] = x /\ draft'[p] = draft[p]
      /\ \A q \in Passes \ {p} : pass'[q] = pass[q] /\ draft'[q] = draft[q]
    BY <1>1, <1>2, OneMoves DEF AlertInv
<1>4. Committed' = Committed
    BY <1>1, <1>2, <1>3 DEF Committed, Passes
<1>5. DraftsOfRunning'
    BY <1>1, <1>2, <1>3, <1>4 DEF AlertInv, DraftsOfRunning, Running, Passes
<1>6. AlertsSigned'
    BY <1>2, <1>3, <1>4 DEF AlertInv, AlertsSigned, Passes
<1>7. DraftsSpaced'
    BY <1>1, <1>2, <1>3 DEF AlertInv, DraftsSpaced, SameKind, Apart, Passes
<1>8. AlertsSpaced'
    BY <1>1, <1>2, <1>3, <1>4 DEF AlertInv, AlertsSpaced, AlertsSigned, Committed, Overlapped
<1> QED BY <1>3, <1>5, <1>6, <1>7, <1>8 DEF AlertInv
----------------------------------------------------------------------------
LEMMA AlertInvStep ==
    ASSUME AlertInv, [MonitorNext]_monitorVars
    PROVE  AlertInv'
<1>1. ASSUME NEW p \in Passes, ReadEvents(p) PROVE AlertInv'
  <2>1. PICK E : pass' = [pass EXCEPT ![p].state = "read", ![p].saw = E]
      BY <1>1 DEF ReadEvents
  <2> DEFINE x == [pass[p] EXCEPT !.state = "read", !.saw = E]
  <2>2. IsPass(x) /\ x.state = "read" /\ x.after = pass[p].after
      BY DEF AlertInv, Formed, IsPass, States
  <2>3. /\ pass' = [pass EXCEPT ![p] = x] /\ draft' = [draft EXCEPT ![p] = draft[p]]
        /\ IsDraft(draft[p])
      BY <1>1, <2>1 DEF AlertInv, Formed, ReadEvents
  <2> HIDE DEF x
  <2>4. UNCHANGED <<clock, alerts>> /\ pass[p].state = "next" /\ clock \in Nat
      BY <1>1 DEF ReadEvents, AlertInv, Formed
  <2>5. /\ Formed' /\ pass'[p] = x /\ draft'[p] = draft[p]
        /\ \A q \in Passes \ {p} : pass'[q] = pass[q] /\ draft'[q] = draft[q]
      BY <2>2, <2>3, <2>4, OneMoves DEF AlertInv
  <2> QED BY <2>2, <2>4, <2>5, QuietStep
<1>2. ASSUME UNCHANGED <<alerts, pass, draft>>, clock' = clock \/ Advance PROVE AlertInv'
  <2>1. Formed' /\ clock' >= clock
      BY <1>2 DEF AlertInv, Formed, Advance, IsPass, IsDraft, Passes, States
  <2> QED BY <1>2, <2>1, QuietStep
<1>3. ASSUME NEW d, IngestEvent(d) \/ IngestWindow(d)
                    \/ ToggleDeployment(d) \/ RemoveDeployment(d)
      PROVE  UNCHANGED <<clock, alerts, pass, draft>>
    BY <1>3 DEF IngestEvent, IngestWindow, ToggleDeployment, RemoveDeployment
<1>4. CASE Advance
    BY <1>2, <1>4 DEF Advance
<1>5. CASE UNCHANGED monitorVars
    BY <1>2, <1>5 DEF monitorVars
<1> QED BY <1>1, <1>2, <1>3, <1>4, <1>5, BeginStep, JudgeStep, CommitStep, AbortStep, PurgeStep
        DEF MonitorNext

\* One incident is alerted once: two alerts of a model with one title lie further
\* apart than the cooldown, unless two overlapping passes raised them
\* (_recent_alert, _raise_alert).
THEOREM AlertsOnce == MonitorSpec => []AlertsSpaced
<1>1. AlertInv => AlertsSpaced
    BY DEF AlertInv
<1> QED BY <1>1, AlertInvInit, AlertInvStep, PTL DEF MonitorSpec
----------------------------------------------------------------------------
(* The figures.                                                             *)

Figures == {"count", "p95", "errors", "drift"}
Columns == Figures \cup {"status", "last"}
Alike(a, b) == \A c \in Figures : a[c] = b[c]

\* What a pass made of a minute.
MadeOf(p, k) == Rollups(k[1], pass[p].saw[k[1]])[k]
Made(p, k) == k[1] \in DOMAIN pass[p].saw /\ k \in DOMAIN Rollups(k[1], pass[p].saw[k[1]])

\* Another pass measured the deployment and committed since this one began.
Overtaken(p, d) == \E q \in Committed \ pass[p].after : d \in DOMAIN pass[q].saw

\* Which deployments a running pass has read, judged and has yet to judge.
InTurn(p) ==
    LET x == pass[p]
        w == draft[p]
    IN  /\ x.todo \in Seq(DOMAIN x.loaded)
        /\ \A i, j \in 1 .. Len(x.todo) : i # j => x.todo[i] # x.todo[j]
        /\ \A i \in 1 .. Len(x.todo) : x.todo[i] \notin DOMAIN w.rows
        /\ x.state = "next" => DOMAIN x.saw = DOMAIN w.rows
        /\ x.state = "read" => /\ x.todo # <<>>
                               /\ DOMAIN x.saw = DOMAIN w.rows \cup {Head(x.todo)}
        /\ \A d \in DOMAIN x.loaded : DOMAIN x.loaded[d] = Columns
        /\ \A k \in DOMAIN w.rollups : k[1] \in DOMAIN w.rows

Shaped ==
    /\ rows = [d \in DOMAIN rows |-> rows[d]] /\ DOMAIN rows \subseteq Watched
    /\ \A d \in DOMAIN rows : rows[d] = [c \in Columns |-> rows[d][c]]
    /\ \A p \in Passes : IF Running(p) THEN InTurn(p) ELSE draft[p] = Blank

\* The minutes a draft changes; no two passes change the same.
Touched(w) == {k \in DOMAIN w.rollups : DOMAIN w.rollups[k] # {}}
Separate ==
    \A p, q \in Passes :
        Running(p) /\ Running(q) /\ p # q => Touched(draft[p]) \cap Touched(draft[q]) = {}

\* A committed minute is some pass's; a draft turns it into that of its own pass.
MinutesShown ==
    \A k \in DOMAIN rollups : \E p \in Committed : Made(p, k) /\ rollups[k] = MadeOf(p, k)
MinutesDrafted(p) ==
    \A k \in DOMAIN draft[p].rollups :
        LET change == draft[p].rollups[k]
        IN  /\ Made(p, k)
            /\ DOMAIN change = {} => k \in DOMAIN rollups
            /\ DOMAIN change # {} =>
                  MadeOf(p, k) = IF k \in DOMAIN rollups THEN Changed(change, rollups[k]) ELSE change

\* Unless overtaken, a pass has read the figures the row shows, and turns them into
\* what it measured.
FiguresDrafted(p) ==
    /\ \A d \in DOMAIN rows \cap DOMAIN pass[p].loaded :
          Overtaken(p, d) \/ Alike(pass[p].loaded[d], rows[d])
    /\ \A d \in DOMAIN rows \cap DOMAIN draft[p].rows :
          Overtaken(p, d) \/ Alike(Changed(draft[p].rows[d], rows[d]), Metrics(pass[p].saw[d]))
FiguresShown ==
    \A d \in DOMAIN rows :
        \/ \E p \in Committed :
              d \in DOMAIN pass[p].saw /\ Alike(rows[d], Metrics(pass[p].saw[d]))
        \/ (\A p \in Committed : d \notin DOMAIN pass[p].saw) /\ Alike(rows[d], Metrics({}))
        \/ \E p, q \in Committed :
              p # q /\ d \in DOMAIN pass[p].saw \cap DOMAIN pass[q].saw /\ Overlapped(p, q)

RowsInv ==
    /\ Shaped /\ Separate /\ MinutesShown /\ FiguresShown
    /\ \A p \in Passes : Running(p) => MinutesDrafted(p) /\ FiguresDrafted(p)
----------------------------------------------------------------------------
LEMMA ChangedAlike ==
    ASSUME NEW a, NEW b, NEW ch, DOMAIN a = Columns, DOMAIN b = Columns, Alike(a, b)
    PROVE  Alike(Changed(ch, a), Changed(ch, b))
BY DEF Alike, Changed, Columns, Figures

\* A step that changes no figure, no minute and no draft, and no pass but for its purge.
LEMMA QuietRows ==
    ASSUME AlertInv, RowsInv, Committed' = Committed, rollups' = rollups,
           \A p \in Passes : /\ draft'[p] = draft[p] /\ pass'[p].saw = pass[p].saw
                             /\ pass'[p].after = pass[p].after
                             /\ Running(p) => pass'[p] = pass[p]
                             /\ Running(p)' => Running(p),
           rows' = [d \in DOMAIN rows' |-> rows'[d]], DOMAIN rows' \subseteq DOMAIN rows,
           \A d \in DOMAIN rows' : /\ rows'[d] = [c \in Columns |-> rows'[d][c]]
                                   /\ Alike(rows'[d], rows[d])
    PROVE  RowsInv'
<1> USE DEF RowsInv
<1>1. \A p \in Passes : Running(p)' <=> Running(p)
    BY DEF Running
<1>2. Shaped'
  <2>1. ASSUME NEW p \in Passes PROVE (IF Running(p) THEN InTurn(p) ELSE draft[p] = Blank)'
    <3>1. CASE Running(p)
        BY <1>1, <3>1 DEF Shaped, InTurn
    <3>2. CASE ~Running(p)
        BY <1>1, <3>2 DEF Shaped
    <3> QED BY <3>1, <3>2
  <2> QED BY <2>1 DEF Shaped, Passes
<1>3. Separate'
    BY <1>1 DEF Separate, Touched, Passes
<1>4. \A p \in Passes : \A k : (Made(p, k)' <=> Made(p, k)) /\ MadeOf(p, k)' = MadeOf(p, k)
    BY DEF Made, MadeOf
<1>5. Committed \subseteq Passes
    BY DEF Committed
<1>6. MinutesShown'
    BY <1>4, <1>5 DEF MinutesShown
<1>7. \A p \in Passes : \A d : Overtaken(p, d)' <=> Overtaken(p, d)
    BY <1>5 DEF Overtaken
<1>8. \A d \in DOMAIN rows' : d \in DOMAIN rows /\ DOMAIN rows[d] = Columns /\ DOMAIN rows'[d] = Columns
    BY DEF Shaped
<1>9. FiguresShown'
  <2>1. ASSUME NEW d \in DOMAIN rows'
        PROVE  \/ \E p \in Committed :
                     d \in DOMAIN pass'[p].saw /\ Alike(rows'[d], Metrics(pass'[p].saw[d]))
               \/ (\A p \in Committed : d \notin DOMAIN pass'[p].saw) /\ Alike(rows'[d], Metrics({}))
               \/ \E p, q \in Committed :
                     p # q /\ d \in DOMAIN pass'[p].saw \cap DOMAIN pass'[q].saw /\ Overlapped(p, q)'
    <3>1. \A x : Alike(rows[d], x) => Alike(rows'[d], x)
        BY DEF Alike
    <3>2. \A p \in Committed : pass'[p].saw = pass[p].saw /\ pass'[p].after = pass[p].after
        BY <1>5
    <3> QED BY <1>8, <3>1, <3>2 DEF FiguresShown, Overlapped
  <2> QED BY <2>1 DEF FiguresShown, Alike
<1>10. ASSUME NEW p \in Passes, Running(p)' PROVE MinutesDrafted(p)' /\ FiguresDrafted(p)'
  <2>1. MinutesDrafted(p) /\ FiguresDrafted(p) /\ pass'[p] = pass[p] /\ draft'[p] = draft[p]
      BY <1>1, <1>10
  <2>2. MinutesDrafted(p)'
      BY <1>4, <2>1 DEF MinutesDrafted
  <2>3. ASSUME NEW d \in DOMAIN rows', NEW x, Alike(x, rows[d]) PROVE Alike(x, rows'[d])
      BY <2>3 DEF Alike
  <2>4. ASSUME NEW d \in DOMAIN rows', NEW x, NEW ch, Alike(Changed(ch, rows[d]), x)
        PROVE  Alike(Changed(ch, rows'[d]), x)
    <3>1. Alike(Changed(ch, rows'[d]), Changed(ch, rows[d]))
        BY <1>8, ChangedAlike
    <3> QED BY <2>4, <3>1 DEF Alike
  <2>5. FiguresDrafted(p)'
      BY <1>7, <1>8, <2>1, <2>3, <2>4 DEF FiguresDrafted, Alike
  <2> QED BY <2>2, <2>5
<1> QED BY <1>2, <1>3, <1>6, <1>9, <1>10 DEF Passes

\* One pass moves before its commit: what it owes is about itself, and about the
\* minutes of the others.
LEMMA OnePassMoves ==
    ASSUME AlertInv, RowsInv, NEW p \in Passes, p \notin Committed, Committed' = Committed,
           UNCHANGED <<rows, rollups>>,
           \A q \in Passes \ {p} : pass'[q] = pass[q] /\ draft'[q] = draft[q],
           IF Running(p)' THEN InTurn(p)' /\ MinutesDrafted(p)' /\ FiguresDrafted(p)'
                          ELSE draft'[p] = Blank,
           \A q \in Passes \ {p} :
              Running(p)' /\ Running(q) => Touched(draft'[p]) \cap Touched(draft[q]) = {}
    PROVE  RowsInv'
<1> USE DEF RowsInv
<1>1. \A q \in Passes \ {p} : Running(q)' <=> Running(q)
    BY DEF Running
<1>2. Committed \subseteq Passes \ {p}
    BY DEF Committed
<1>3. Shaped'
  <2>1. ASSUME NEW q \in Passes \ {p} PROVE (IF Running(q) THEN InTurn(q) ELSE draft[q] = Blank)'
      BY <1>1 DEF Shaped, InTurn
  <2> QED BY <2>1 DEF Shaped, Passes
<1>4. Separate'
  <2>1. ASSUME NEW q \in Passes, NEW r \in Passes, Running(q)', Running(r)', q # r
        PROVE  Touched(draft'[q]) \cap Touched(draft'[r]) = {}
    <3>1. CASE q # p /\ r # p
        BY <1>1, <2>1, <3>1 DEF Separate
    <3>2. CASE q = p \/ r = p
        BY <1>1, <2>1, <3>2
    <3> QED BY <3>1, <3>2
  <2> QED BY <2>1 DEF Separate, Touched, Passes
<1>5. MinutesShown'
    BY <1>2 DEF MinutesShown, Made, MadeOf
<1>6. FiguresShown'
    BY <1>2 DEF FiguresShown, Overlapped, Alike
<1>7. ASSUME NEW q \in Passes \ {p}, Running(q)' PROVE MinutesDrafted(q)' /\ FiguresDrafted(q)'
  <2>1. /\ MinutesDrafted(q) /\ FiguresDrafted(q) /\ pass'[q] = pass[q] /\ draft'[q] = draft[q]
        /\ UNCHANGED <<rows, rollups>>
      BY <1>1, <1>7
  <2>2. MinutesDrafted(q)'
      BY <2>1 DEF MinutesDrafted, Made, MadeOf
  <2>3. \A d : Overtaken(q, d)' <=> Overtaken(q, d)
      BY <1>2, <2>1 DEF Overtaken
  <2>4. FiguresDrafted(q)'
      BY <2>1, <2>3 DEF FiguresDrafted, Alike
  <2> QED BY <2>2, <2>4
<1>8. \A q \in Passes : Running(q)' => MinutesDrafted(q)' /\ FiguresDrafted(q)'
    BY <1>7
<1> QED BY <1>3, <1>4, <1>5, <1>6, <1>8 DEF Passes

LEMMA BlankFacts ==
    /\ DOMAIN Blank.rows = {} /\ DOMAIN Blank.rollups = {} /\ Touched(Blank) = {}
BY DEF Blank, Touched

LEMMA BeginRows ==
    ASSUME AlertInv, RowsInv, NEW p \in Passes, BeginPass(p)
    PROVE  RowsInv'
<1> USE DEF RowsInv
<1>1. PICK order \in SetToSeqs(DOMAIN rows) : pass' = [pass EXCEPT ![p] =
                     [state |-> "next", now |-> clock, todo |-> order, loaded |-> rows,
                      saw |-> <<>>, after |-> Committed]]
    BY DEF BeginPass, Committed
<1> DEFINE x == [state |-> "next", now |-> clock, todo |-> order, loaded |-> rows,
                 saw |-> <<>>, after |-> Committed]
<1>2. /\ pass[p].state = "idle" /\ pass'[p] = x /\ draft' = draft /\ UNCHANGED <<rows, rollups>>
      /\ \A q \in Passes \ {p} : pass'[q] = pass[q]
  <2>1. pass[p].state = "idle" /\ draft' = draft /\ UNCHANGED <<rows, rollups>>
      BY DEF BeginPass, Asleep
  <2>2. pass' = [pass EXCEPT ![p] = x] /\ pass = [q \in Passes |-> pass[q]]
      BY <1>1 DEF AlertInv, Formed
  <2> HIDE DEF x
  <2> QED BY <2>1, <2>2
<1>3. p \notin Committed /\ Committed' = Committed /\ ~Running(p) /\ draft[p] = Blank
    BY <1>2 DEF Committed, Passes, Running, Shaped
<1>4. /\ order \in Seq(DOMAIN rows)
      /\ \A i, j \in 1 .. Len(order) : i # j => order[i] # order[j]
  <2>1. Cardinality(DOMAIN rows) \in Nat
      BY MonitorAssumption, FS_Subset, FS_CardinalityType DEF Shaped
  <2> QED BY <2>1 DEF SetToSeqs
<1>5. InTurn(p)'
    BY <1>2, <1>3, <1>4, BlankFacts DEF InTurn, Shaped
<1>6. MinutesDrafted(p)'
    BY <1>2, <1>3, BlankFacts DEF MinutesDrafted
<1>7. FiguresDrafted(p)'
  <2>1. pass'[p].loaded = rows /\ DOMAIN draft'[p].rows = {}
      BY <1>2, <1>3, BlankFacts
  <2> QED BY <1>2, <2>1 DEF FiguresDrafted, Alike
<1>8. Touched(draft'[p]) = {}
    BY <1>2, <1>3, BlankFacts
<1>9. Running(p)'
    BY <1>2 DEF Running
<1> HIDE DEF RowsInv
<1> QED BY <1>2, <1>3, <1>5, <1>6, <1>7, <1>8, <1>9, OnePassMoves

LEMMA ReadRows ==
    ASSUME AlertInv, RowsInv, NEW p \in Passes, ReadEvents(p)
    PROVE  RowsInv'
<1> USE DEF RowsInv
<1> DEFINE d == Head(pass[p].todo)
           saw == pass[p].saw
<1>1. PICK lately : pass' = [pass EXCEPT ![p].state = "read",
                              ![p].saw = [x \in DOMAIN saw \cup {d} |-> IF x = d THEN lately ELSE saw[x]]]
    BY DEF ReadEvents
<1> DEFINE saw2 == [x \in DOMAIN saw \cup {d} |-> IF x = d THEN lately ELSE saw[x]]
<1>2. /\ pass'[p].state = "read" /\ pass'[p].saw = saw2 /\ pass'[p].todo = pass[p].todo
      /\ pass'[p].loaded = pass[p].loaded /\ pass'[p].after = pass[p].after
      /\ \A q \in Passes \ {p} : pass'[q] = pass[q]
  <2> DEFINE x == [pass[p] EXCEPT !.state = "read", !.saw = saw2]
  <2>1. pass' = [pass EXCEPT ![p] = x]
      BY <1>1 DEF AlertInv, Formed
  <2>2. pass'[p] = x /\ \A q \in Passes \ {p} : pass'[q] = pass[q]
      BY <2>1 DEF AlertInv, Formed
  <2> QED BY <2>2 DEF AlertInv, Formed, IsPass
<1>3. /\ pass[p].state = "next" /\ pass[p].todo # <<>> /\ draft' = draft
      /\ UNCHANGED <<rows, rollups>>
    BY DEF ReadEvents
<1>4. /\ p \notin Committed /\ Committed' = Committed /\ Running(p) /\ Running(p)'
      /\ InTurn(p) /\ MinutesDrafted(p) /\ FiguresDrafted(p)
    BY <1>2, <1>3 DEF Committed, Passes, Running, Shaped
<1>5. d \notin DOMAIN draft[p].rows /\ DOMAIN saw = DOMAIN draft[p].rows
  <2>1. 1 \in 1 .. Len(pass[p].todo) /\ d = pass[p].todo[1]
      BY <1>3, <1>4 DEF InTurn
  <2> QED BY <1>3, <1>4, <2>1 DEF InTurn
<1> HIDE DEF d, saw
<1>6. /\ DOMAIN saw2 = DOMAIN draft[p].rows \cup {d}
      /\ \A y \in DOMAIN draft[p].rows : saw2[y] = saw[y] /\ y \in DOMAIN saw2
    BY <1>5
<1> HIDE DEF saw2
<1>7. InTurn(p)'
    BY <1>2, <1>3, <1>4, <1>6 DEF InTurn, d
<1>8. MinutesDrafted(p)'
  <2>1. ASSUME NEW k \in DOMAIN draft[p].rollups PROVE Made(p, k)' /\ MadeOf(p, k)' = MadeOf(p, k)
    <3>1. k[1] \in DOMAIN draft[p].rows /\ Made(p, k)
        BY <1>4 DEF InTurn, MinutesDrafted
    <3> QED BY <1>2, <1>6, <3>1 DEF Made, MadeOf, saw
  <2> QED BY <1>3, <1>4, <2>1 DEF MinutesDrafted
<1>9. FiguresDrafted(p)'
  <2>1. \A y : Overtaken(p, y)' <=> Overtaken(p, y)
      BY <1>2, <1>4 DEF Overtaken, Committed
  <2> QED BY <1>2, <1>3, <1>4, <1>6, <2>1 DEF FiguresDrafted, Alike, saw
<1>10. \A q \in Passes \ {p} : Running(q) => Touched(draft'[p]) \cap Touched(draft[q]) = {}
    BY <1>3, <1>4 DEF Separate
<1> HIDE DEF RowsInv
<1> QED BY <1>2, <1>3, <1>4, <1>7, <1>8, <1>9, <1>10, OnePassMoves

LEMMA AbortRows ==
    ASSUME AlertInv, RowsInv, NEW p \in Passes, AbortPass(p)
    PROVE  RowsInv'
<1>1. /\ pass'[p].state = "failed" /\ draft'[p] = Blank /\ UNCHANGED <<rows, rollups>>
      /\ pass[p].state \in {"next", "read"}
      /\ \A q \in Passes \ {p} : pass'[q] = pass[q] /\ draft'[q] = draft[q]
    BY DEF AbortPass, AlertInv, Formed, Asleep, Running
<1>2. p \notin Committed /\ Committed' = Committed /\ ~Running(p)'
    BY <1>1 DEF Committed, Passes, Running
<1> QED BY <1>1, <1>2, OnePassMoves

\* A draft's row turns the row it was made from into what was measured.
LEMMA ChangesApply ==
    ASSUME NEW E, NEW loaded, NEW row, DOMAIN row = Columns, Alike(loaded, row)
    PROVE  Alike(Changed(Changes(LiveMetrics(E, loaded), loaded), row), Metrics(E))
<1> DEFINE new == LiveMetrics(E, loaded)
<1>1. Columns \subseteq DOMAIN new /\ \A c \in Figures : new[c] = Metrics(E)[c]
    BY DEF LiveMetrics, Metrics, Columns, Figures
<1> HIDE DEF new
<1>2. ASSUME NEW c \in Figures PROVE Changed(Changes(new, loaded), row)[c] = new[c]
  <2>1. c \in Columns /\ loaded[c] = row[c]
      BY DEF Columns, Alike
  <2>2. CASE new[c] = loaded[c]
    <3>1. c \notin DOMAIN Changes(new, loaded)
        BY <2>2 DEF Changes
    <3> QED BY <2>1, <2>2, <3>1 DEF Changed
  <2>3. CASE new[c] # loaded[c]
    <3>1. c \in DOMAIN Changes(new, loaded) /\ Changes(new, loaded)[c] = new[c]
        BY <1>1, <2>1, <2>3 DEF Changes
    <3> QED BY <2>1, <3>1 DEF Changed
  <2> QED BY <2>2, <2>3
<1> QED BY <1>1, <1>2 DEF Alike, new

\* The same of a minute.
LEMMA MinuteApply ==
    ASSUME NEW new, NEW row, new = [c \in DOMAIN row |-> new[c]]
    PROVE  Changed(Changes(new, row), row) = new
<1>1. DOMAIN new = DOMAIN row
    OBVIOUS
<1>2. ASSUME NEW c \in DOMAIN row PROVE Changed(Changes(new, row), row)[c] = new[c]
  <2>1. CASE new[c] = row[c]
    <3>1. c \notin DOMAIN Changes(new, row)
        BY <2>1 DEF Changes
    <3> QED BY <2>1, <3>1 DEF Changed
  <2>2. CASE new[c] # row[c]
    <3>1. c \in DOMAIN Changes(new, row) /\ Changes(new, row)[c] = new[c]
        BY <1>1, <2>2 DEF Changes
    <3> QED BY <3>1 DEF Changed
  <2> QED BY <2>1, <2>2
<1>3. Changed(Changes(new, row), row) = [c \in DOMAIN row |-> Changed(Changes(new, row), row)[c]]
    BY DEF Changed
<1> QED BY <1>2, <1>3

LEMMA SummaryShape ==
    ASSUME NEW d, NEW E, NEW k \in DOMAIN Rollups(d, E)
    PROVE  /\ k[1] = d
           /\ Rollups(d, E)[k] = [c \in {"count", "errors", "p95"} |-> Rollups(d, E)[k][c]]
<1>1. k[1] = d /\ Rollups(d, E)[k] = Summary({e \in E : MinuteOf(e) = k[2]})
    BY DEF Rollups
<1>2. \A F : Summary(F) = [c \in {"count", "errors", "p95"} |-> Summary(F)[c]]
    BY DEF Summary
<1> QED BY <1>1, <1>2

LEMMA HeadTail ==
    ASSUME NEW S, NEW s \in Seq(S), s # <<>>
    PROVE  /\ 1 \in 1 .. Len(s) /\ Head(s) = s[1] /\ s[1] \in S
           /\ Tail(s) \in Seq(S) /\ Len(Tail(s)) = Len(s) - 1
           /\ \A i \in 1 .. Len(Tail(s)) : Tail(s)[i] = s[i + 1] /\ i + 1 \in 1 .. Len(s)
OBVIOUS

LEMMA JudgeRows ==
    ASSUME AlertInv, RowsInv, NEW p \in Passes, JudgeDeployment(p)
    PROVE  RowsInv'
<1> USE DEF RowsInv
<1> DEFINE x == pass[p]
           w == draft[p]
           d == Head(x.todo)
           E == x.saw[d]
           loaded == x.loaded[d]
           summaries == Rollups(d, E)
           change == Changes(LiveMetrics(E, loaded), loaded)
           rows2 == [y \in DOMAIN w.rows \cup {d} |-> IF y = d THEN change ELSE w.rows[y]]
           rollups2 == [k \in DOMAIN w.rollups \cup DOMAIN summaries |->
                           IF k \notin DOMAIN summaries THEN w.rollups[k]
                           ELSE IF k \in DOMAIN rollups THEN Changes(summaries[k], rollups[k])
                           ELSE summaries[k]]
           kept == [w EXCEPT !.rows = rows2, !.rollups = rollups2]
<1>1. /\ x.state = "read" /\ UNCHANGED <<rows, rollups>>
      /\ Holds(kept) \cap HeldByOthers(p) = {}
      /\ \E R, A : draft' = [draft EXCEPT ![p] = [kept EXCEPT !.refs = R, !.alerts = A]]
      /\ pass' = [pass EXCEPT ![p].state = "next", ![p].todo = Tail(x.todo),
                       ![p].loaded = [y \in DOMAIN x.loaded \ {d} |-> x.loaded[y]]]
    BY DEF JudgeDeployment
<1>2. /\ draft'[p].rows = rows2 /\ draft'[p].rollups = rollups2
      /\ kept.rollups = rollups2
      /\ \A q \in Passes \ {p} : draft'[q] = draft[q]
  <2>1. PICK R, A : draft' = [draft EXCEPT ![p] = [kept EXCEPT !.refs = R, !.alerts = A]]
      BY <1>1
  <2> HIDE DEF rows2, rollups2
  <2> DEFINE z == [kept EXCEPT !.refs = R, !.alerts = A]
  <2>2. {"rows", "rollups"} \subseteq DOMAIN w /\ draft = [q \in Passes |-> draft[q]]
      BY DEF AlertInv, Formed, IsDraft
  <2>3. z.rows = rows2 /\ z.rollups = rollups2 /\ kept.rollups = rollups2
      BY <2>2
  <2>4. draft'[p] = z /\ \A q \in Passes \ {p} : draft'[q] = draft[q]
      BY <2>1, <2>2
  <2> QED BY <2>3, <2>4
<1>3. /\ pass'[p].state = "next" /\ pass'[p].todo = Tail(x.todo) /\ pass'[p].saw = x.saw
      /\ pass'[p].loaded = [y \in DOMAIN x.loaded \ {d} |-> x.loaded[y]]
      /\ pass'[p].after = x.after
      /\ \A q \in Passes \ {p} : pass'[q] = pass[q]
  <2> DEFINE z == [x EXCEPT !.state = "next", !.todo = Tail(x.todo),
                            !.loaded = [y \in DOMAIN x.loaded \ {d} |-> x.loaded[y]]]
  <2>1. pass' = [pass EXCEPT ![p] = z]
      BY <1>1 DEF AlertInv, Formed
  <2>2. pass'[p] = z /\ \A q \in Passes \ {p} : pass'[q] = pass[q]
      BY <2>1 DEF AlertInv, Formed
  <2> QED BY <2>2 DEF AlertInv, Formed, IsPass
<1>4. /\ p \notin Committed /\ Committed' = Committed /\ Running(p) /\ Running(p)'
      /\ InTurn(p) /\ MinutesDrafted(p) /\ FiguresDrafted(p)
    BY <1>1, <1>3 DEF Committed, Passes, Running, Shaped
<1>5. /\ x.todo \in Seq(DOMAIN x.loaded) /\ x.todo # <<>> /\ d = x.todo[1]
      /\ 1 \in 1 .. Len(x.todo)
      /\ d \notin DOMAIN w.rows /\ d \in DOMAIN x.loaded
      /\ DOMAIN x.saw = DOMAIN w.rows \cup {d}
  <2>1. /\ x.todo \in Seq(DOMAIN x.loaded) /\ x.todo # <<>>
        /\ DOMAIN x.saw = DOMAIN w.rows \cup {d}
        /\ \A i \in 1 .. Len(x.todo) : x.todo[i] \notin DOMAIN w.rows
      BY <1>1, <1>4 DEF InTurn
  <2>2. d = x.todo[1] /\ 1 \in 1 .. Len(x.todo) /\ x.todo[1] \in DOMAIN x.loaded
      BY <2>1, HeadTail
  <2> QED BY <2>1, <2>2
<1>6. \A k \in DOMAIN summaries : k[1] = d
    BY SummaryShape
<1>7. \A y \in DOMAIN w.rows : rows2[y] = w.rows[y]
    BY <1>5
<1>8. \A k \in DOMAIN w.rollups : k[1] \in DOMAIN w.rows /\ k \notin DOMAIN summaries
    BY <1>4, <1>5, <1>6 DEF InTurn
<1> HIDE DEF d, E, loaded, summaries, change
<1>9. DOMAIN rows2 = DOMAIN w.rows \cup {d} /\ rows2[d] = change
    OBVIOUS
<1>10. /\ DOMAIN rollups2 = DOMAIN w.rollups \cup DOMAIN summaries
       /\ \A k \in DOMAIN w.rollups : rollups2[k] = w.rollups[k]
       /\ \A k \in DOMAIN summaries :
             rollups2[k] = IF k \in DOMAIN rollups THEN Changes(summaries[k], rollups[k])
                           ELSE summaries[k]
    BY <1>8
<1> HIDE DEF rows2, rollups2
<1>11. InTurn(p)'
  <2>1. /\ Tail(x.todo) \in Seq(DOMAIN x.loaded) /\ Len(Tail(x.todo)) = Len(x.todo) - 1
        /\ \A i \in 1 .. Len(Tail(x.todo)) : Tail(x.todo)[i] = x.todo[i + 1]
                                             /\ i + 1 \in 1 .. Len(x.todo)
      BY <1>5, HeadTail
  <2>2. \A i \in 1 .. Len(Tail(x.todo)) : Tail(x.todo)[i] # d /\ Tail(x.todo)[i] \notin DOMAIN w.rows
                                          /\ Tail(x.todo)[i] \in DOMAIN x.loaded
    <3>1. \A i \in 1 .. Len(Tail(x.todo)) : i + 1 # 1
        OBVIOUS
    <3> QED BY <1>4, <1>5, <2>1, <3>1 DEF InTurn
  <2> DEFINE t == Tail(x.todo)
             left == [y \in DOMAIN x.loaded \ {d} |-> x.loaded[y]]
  <2>3. t \in Seq(DOMAIN left)
    <3>1. DOMAIN left = DOMAIN x.loaded \ {d}
        OBVIOUS
    <3> HIDE DEF left
    <3>2. t = [i \in 1 .. Len(t) |-> t[i]] /\ Len(t) \in Nat
        BY <2>1
    <3>3. \A i \in 1 .. Len(t) : t[i] \in DOMAIN left
        BY <2>2, <3>1
    <3> HIDE DEF t
    <3> QED BY <3>2, <3>3
  <2>4. \A i, j \in 1 .. Len(t) : i # j => t[i] # t[j]
    <3>1. \A i, j \in 1 .. Len(t) : i # j => i + 1 # j + 1
        OBVIOUS
    <3> QED BY <1>4, <2>1, <3>1 DEF InTurn
  <2>5. \A y \in DOMAIN left : DOMAIN left[y] = Columns
      BY <1>4 DEF InTurn
  <2>6. \A k \in DOMAIN rollups2 : k[1] \in DOMAIN rows2
      BY <1>6, <1>8, <1>9, <1>10
  <2> HIDE DEF t, left
  <2>7. pass'[p].todo = t /\ pass'[p].loaded = left
      BY <1>3 DEF t, left
  <2>8. \A i \in 1 .. Len(t) : t[i] \notin DOMAIN rows2
      BY <1>9, <2>2 DEF t
  <2>9. DOMAIN x.saw = DOMAIN rows2
      BY <1>5, <1>9
  <2>10. /\ pass'[p].state = "next" /\ pass'[p].saw = x.saw
         /\ draft'[p].rows = rows2 /\ draft'[p].rollups = rollups2
      BY <1>2, <1>3
  <2> HIDE DEF x, w
  <2> QED BY <2>3, <2>4, <2>5, <2>6, <2>7, <2>8, <2>9, <2>10 DEF InTurn
<1>12. \A k \in DOMAIN rollups2 : Made(p, k)' /\ MadeOf(p, k)' = MadeOf(p, k)
  <2>1. \A k : (Made(p, k)' <=> Made(p, k)) /\ MadeOf(p, k)' = MadeOf(p, k)
      BY <1>3 DEF Made, MadeOf
  <2>2. \A k \in DOMAIN w.rollups : Made(p, k)
      BY <1>4 DEF MinutesDrafted
  <2>3. \A k \in DOMAIN summaries : Made(p, k)
      BY <1>5, <1>6 DEF Made, summaries, E
  <2> QED BY <1>10, <2>1, <2>2, <2>3
<1>13. ASSUME NEW k \in DOMAIN rollups2
       PROVE  /\ DOMAIN rollups2[k] = {} => k \in DOMAIN rollups
              /\ DOMAIN rollups2[k] # {} =>
                    MadeOf(p, k) = IF k \in DOMAIN rollups THEN Changed(rollups2[k], rollups[k])
                                   ELSE rollups2[k]
  <2>1. CASE k \in DOMAIN w.rollups
      BY <1>4, <1>10, <2>1 DEF MinutesDrafted
  <2>2. CASE k \in DOMAIN summaries
    <3>1. MadeOf(p, k) = summaries[k]
        BY <1>6, <2>2 DEF MadeOf, summaries, E
    <3>2. summaries[k] = [c \in {"count", "errors", "p95"} |-> summaries[k][c]]
        BY <2>2, SummaryShape DEF summaries
    <3>3. CASE k \in DOMAIN rollups
      <4>1. PICK q \in Committed : Made(q, k) /\ rollups[k] = MadeOf(q, k)
          BY <3>3 DEF MinutesShown
      <4>2. DOMAIN rollups[k] = {"count", "errors", "p95"}
          BY <4>1, SummaryShape DEF Made, MadeOf
      <4>3. Changed(Changes(summaries[k], rollups[k]), rollups[k]) = summaries[k]
          BY <3>2, <4>2, MinuteApply
      <4> QED BY <1>10, <2>2, <3>1, <3>3, <4>3
    <3>4. CASE k \notin DOMAIN rollups
      <4>1. rollups2[k] = summaries[k] /\ "count" \in DOMAIN summaries[k]
          BY <1>10, <2>2, <3>2, <3>4
      <4> QED BY <3>1, <3>4, <4>1
    <3> QED BY <3>3, <3>4
  <2> QED BY <1>10, <2>1, <2>2
<1>14. MinutesDrafted(p)'
    BY <1>1, <1>2, <1>12, <1>13 DEF MinutesDrafted
<1>15. FiguresDrafted(p)'
  <2>1. \A y : Overtaken(p, y)' <=> Overtaken(p, y)
      BY <1>3, <1>4 DEF Overtaken, Committed
  <2>2. \A y \in DOMAIN rows \cap DOMAIN pass'[p].loaded :
            Overtaken(p, y) \/ Alike(pass'[p].loaded[y], rows[y])
      BY <1>3, <1>4 DEF FiguresDrafted
  <2>3. ASSUME NEW y \in DOMAIN rows \cap DOMAIN rows2
        PROVE  Overtaken(p, y) \/ Alike(Changed(rows2[y], rows[y]), Metrics(x.saw[y]))
    <3>1. CASE y = d
      <4>1. Overtaken(p, d) \/ Alike(loaded, rows[d])
          BY <1>4, <1>5, <3>1 DEF FiguresDrafted, loaded
      <4>2. DOMAIN rows[d] = Columns
          BY <3>1 DEF Shaped
      <4>3. Alike(loaded, rows[d]) => Alike(Changed(change, rows[d]), Metrics(E))
          BY <4>2, ChangesApply DEF change
      <4> QED BY <1>9, <3>1, <4>1, <4>3 DEF E
    <3>2. CASE y # d
        BY <1>4, <1>7, <1>9, <3>2 DEF FiguresDrafted
    <3> QED BY <3>1, <3>2
  <2>4. \A y \in DOMAIN rows' \cap DOMAIN draft'[p].rows :
            Overtaken(p, y)' \/ Alike(Changed(draft'[p].rows[y], rows'[y]), Metrics(pass'[p].saw[y]))
    <3>1. rows' = rows /\ draft'[p].rows = rows2 /\ pass'[p].saw = x.saw
        BY <1>1, <1>2, <1>3
    <3> HIDE DEF x
    <3> QED BY <2>1, <2>3, <3>1
  <2>5. \A y \in DOMAIN rows' \cap DOMAIN pass'[p].loaded :
            Overtaken(p, y)' \/ Alike(pass'[p].loaded[y], rows'[y])
      BY <1>1, <2>1, <2>2
  <2> QED BY <2>4, <2>5 DEF FiguresDrafted, Alike
<1>16. ASSUME NEW q \in Passes \ {p}, Running(q)
       PROVE  Touched(draft'[p]) \cap Touched(draft[q]) = {}
  <2>1. Touched(draft[q]) \subseteq HeldByOthers(p)
      BY <1>16 DEF HeldByOthers, Holds, Touched
  <2>2. Touched(draft'[p]) \subseteq Holds(kept)
      BY <1>2 DEF Holds, Touched
  <2> QED BY <1>1, <2>1, <2>2
<1> HIDE DEF RowsInv
<1> QED BY <1>1, <1>2, <1>3, <1>4, <1>11, <1>14, <1>15, <1>16, OnePassMoves

LEMMA CommitRows ==
    ASSUME AlertInv, RowsInv, NEW p \in Passes, CommitPass(p)
    PROVE  RowsInv'
<1> USE DEF RowsInv
<1> DEFINE w == draft[p]
           x == [Asleep EXCEPT !.state = "purge", !.saw = pass[p].saw, !.after = pass[p].after]
<1>1. /\ pass[p].state = "next"
      /\ rows' = [d \in DOMAIN rows |->
                    IF d \in DOMAIN w.rows THEN Changed(w.rows[d], rows[d]) ELSE rows[d]]
      /\ rollups' = [k \in DOMAIN rollups \cup DOMAIN w.rollups |->
                       IF k \notin DOMAIN w.rollups THEN rollups[k]
                       ELSE IF k \in DOMAIN rollups THEN Changed(w.rollups[k], rollups[k])
                       ELSE w.rollups[k]]
      /\ pass' = [pass EXCEPT ![p] = x] /\ draft' = [draft EXCEPT ![p] = Blank]
    BY DEF CommitPass
<1>2. /\ pass'[p] = x /\ draft'[p] = Blank
      /\ \A q \in Passes \ {p} : pass'[q] = pass[q] /\ draft'[q] = draft[q]
    BY <1>1 DEF AlertInv, Formed
<1>3. x.state = "purge" /\ x.saw = pass[p].saw /\ x.after = pass[p].after
    BY DEF Asleep
<1> HIDE DEF x
<1>4. \A q \in Passes : pass'[q].saw = pass[q].saw /\ pass'[q].after = pass[q].after
    BY <1>2, <1>3
<1>5. /\ p \notin Committed /\ Committed' = Committed \cup {p} /\ Committed \subseteq Passes
      /\ \A q \in Passes : Running(q)' <=> Running(q) /\ q # p
      /\ \A q \in Passes : pass[q].after \subseteq Committed
    BY <1>1, <1>2, <1>3 DEF Committed, Passes, Running, AlertInv, DraftsOfRunning
<1>6. Running(p) /\ MinutesDrafted(p) /\ FiguresDrafted(p) /\ DOMAIN pass[p].saw = DOMAIN w.rows
    BY <1>1 DEF Running, Shaped, InTurn
<1>7. \A q \in Passes : \A k : (Made(q, k)' <=> Made(q, k)) /\ MadeOf(q, k)' = MadeOf(q, k)
    BY <1>4 DEF Made, MadeOf
<1>8. \A q \in Passes : \A d : (Overtaken(q, d) => Overtaken(q, d)')
                             /\ (q # p /\ d \in DOMAIN w.rows => Overtaken(q, d)')
    BY <1>4, <1>5, <1>6 DEF Overtaken
<1>9. \A q, r \in Passes : Overlapped(q, r)' <=> Overlapped(q, r)
    BY <1>4 DEF Overlapped
<1>10. ASSUME NEW k \in DOMAIN rollups, NEW ch, DOMAIN ch = {} PROVE Changed(ch, rollups[k]) = rollups[k]
  <2>1. PICK q \in Committed : Made(q, k) /\ rollups[k] = MadeOf(q, k)
      BY DEF MinutesShown
  <2>2. rollups[k] = [c \in {"count", "errors", "p95"} |-> rollups[k][c]]
      BY <2>1, SummaryShape DEF Made, MadeOf
  <2>3. Changed(ch, rollups[k]) = [c \in DOMAIN rollups[k] |-> rollups[k][c]]
      BY <1>10 DEF Changed
  <2> QED BY <2>2, <2>3
<1>11. \A k : k \notin Touched(w) =>
          /\ k \in DOMAIN rollups' <=> k \in DOMAIN rollups
          /\ k \in DOMAIN rollups => rollups'[k] = rollups[k]
  <2>1. ASSUME NEW k, k \notin Touched(w), k \in DOMAIN w.rollups
        PROVE  k \in DOMAIN rollups /\ rollups'[k] = rollups[k]
    <3>1. DOMAIN w.rollups[k] = {} /\ k \in DOMAIN rollups
        BY <1>6, <2>1 DEF Touched, MinutesDrafted
    <3> QED BY <1>1, <1>10, <2>1, <3>1
  <2> QED BY <1>1, <2>1
<1>12. MinutesShown'
  <2>1. ASSUME NEW k \in DOMAIN rollups'
        PROVE  \E q \in Committed' : Made(q, k) /\ rollups'[k] = MadeOf(q, k)
    <3>1. CASE k \in Touched(w)
      <4>1. k \in DOMAIN w.rollups /\ DOMAIN w.rollups[k] # {}
          BY <3>1 DEF Touched
      <4>2. Made(p, k) /\ MadeOf(p, k) = IF k \in DOMAIN rollups
                                          THEN Changed(w.rollups[k], rollups[k]) ELSE w.rollups[k]
          BY <1>6, <4>1 DEF MinutesDrafted
      <4> QED BY <1>1, <1>5, <4>1, <4>2
    <3>2. CASE k \notin Touched(w)
      <4>1. k \in DOMAIN rollups /\ rollups'[k] = rollups[k]
          BY <1>11, <2>1, <3>2
      <4> QED BY <1>5, <4>1 DEF MinutesShown
    <3> QED BY <3>1, <3>2
  <2> QED BY <1>5, <1>7, <2>1 DEF MinutesShown
<1>13. ASSUME NEW q \in Passes, Running(q)' PROVE MinutesDrafted(q)' /\ FiguresDrafted(q)'
  <2>1. /\ q # p /\ Running(q) /\ pass'[q] = pass[q] /\ draft'[q] = draft[q]
        /\ MinutesDrafted(q) /\ FiguresDrafted(q)
      BY <1>2, <1>5, <1>13
  <2>2. ASSUME NEW k \in DOMAIN draft[q].rollups
        PROVE  LET change == draft[q].rollups[k]
               IN  /\ Made(q, k)
                   /\ DOMAIN change = {} => k \in DOMAIN rollups'
                   /\ DOMAIN change # {} =>
                         MadeOf(q, k) = IF k \in DOMAIN rollups' THEN Changed(change, rollups'[k])
                                        ELSE change
    <3>1. CASE DOMAIN draft[q].rollups[k] = {}
      <4>1. k \in DOMAIN rollups /\ Made(q, k)
          BY <2>1, <3>1 DEF MinutesDrafted
      <4>2. k \in DOMAIN rollups'
          BY <1>1, <4>1
      <4> QED BY <3>1, <4>1, <4>2
    <3>2. CASE DOMAIN draft[q].rollups[k] # {}
      <4>1. k \notin Touched(w)
          BY <1>6, <2>1, <3>2 DEF Separate, Touched
      <4>2. /\ k \in DOMAIN rollups' <=> k \in DOMAIN rollups
            /\ k \in DOMAIN rollups => rollups'[k] = rollups[k]
          BY <1>11, <4>1
      <4>3. Made(q, k) /\ MadeOf(q, k) = IF k \in DOMAIN rollups
                                          THEN Changed(draft[q].rollups[k], rollups[k])
                                          ELSE draft[q].rollups[k]
          BY <2>1, <3>2 DEF MinutesDrafted
      <4> QED BY <3>2, <4>2, <4>3
    <3> QED BY <3>1, <3>2
  <2>3. MinutesDrafted(q)'
      BY <1>7, <2>1, <2>2 DEF MinutesDrafted
  <2>4. \A d \in DOMAIN rows' : d \in DOMAIN rows /\ (d \notin DOMAIN w.rows => rows'[d] = rows[d])
      BY <1>1
  <2>5. FiguresDrafted(q)'
    <3>1. \A d \in DOMAIN rows' \cap DOMAIN pass'[q].loaded :
              Overtaken(q, d)' \/ Alike(pass'[q].loaded[d], rows'[d])
        BY <1>8, <2>1, <2>4 DEF FiguresDrafted
    <3>2. \A d \in DOMAIN rows' \cap DOMAIN draft'[q].rows :
              Overtaken(q, d)'
                \/ Alike(Changed(draft'[q].rows[d], rows'[d]), Metrics(pass'[q].saw[d]))
        BY <1>8, <2>1, <2>4 DEF FiguresDrafted
    <3> QED BY <3>1, <3>2 DEF FiguresDrafted, Alike
  <2> QED BY <2>3, <2>5
<1>14. FiguresShown'
  <2>1. ASSUME NEW d \in DOMAIN rows'
        PROVE  \/ \E q \in Committed' :
                     d \in DOMAIN pass[q].saw /\ Alike(rows'[d], Metrics(pass[q].saw[d]))
               \/ (\A q \in Committed' : d \notin DOMAIN pass[q].saw) /\ Alike(rows'[d], Metrics({}))
               \/ \E q, r \in Committed' :
                     q # r /\ d \in DOMAIN pass[q].saw \cap DOMAIN pass[r].saw /\ Overlapped(q, r)
    <3>1. d \in DOMAIN rows
        BY <1>1, <2>1
    <3>2. CASE d \in DOMAIN w.rows
      <4>1. rows'[d] = Changed(w.rows[d], rows[d])
          BY <1>1, <3>1, <3>2
      <4>2. CASE Overtaken(p, d)
        <5>1. PICK q \in Committed \ pass[p].after : d \in DOMAIN pass[q].saw
            BY <4>2 DEF Overtaken
        <5>2. q # p /\ Overlapped(p, q)
            BY <1>5, <5>1 DEF Overlapped
        <5> QED BY <1>5, <1>6, <3>2, <5>1, <5>2
      <4>3. CASE Alike(Changed(w.rows[d], rows[d]), Metrics(pass[p].saw[d]))
          BY <1>5, <1>6, <3>2, <4>1, <4>3
      <4> QED BY <1>6, <3>1, <3>2, <4>2, <4>3 DEF FiguresDrafted
    <3>3. CASE d \notin DOMAIN w.rows
      <4>1. rows'[d] = rows[d] /\ d \notin DOMAIN pass[p].saw
          BY <1>1, <1>6, <3>1, <3>3
      <4> QED BY <1>5, <3>1, <4>1 DEF FiguresShown
    <3> QED BY <3>2, <3>3
  <2>2. Committed' \subseteq Passes
      BY <1>5
  <2> QED BY <1>4, <1>9, <2>1, <2>2 DEF FiguresShown, Alike
<1>15. Shaped'
  <2>1. \A d \in DOMAIN rows' : rows'[d] = [c \in Columns |-> rows'[d][c]]
    <3>1. \A ch, row : row = [c \in Columns |-> row[c]]
              => Changed(ch, row) = [c \in Columns |-> Changed(ch, row)[c]]
        BY DEF Changed
    <3> QED BY <1>1, <3>1 DEF Shaped
  <2>2. rows' = [d \in DOMAIN rows' |-> rows'[d]] /\ DOMAIN rows' \subseteq Watched
      BY <1>1 DEF Shaped
  <2>3. ASSUME NEW q \in Passes PROVE (IF Running(q) THEN InTurn(q) ELSE draft[q] = Blank)'
    <3>1. CASE q = p
        BY <1>2, <1>5, <3>1
    <3>2. CASE q # p
        BY <1>2, <1>5, <3>2 DEF Shaped, InTurn
    <3> QED BY <3>1, <3>2
  <2> QED BY <2>1, <2>2, <2>3 DEF Shaped, Passes
<1>16. Separate'
    BY <1>2, <1>5 DEF Separate, Touched, Passes
<1> QED BY <1>12, <1>13, <1>14, <1>15, <1>16 DEF Passes
----------------------------------------------------------------------------
LEMMA RowsInvInit == MonitorInit => RowsInv
<1> SUFFICES ASSUME MonitorInit PROVE RowsInv
    OBVIOUS
<1>1. PICK fleet \in Fleets : rows = [d \in fleet |-> [status |-> "live", count |-> 0, p95 |-> 0,
                                          errors |-> 0, drift |-> 0, last |-> -1]]
    BY DEF MonitorInit
<1>2. /\ rollups = <<>> /\ Committed = {}
      /\ \A p \in Passes : ~Running(p) /\ draft[p] = Blank
    BY DEF MonitorInit, Committed, Running, Asleep
<1>3. Shaped
  <2>1. \A d \in DOMAIN rows : rows[d] = [c \in Columns |-> rows[d][c]]
      BY <1>1 DEF Columns, Figures
  <2>2. DOMAIN rows \subseteq Watched
      BY <1>1, MonitorAssumption
  <2> QED BY <1>1, <1>2, <2>1, <2>2 DEF Shaped
<1>4. Separate /\ MinutesShown
    BY <1>2 DEF Separate, MinutesShown
<1>5. FiguresShown
  <2>1. Metrics({}) = [count |-> 0, p95 |-> 0, errors |-> 0, drift |-> 0]
    <3>1. {e \in {} : e.ok} = {} /\ Cardinality({}) = 0
        BY FS_EmptySet
    <3>2. Latencies({}) = <<>>
      <4>1. <<>> \in [1 .. 0 -> {}] /\ \A s \in [1 .. 0 -> {}] : s = <<>>
          OBVIOUS
      <4>2. ByLatency({}) = <<>>
          BY <3>1, <4>1 DEF ByLatency
      <4> QED BY <3>1, <4>2 DEF Latencies
    <3>3. Pct(<<>>, 95) = 0
        BY DEF Pct
    <3> QED BY <3>1, <3>2, <3>3 DEF Metrics, ErrorPct
  <2> QED BY <1>1, <1>2, <2>1 DEF FiguresShown, Alike, Figures
<1> QED BY <1>2, <1>3, <1>4, <1>5 DEF RowsInv

LEMMA RowsInvStep ==
    ASSUME AlertInv, AlertInv', RowsInv, [MonitorNext]_monitorVars
    PROVE  RowsInv'
<1>1. ASSUME NEW p \in Passes, PurgeExpired(p) PROVE RowsInv'
  <2>1. /\ pass' = [pass EXCEPT ![p] = [pass[p] EXCEPT !.state = "done"]]
        /\ draft' = draft /\ UNCHANGED <<rows, rollups>> /\ pass[p].state = "purge"
      BY <1>1 DEF PurgeExpired, AlertInv, Formed
  <2>2. /\ pass'[p].state = "done" /\ pass'[p].saw = pass[p].saw /\ pass'[p].after = pass[p].after
        /\ \A q \in Passes \ {p} : pass'[q] = pass[q]
      BY <2>1 DEF AlertInv, Formed, IsPass
  <2>3. Committed' = Committed
      BY <2>1, <2>2 DEF Committed, Passes
  <2>4. \A q \in Passes : (Running(q) => q # p) /\ (Running(q)' => Running(q))
      BY <2>1, <2>2 DEF Running
  <2>5. rows' = [d \in DOMAIN rows' |-> rows'[d]]
        /\ \A d \in DOMAIN rows' : rows'[d] = [c \in Columns |-> rows'[d][c]] /\ Alike(rows'[d], rows[d])
      BY <2>1 DEF RowsInv, Shaped, Alike
  <2> QED BY <2>1, <2>2, <2>3, <2>4, <2>5, QuietRows
<1>2. ASSUME UNCHANGED <<pass, draft, rollups>>,
             rows' = [d \in DOMAIN rows' |-> rows'[d]], DOMAIN rows' \subseteq DOMAIN rows,
             \A d \in DOMAIN rows' : /\ rows'[d] = [c \in Columns |-> rows'[d][c]]
                                     /\ Alike(rows'[d], rows[d])
      PROVE  RowsInv'
  <2>1. Committed' = Committed /\ \A p \in Passes : Running(p)' <=> Running(p)
      BY <1>2 DEF Committed, Passes, Running
  <2> QED BY <1>2, <2>1, QuietRows
<1>3. ASSUME UNCHANGED <<pass, draft, rollups, rows>> PROVE RowsInv'
    BY <1>2, <1>3 DEF RowsInv, Shaped, Alike
<1>4. ASSUME NEW d, NEW c \in {"status", "last"}, NEW v, rows' = [rows EXCEPT ![d] = [@ EXCEPT ![c] = v]],
             UNCHANGED <<pass, draft, rollups>>
      PROVE  RowsInv'
  <2>1. ASSUME NEW e \in DOMAIN rows
        PROVE  rows'[e] = [b \in Columns |-> rows'[e][b]] /\ Alike(rows'[e], rows[e])
      BY <1>4 DEF RowsInv, Shaped, Alike, Columns, Figures
  <2> QED BY <1>2, <1>4, <2>1
<1>5. ASSUME NEW d, IngestEvent(d) PROVE RowsInv'
  <2>1. PICK v : rows' = [rows EXCEPT ![d].last = v]
      BY <1>5 DEF IngestEvent
  <2> QED BY <1>4, <1>5, <2>1 DEF IngestEvent
<1>6. ASSUME NEW d, ToggleDeployment(d) PROVE RowsInv'
  <2>1. PICK v : rows' = [rows EXCEPT ![d].status = v]
      BY <1>6 DEF ToggleDeployment
  <2> QED BY <1>4, <1>6, <2>1 DEF ToggleDeployment
<1>7. ASSUME NEW d, RemoveDeployment(d) PROVE RowsInv'
    BY <1>2, <1>7 DEF RemoveDeployment, RowsInv, Shaped, Alike
<1>8. ASSUME NEW d, IngestWindow(d) PROVE RowsInv'
    BY <1>3, <1>8 DEF IngestWindow
<1>9. CASE Advance \/ UNCHANGED monitorVars
    BY <1>3, <1>9 DEF Advance, monitorVars
<1> QED BY <1>1, <1>5, <1>6, <1>7, <1>8, <1>9, BeginRows, ReadRows, JudgeRows, CommitRows, AbortRows
        DEF MonitorNext

\* The figures a deployment's row shows are those of one pass over one window, or of
\* none before the first, unless two overlapping passes measured it; and every minute's
\* are one pass's, whatever passes overlap, are rolled back or die, and whatever clients
\* and operators do meanwhile (_update_live_metrics, _upsert_rollups).
THEOREM RowsAlwaysFromOnePass == MonitorSpec => []RowsFromOnePass
<1>1. RowsInv => RowsFromOnePass
  <2> SUFFICES ASSUME RowsInv PROVE RowsFromOnePass
      OBVIOUS
  <2>1. \A k \in DOMAIN rollups : \E p \in Committed :
            /\ k[1] \in DOMAIN pass[p].saw
            /\ k \in DOMAIN Rollups(k[1], pass[p].saw[k[1]])
            /\ rollups[k] = Rollups(k[1], pass[p].saw[k[1]])[k]
      BY DEF RowsInv, MinutesShown, Made, MadeOf
  <2>2. ASSUME NEW d, NEW E, Alike(rows[d], Metrics(E))
        PROVE  [c \in DOMAIN Metrics(E) |-> rows[d][c]] = Metrics(E)
      BY <2>2 DEF Alike, Figures, Metrics
  <2>3. ASSUME NEW d \in DOMAIN rows
        PROVE  LET by == {p \in Committed : d \in DOMAIN pass[p].saw}
                   Shows(E) == [c \in DOMAIN Metrics(E) |-> rows[d][c]] = Metrics(E)
               IN  \/ \E p \in by : Shows(pass[p].saw[d])
                   \/ by = {} /\ Shows({})
                   \/ \E p, q \in by : p # q /\ Overlapped(p, q)
    <3> DEFINE by == {p \in Committed : d \in DOMAIN pass[p].saw}
    <3>1. CASE \E p \in Committed : d \in DOMAIN pass[p].saw /\ Alike(rows[d], Metrics(pass[p].saw[d]))
        BY <2>2, <3>1
    <3>2. CASE (\A p \in Committed : d \notin DOMAIN pass[p].saw) /\ Alike(rows[d], Metrics({}))
      <4>1. by = {}
          BY <3>2
      <4> QED BY <2>2, <3>2, <4>1
    <3>3. CASE \E p, q \in Committed :
                  p # q /\ d \in DOMAIN pass[p].saw \cap DOMAIN pass[q].saw /\ Overlapped(p, q)
      <4>1. PICK p \in Committed, q \in Committed :
                  p # q /\ d \in DOMAIN pass[p].saw \cap DOMAIN pass[q].saw /\ Overlapped(p, q)
          BY <3>3
      <4>2. p \in by /\ q \in by
          BY <4>1
      <4> QED BY <4>1, <4>2
    <3> QED BY <3>1, <3>2, <3>3 DEF RowsInv, FiguresShown
  <2> QED BY <2>1, <2>3 DEF RowsFromOnePass
<1> QED BY <1>1, AlertInvInit, AlertInvStep, RowsInvInit, RowsInvStep, PTL DEF MonitorSpec
-----------------------------------------------------------------------------
(* What the windows are made of.                                            *)

\* A finite set of events, each with an id of its own.
IsWindow(E) ==
    /\ IsFiniteSet(E)
    /\ \A e \in E : e.id \in Nat /\ e.ts \in Nat /\ e.ms \in Nat /\ e.ok \in BOOLEAN
    /\ \A e, f \in E : e.id = f.id => e = f

\* What a pass saw of a deployment are events of that deployment.
EventsInv ==
    /\ arrivals \in Nat /\ IsWindow(events) /\ \A e \in events : e.id < arrivals
    /\ \A p \in Passes :
          /\ IsFiniteSet(DOMAIN pass[p].saw)
          /\ \A d \in DOMAIN pass[p].saw :
                IsWindow(pass[p].saw[d]) /\ \A e \in pass[p].saw[d] : e.dep = d

LEMMA PartOfWindow ==
    ASSUME NEW E, IsWindow(E), NEW F \in SUBSET E
    PROVE  IsWindow(F)
BY FS_Subset DEF IsWindow

LEMMA EventsInvStep ==
    ASSUME AlertInv, EventsInv, [MonitorNext]_monitorVars
    PROVE  EventsInv'
<1>1. ASSUME UNCHANGED arrivals, events' \subseteq events,
             \A p \in Passes : pass'[p].saw = pass[p].saw \/ pass'[p].saw = <<>>
      PROVE  EventsInv'
  <2>1. ASSUME NEW p \in Passes
        PROVE  /\ IsFiniteSet(DOMAIN pass'[p].saw)
               /\ \A d \in DOMAIN pass'[p].saw :
                     IsWindow(pass'[p].saw[d]) /\ \A e \in pass'[p].saw[d] : e.dep = d
    <3>1. CASE pass'[p].saw = pass[p].saw
        BY <3>1 DEF EventsInv
    <3>2. CASE pass'[p].saw = <<>>
        BY <3>2, FS_EmptySet
    <3> QED BY <1>1, <3>1, <3>2
  <2>2. IsWindow(events')
      BY <1>1, PartOfWindow DEF EventsInv
  <2> QED BY <1>1, <2>1, <2>2 DEF EventsInv, Passes
<1>2. ASSUME NEW p \in Passes, BeginPass(p) \/ JudgeDeployment(p) \/ CommitPass(p) \/ AbortPass(p)
      PROVE  EventsInv'
  <2>1. UNCHANGED <<arrivals, events>>
      BY <1>2 DEF BeginPass, JudgeDeployment, CommitPass, AbortPass
  <2>2. ASSUME NEW x, pass' = [pass EXCEPT ![p] = x], x.saw = pass[p].saw \/ x.saw = <<>>
        PROVE  \A q \in Passes : pass'[q].saw = pass[q].saw \/ pass'[q].saw = <<>>
      BY <2>2 DEF AlertInv, Formed
  <2>3. CASE BeginPass(p)
    <3>1. PICK order : pass' = [pass EXCEPT ![p] =
                     [state |-> "next", now |-> clock, todo |-> order, loaded |-> rows,
                      saw |-> <<>>, after |-> {q \in Passes : pass[q].state \in {"purge", "done"}}]]
        BY <2>3 DEF BeginPass
    <3> QED BY <1>1, <2>1, <2>2, <3>1
  <2>4. CASE JudgeDeployment(p)
    <3>0. IsPass(pass[p]) /\ DOMAIN pass = Passes
        BY DEF AlertInv, Formed
    <3>1. PICK t, l : pass' = [pass EXCEPT ![p] = [pass[p] EXCEPT !.state = "next", !.todo = t, !.loaded = l]]
      <4>1. PICK t, l : pass' = [pass EXCEPT ![p].state = "next", ![p].todo = t, ![p].loaded = l]
          BY <2>4 DEF JudgeDeployment
      <4> QED BY <3>0, <4>1
    <3>2. [pass[p] EXCEPT !.state = "next", !.todo = t, !.loaded = l].saw = pass[p].saw
        BY <3>0 DEF IsPass
    <3> QED BY <1>1, <2>1, <2>2, <3>1, <3>2
  <2>5. CASE CommitPass(p)
    <3>1. pass' = [pass EXCEPT ![p] = [Asleep EXCEPT !.state = "purge", !.saw = pass[p].saw,
                                                     !.after = pass[p].after]]
        BY <2>5 DEF CommitPass
    <3>2. [Asleep EXCEPT !.state = "purge", !.saw = pass[p].saw, !.after = pass[p].after].saw = pass[p].saw
        BY DEF Asleep
    <3> QED BY <1>1, <2>1, <2>2, <3>1, <3>2
  <2>6. CASE AbortPass(p)
    <3>1. pass' = [pass EXCEPT ![p] = [Asleep EXCEPT !.state = "failed"]]
        BY <2>6 DEF AbortPass
    <3>2. [Asleep EXCEPT !.state = "failed"].saw = <<>>
        BY DEF Asleep
    <3> QED BY <1>1, <2>1, <2>2, <3>1, <3>2
  <2> QED BY <1>2, <2>3, <2>4, <2>5, <2>6
<1>3. ASSUME NEW p \in Passes, PurgeExpired(p) PROVE EventsInv'
  <2>1. pass' = [pass EXCEPT ![p] = [pass[p] EXCEPT !.state = "done"]] /\ arrivals' = arrivals
        /\ events' \subseteq events
      BY <1>3 DEF PurgeExpired, AlertInv, Formed
  <2>2. \A q \in Passes : pass'[q].saw = pass[q].saw
      BY <2>1 DEF AlertInv, Formed, IsPass
  <2> QED BY <1>1, <2>1, <2>2
<1>4. ASSUME NEW p \in Passes, ReadEvents(p) PROVE EventsInv'
  <2> DEFINE d == Head(pass[p].todo)
             lately == {e \in Inside(pass[p].now - Span, pass[p].now) : e.dep = d}
             saw2 == [x \in DOMAIN pass[p].saw \cup {d} |-> IF x = d THEN lately ELSE pass[p].saw[x]]
  <2>1. pass' = [pass EXCEPT ![p] = [pass[p] EXCEPT !.state = "read", !.saw = saw2]]
      BY <1>4 DEF ReadEvents, AlertInv, Formed
  <2>2. IsWindow(lately) /\ \A e \in lately : e.dep = d
    <3>1. lately \subseteq events
        BY DEF Inside
    <3> QED BY <3>1, PartOfWindow DEF EventsInv
  <2> HIDE DEF lately, d
  <2>3. /\ IsFiniteSet(DOMAIN saw2)
        /\ \A x \in DOMAIN saw2 : IsWindow(saw2[x]) /\ \A e \in saw2[x] : e.dep = x
    <3>1. IsFiniteSet(DOMAIN pass[p].saw \cup {d})
        BY FS_AddElement DEF EventsInv
    <3> QED BY <2>2, <3>1 DEF EventsInv
  <2> HIDE DEF saw2
  <2>4. pass'[p].saw = saw2 /\ \A q \in Passes \ {p} : pass'[q] = pass[q]
      BY <2>1 DEF AlertInv, Formed, IsPass
  <2>5. UNCHANGED <<arrivals, events>>
      BY <1>4 DEF ReadEvents
  <2> QED BY <2>3, <2>4, <2>5 DEF EventsInv, Passes
<1>5. ASSUME NEW d, IngestEvent(d) PROVE EventsInv'
  <2>1. PICK ts \in Sent, a \in Answered : events' = events \cup
            {[id |-> arrivals, dep |-> d, ts |-> ts, ms |-> a.ms, ok |-> a.ok]}
      BY <1>5 DEF IngestEvent
  <2>2. ts \in Nat /\ a.ms \in Nat /\ a.ok \in BOOLEAN
      BY MonitorAssumption DEF Sent
  <2>3. IsWindow(events') /\ \A e \in events' : e.id < arrivals + 1
    <3> DEFINE new == [id |-> arrivals, dep |-> d, ts |-> ts, ms |-> a.ms, ok |-> a.ok]
    <3>1. /\ new.id = arrivals /\ new.ts \in Nat /\ new.ms \in Nat /\ new.ok \in BOOLEAN
        BY <2>2
    <3> HIDE DEF new
    <3>2. events' = events \cup {new}
        BY <2>1 DEF new
    <3>3. IsFiniteSet(events')
        BY <3>2, FS_AddElement DEF EventsInv, IsWindow
    <3>4. \A e \in events : e.id \in Nat /\ e.id < arrivals /\ arrivals \in Nat
        BY DEF EventsInv, IsWindow
    <3>5. \A e, f \in events' : e.id = f.id => e = f
        BY <3>1, <3>2, <3>4 DEF EventsInv, IsWindow
    <3>6. \A e \in events' : /\ e.id \in Nat /\ e.ts \in Nat /\ e.ms \in Nat /\ e.ok \in BOOLEAN
                              /\ e.id < arrivals + 1
        BY <3>1, <3>2, <3>4 DEF EventsInv, IsWindow
    <3> QED BY <3>3, <3>5, <3>6 DEF IsWindow
  <2>4. arrivals' = arrivals + 1 /\ pass' = pass
      BY <1>5 DEF IngestEvent
  <2> QED BY <2>3, <2>4 DEF EventsInv, Passes
<1>6. ASSUME NEW d, IngestWindow(d) PROVE EventsInv'
  <2>1. arrivals' = arrivals + 1 /\ UNCHANGED <<pass, events>>
      BY <1>6 DEF IngestWindow
  <2>2. \A e \in events : e.id < arrivals + 1
      BY DEF EventsInv, IsWindow
  <2> QED BY <2>1, <2>2 DEF EventsInv, Passes
<1>7. ASSUME UNCHANGED <<arrivals, events, pass>> PROVE EventsInv'
    BY <1>1, <1>7
<1>8. ASSUME NEW d, ToggleDeployment(d) \/ RemoveDeployment(d) PROVE EventsInv'
    BY <1>7, <1>8 DEF ToggleDeployment, RemoveDeployment
<1>9. CASE Advance \/ UNCHANGED monitorVars
    BY <1>7, <1>9 DEF Advance, monitorVars
<1> QED BY <1>2, <1>3, <1>4, <1>5, <1>6, <1>8, <1>9 DEF MonitorNext
----------------------------------------------------------------------------
\* A window can be put in order of latency.
LEMMA Ordered ==
    ASSUME NEW E, IsWindow(E)
    PROVE  ByLatency(E) \in [1 .. Cardinality(E) -> E]
<1> DEFINE Before(a, b) == a.ms < b.ms \/ (a.ms = b.ms /\ a.id < b.id)
           Sorted(s, T) == /\ s \in [1 .. Cardinality(T) -> T]
                           /\ \A i, j \in 1 .. Cardinality(T) : i < j => Before(s[i], s[j])
           Good == {T \in SUBSET E : \E s : Sorted(s, T)}
<1>1. ASSUME NEW T \in SUBSET E, T # {} PROVE \E m \in T : \A e \in T \ {m} : Before(e, m)
  <2> DEFINE OK == {U \in SUBSET T : U = {} \/ \E m \in U : \A e \in U \ {m} : Before(e, m)}
  <2>1. ASSUME NEW U \in SUBSET T, \A V \in SUBSET U : V # U => V \in OK PROVE U \in OK
    <3>1. CASE U # {}
      <4>1. PICK a \in U : TRUE
          BY <3>1
      <4>2. U \ {a} \in OK
          BY <2>1, <4>1
      <4> DEFINE V == U \ {a}
      <4>3. CASE V = {}
        <5>1. U \ {a} = {}
            BY <4>3
        <5> QED BY <4>1, <5>1
      <4>4. CASE V # {}
        <5>1. PICK m \in V : \A e \in V \ {m} : Before(e, m)
            BY <4>2, <4>4
        <5>2. a \in E /\ m \in E /\ a # m /\ m \in U
            BY <4>1, <5>1
        <5>3. \A e \in E : e.id \in Nat /\ e.ms \in Nat
            BY DEF IsWindow
        <5>4. Before(a, m) \/ Before(m, a)
            BY <5>2, <5>3 DEF IsWindow
        <5>5. CASE Before(a, m)
          <6>1. \A e \in U \ {m} : Before(e, m)
              BY <5>1, <5>5
          <6> QED BY <5>2, <6>1
        <5>6. CASE Before(m, a)
          <6>1. \A e \in U \ {a} : Before(e, a)
            <7>1. ASSUME NEW e \in E, Before(e, m) PROVE Before(e, a)
                BY <5>2, <5>3, <5>6, <7>1
            <7> QED BY <5>1, <5>6, <7>1
          <6> QED BY <4>1, <6>1
        <5> QED BY <5>4, <5>5, <5>6
      <4> QED BY <4>3, <4>4
    <3> QED BY <3>1
  <2>2. IsFiniteSet(T)
      BY FS_Subset DEF IsWindow
  <2>3. T \in OK
    <3> HIDE DEF OK
    <3> QED BY <2>1, <2>2, SubsetInduction
  <2> QED BY <1>1, <2>3
<1>2. ASSUME NEW T \in SUBSET E, \A U \in SUBSET T : U # T => U \in Good PROVE T \in Good
  <2>0. IsFiniteSet(T) /\ Cardinality(T) \in Nat
      BY FS_Subset, FS_CardinalityType DEF IsWindow
  <2>1. CASE T = {}
    <3>1. Cardinality(T) = 0
        BY <2>1, FS_EmptySet
    <3>2. Sorted(<<>>, T)
        BY <2>1, <3>1
    <3> QED BY <3>2
  <2>2. CASE T # {}
    <3>1. PICK m \in T : \A e \in T \ {m} : Before(e, m)
        BY <1>1, <2>2
    <3> DEFINE U == T \ {m}
               n == Cardinality(T)
    <3>2. U \in Good
        BY <1>2, <3>1
    <3>3. PICK s : Sorted(s, U)
        BY <3>2
    <3>4. Cardinality(U) = n - 1 /\ n \in Nat
        BY <2>0, <3>1, FS_RemoveElement
    <3> HIDE DEF U, n
    <3>5. \A i \in 1 .. n - 1 : s[i] \in T /\ Before(s[i], m)
        BY <3>1, <3>3, <3>4 DEF U
    <3> DEFINE t == [i \in 1 .. n |-> IF i = n THEN m ELSE s[i]]
    <3>6. t \in [1 .. n -> T]
      <4>1. \A i \in 1 .. n : i = n \/ i \in 1 .. n - 1
          BY <3>4
      <4> QED BY <3>1, <3>5, <4>1
    <3>7. ASSUME NEW i \in 1 .. n, NEW j \in 1 .. n, i < j PROVE Before(t[i], t[j])
      <4>1. i \in 1 .. n - 1 /\ i # n
          BY <3>4, <3>7
      <4>2. CASE j = n
          BY <3>5, <4>1, <4>2
      <4>3. CASE j # n
        <5>1. j \in 1 .. n - 1
            BY <3>4, <4>3
        <5> QED BY <3>3, <3>4, <3>7, <4>1, <4>3, <5>1
      <4> QED BY <4>2, <4>3
    <3> HIDE DEF t, Before
    <3>8. Sorted(t, T)
        BY <3>6, <3>7 DEF n
    <3> QED BY <3>8
  <2> QED BY <2>1, <2>2
<1>3. E \in Good
  <2> HIDE DEF Good
  <2> QED BY <1>2, SubsetInduction DEF IsWindow
<1>4. PICK s : Sorted(s, E)
    BY <1>3
<1>5. \A r \in [1 .. Cardinality(E) -> E] : DOMAIN r = 1 .. Cardinality(E)
    OBVIOUS
<1>6. \E r \in [1 .. Cardinality(E) -> E] : \A i, j \in DOMAIN r :
          i < j => r[i].ms < r[j].ms \/ (r[i].ms = r[j].ms /\ r[i].id < r[j].id)
    BY <1>4, <1>5
<1> QED BY <1>6 DEF ByLatency

LEMMA PctBound ==
    ASSUME NEW M \in Nat, NEW n \in Nat, NEW s \in [1 .. n -> 0 .. M]
    PROVE  Pct(s, 95) \in 0 .. 100 * M
<1>1. CASE n = 0
  <2>1. s = <<>>
      BY <1>1
  <2> QED BY <2>1 DEF Pct
<1>2. CASE n # 0
  <2> DEFINE rank == 95 * (n - 1)
             q == rank \div 100
             r == rank % 100
             next == Min({Len(s), 2 + q})
             below == s[1 + q]
             above == s[next]
  <2>1. Len(s) = n /\ s # <<>>
      BY <1>2
  <2>2. /\ rank \in Nat /\ q \in Nat /\ r \in 0 .. 99 /\ rank = 100 * q + r
      BY <1>2
  <2>3. 1 + q \in 1 .. n
      BY <1>2, <2>2
  <2> HIDE DEF q, r
  <2>4. next \in 1 .. n
    <3>1. \E x \in {n, 2 + q} : \A y \in {n, 2 + q} : x <= y
        BY <2>2
    <3>2. next \in {n, 2 + q} /\ \A y \in {n, 2 + q} : next <= y
        BY <2>1, <3>1 DEF Min
    <3> QED BY <1>2, <2>2, <3>2
  <2> HIDE DEF next
  <2>5. below \in 0 .. M /\ above \in 0 .. M
      BY <2>3, <2>4
  <2>6. Pct(s, 95) = 100 * below + r * (above - below)
      BY <2>1 DEF Pct, q, r, next
  <2> HIDE DEF below, above
  <2>7. 100 * below + r * (above - below) = (100 - r) * below + r * above
      BY <2>2, <2>5
  <2>8. ASSUME NEW a \in 0 .. M, NEW k \in 0 .. 100 PROVE k * a \in Nat /\ k * a <= k * M
      OBVIOUS
  <2>9. /\ (100 - r) * below \in Nat /\ (100 - r) * below <= (100 - r) * M
        /\ r * above \in Nat /\ r * above <= r * M
    <3>1. r \in 0 .. 100 /\ 100 - r \in 0 .. 100
        BY <2>2
    <3> QED BY <2>5, <2>8, <3>1
  <2>10. (100 - r) * M + r * M = 100 * M
      BY <2>2
  <2> QED BY <2>2, <2>6, <2>7, <2>9, <2>10
<1> QED BY <1>1, <1>2

LEMMA WindowPct ==
    ASSUME NEW E, IsWindow(E), NEW M \in Nat, \A e \in E : e.ms <= M
    PROVE  Pct(Latencies(E), 95) \in 0 .. 100 * M
<1> DEFINE F == {e \in E : e.ok}
           n == Cardinality(F)
           s == Latencies(E)
<1>1. IsWindow(F) /\ IsFiniteSet(F)
    BY PartOfWindow DEF IsWindow
<1>2. n \in Nat
    BY <1>1, FS_CardinalityType
<1>3. ByLatency(F) \in [1 .. n -> F]
    BY <1>1, Ordered
<1>4. s = [i \in 1 .. n |-> ByLatency(F)[i].ms]
    BY <1>3 DEF Latencies
<1>5. \A e \in F : e.ms \in 0 .. M
    BY DEF IsWindow
<1>6. s \in [1 .. n -> 0 .. M]
    BY <1>3, <1>4, <1>5
<1> HIDE DEF n, s
<1> QED BY <1>2, <1>6, PctBound DEF s
----------------------------------------------------------------------------
(* The charts.                                                              *)

\* Which requests anyone has met.
Met == events \cup UNION {UNION Range(pass[p].saw) : p \in Committed}

LEMMA MetFinite ==
    ASSUME EventsInv
    PROVE  IsFiniteSet(Met) /\ \A e \in Met : e.ms \in Nat
<1> DEFINE summed(p) == UNION Range(pass[p].saw)
           f == [p \in Committed |-> summed(p)]
<1>1. Committed \subseteq Passes
    BY DEF Committed
<1>2. IsFiniteSet(Committed)
  <2>1. IsFiniteSet(Passes)
      BY MonitorAssumption, FS_Interval DEF Passes
  <2> QED BY <1>1, <2>1, FS_Subset
<1>3. ASSUME NEW p \in Committed PROVE IsFiniteSet(f[p]) /\ \A e \in f[p] : e.ms \in Nat
  <2>1. IsFiniteSet(DOMAIN pass[p].saw)
      BY <1>1 DEF EventsInv
  <2>2. Range(pass[p].saw) = {pass[p].saw[d] : d \in DOMAIN pass[p].saw}
      BY DEF Range
  <2>3. IsFiniteSet(Range(pass[p].saw))
      BY <2>1, <2>2, FiniteImage
  <2>4. \A E \in Range(pass[p].saw) : IsWindow(E)
      BY <1>1, <2>2 DEF EventsInv
  <2>5. IsFiniteSet(summed(p))
      BY <2>3, <2>4, FS_UNION DEF IsWindow
  <2> QED BY <2>4, <2>5 DEF IsWindow
<1> HIDE DEF f
<1>4. IsFiniteSet({f[p] : p \in Committed})
    BY <1>2, FiniteImage
<1>5. IsFiniteSet(UNION {f[p] : p \in Committed})
    BY <1>3, <1>4, FS_UNION
<1>6. IsFiniteSet(events) /\ \A e \in events : e.ms \in Nat
    BY DEF EventsInv, IsWindow
<1>7. Met = events \cup UNION {f[p] : p \in Committed}
    BY DEF Met, f
<1> QED BY <1>3, <1>5, <1>6, <1>7, FS_Union

\* A time in the chart's range is in one bucket.
LEMMA OneBucket ==
    ASSUME AlertInv, NEW t \in Int
    PROVE  /\ ChartStart \in Int /\ ChartStart < clock
           /\ \A i, j \in 1 .. ChartBuckets : InBucket(t, i) /\ InBucket(t, j) => i = j
           /\ \A i \in 1 .. ChartBuckets : InBucket(t, i) => ChartStart <= t
           /\ ChartStart <= t /\ t < clock => \E i \in 1 .. ChartBuckets : InBucket(t, i)
<1>1. clock \in Nat /\ ChartBucket \in Nat \ {0} /\ ChartBuckets \in Nat \ {0}
    BY MonitorAssumption DEF AlertInv, Formed
<1> DEFINE w == ChartBucket * ChartBuckets
<1>2. w \in Nat /\ w > 0 /\ ChartStart = clock - w
    BY <1>1 DEF ChartStart
<1>3. ChartStart \in Int /\ ChartStart < clock
    BY <1>1, <1>2
<1>4. ASSUME NEW i \in 1 .. ChartBuckets, NEW j \in 1 .. ChartBuckets, InBucket(t, i), InBucket(t, j)
      PROVE  i = j
    BY <1>1, <1>3, <1>4 DEF InBucket
<1>5. ASSUME ChartStart <= t, t < clock PROVE \E i \in 1 .. ChartBuckets : InBucket(t, i)
  <2> DEFINE x == t - ChartStart
             q == x \div ChartBucket
  <2>1. x \in Nat /\ x < w
      BY <1>1, <1>2, <1>3, <1>5
  <2> HIDE DEF x, w
  <2>2. q \in Nat /\ ChartBucket * q <= x
      BY <1>1, <2>1
  <2> HIDE DEF q
  <2>3. q < ChartBuckets
    <3>1. ASSUME q >= ChartBuckets PROVE ChartBucket * q >= w
        BY <1>1, <2>2, <3>1 DEF w
    <3> QED BY <1>1, <1>2, <2>1, <2>2, <3>1
  <2>4. q + 1 \in 1 .. ChartBuckets
      BY <1>1, <2>2, <2>3
  <2>5. InBucket(t, q + 1)
      BY <1>5, <2>2 DEF InBucket, q, x
  <2> QED BY <2>4, <2>5
<1> QED BY <1>3, <1>4, <1>5 DEF InBucket

\* The short chart: its buckets are the parts of the headline's events.
LEMMA RawChart ==
    ASSUME AlertInv, EventsInv, NEW mod
    PROVE  LET E == FetchEvents(mod, ChartStart, clock)
               raw == BucketRaw(mod)
           IN  /\ E \subseteq events /\ DOMAIN raw = 1 .. ChartBuckets
               /\ SumFunction([i \in DOMAIN raw |-> raw[i].count]) = Cardinality(E)
               /\ \A i \in DOMAIN raw :
                     /\ \E F \in SUBSET E : raw[i] = [count |-> Cardinality(F), p95 |-> Pct(Latencies(F), 95)]
                     /\ raw[i].count = Cardinality(E) => raw[i].p95 = Pct(Latencies(E), 95)
<1> DEFINE E == FetchEvents(mod, ChartStart, clock)
           raw == BucketRaw(mod)
           I == 1 .. ChartBuckets
           F == [i \in I |-> {e \in E : InBucket(e.ts, i)}]
           f == [i \in I |-> raw[i].count]
<1>1. E \subseteq events /\ IsWindow(E)
  <2>1. E \subseteq events
      BY DEF FetchEvents, Inside
  <2> QED BY <2>1, PartOfWindow DEF EventsInv
<1>2. \A e \in E : e.ts \in Int /\ ChartStart <= e.ts /\ e.ts < clock
    BY <1>1 DEF FetchEvents, Inside, IsWindow
<1>3. DOMAIN raw = I
    BY DEF BucketRaw
<1>4. ASSUME NEW i \in I
      PROVE  /\ raw[i] = [count |-> Cardinality(F[i]), p95 |-> Pct(Latencies(F[i]), 95)] /\ F[i] \subseteq E
             /\ raw[i].count = Cardinality(F[i]) /\ raw[i].p95 = Pct(Latencies(F[i]), 95)
    BY DEF BucketRaw
<1>5. IsFiniteSet(I) /\ IsFiniteSet(E)
  <2>1. ChartBuckets \in Int /\ 1 \in Int
      BY MonitorAssumption
  <2> QED BY <1>1, <2>1, FS_Interval DEF IsWindow
<1>6. \A i, j \in I : i # j => F[i] \cap F[j] = {}
    BY <1>2, OneBucket
<1>7. UNION {F[i] : i \in I} = E
    BY <1>2, OneBucket
<1> HIDE DEF E, raw, F, I
<1>8. \A i \in I : F[i] \subseteq E /\ f[i] = Cardinality(F[i])
    BY <1>4
<1>9. SumFunctionOnSet(f, I) = Cardinality(E)
  <2> HIDE DEF f
  <2> QED BY <1>5, <1>6, <1>7, <1>8, SumOfParts
<1>10. SumFunction([i \in DOMAIN raw |-> raw[i].count]) = Cardinality(E)
    BY <1>3, <1>9 DEF SumFunction
<1>11. ASSUME NEW i \in I, raw[i].count = Cardinality(E) PROVE raw[i].p95 = Pct(Latencies(E), 95)
  <2>1. Cardinality(F[i]) = Cardinality(E)
      BY <1>4, <1>11
  <2>2. F[i] = E
      BY <1>4, <1>5, <2>1, FS_Subset
  <2> QED BY <1>4, <2>2
<1>12. \A i \in I : \E G \in SUBSET E : raw[i] = [count |-> Cardinality(G), p95 |-> Pct(Latencies(G), 95)]
    BY <1>4
<1> QED BY <1>1, <1>3, <1>10, <1>11, <1>12 DEF E, raw, I

\* A minute's rollup was made of requests of its deployment and minute.
LEMMA RollupParts ==
    ASSUME AlertInv, RowsInv, EventsInv
    PROVE  /\ \E part : \A k \in DOMAIN rollups :
                 /\ part[k] \subseteq Met /\ IsWindow(part[k]) /\ part[k] # {}
                 /\ \A e \in part[k] : k = <<e.dep, MinuteOf(e)>>
                 /\ rollups[k].count = Cardinality(part[k])
                 /\ rollups[k].p95 = Pct(Latencies(part[k]), 95)
           /\ IsFiniteSet(DOMAIN rollups)
<1> DEFINE Part(k, G) ==
               /\ G \subseteq Met /\ IsWindow(G) /\ G # {}
               /\ \A e \in G : k = <<e.dep, MinuteOf(e)>>
               /\ rollups[k].count = Cardinality(G)
               /\ rollups[k].p95 = Pct(Latencies(G), 95)
<1>1. ASSUME NEW k \in DOMAIN rollups PROVE \E G : Part(k, G)
  <2>1. PICK p \in Committed : Made(p, k) /\ rollups[k] = MadeOf(p, k)
      BY DEF RowsInv, MinutesShown
  <2> DEFINE E == pass[p].saw[k[1]]
             G == {e \in E : MinuteOf(e) = k[2]}
  <2>2. IsWindow(E) /\ (\A e \in E : e.dep = k[1]) /\ E \subseteq Met
    <3>1. p \in Passes /\ k[1] \in DOMAIN pass[p].saw
        BY <2>1 DEF Committed, Made
    <3>2. E \in Range(pass[p].saw)
        BY <3>1 DEF Range
    <3> QED BY <3>1, <3>2 DEF EventsInv, Met
  <2> HIDE DEF E
  <2>3. k \in {<<k[1], MinuteOf(e)>> : e \in E} /\ rollups[k] = Summary(G)
      BY <2>1 DEF Made, MadeOf, Rollups, E
  <2>4. PICK e0 \in E : k = <<k[1], MinuteOf(e0)>>
      BY <2>3
  <2>5. MinuteOf(e0) = k[2] /\ e0 \in G
      BY <2>4
  <2>6. \A e \in G : k = <<e.dep, MinuteOf(e)>>
      BY <2>2, <2>4, <2>5
  <2>7. rollups[k].count = Cardinality(G) /\ rollups[k].p95 = Pct(Latencies(G), 95)
      BY <2>3 DEF Summary
  <2>8. IsWindow(G) /\ G \subseteq Met
      BY <2>2, PartOfWindow
  <2> HIDE DEF G
  <2> QED BY <2>5, <2>6, <2>7, <2>8
<1> DEFINE part == [k \in DOMAIN rollups |-> CHOOSE G : Part(k, G)]
<1>2. \A k \in DOMAIN rollups : Part(k, part[k])
  <2> HIDE DEF Part
  <2> QED BY <1>1
<1> HIDE DEF part
<1>3. IsFiniteSet(DOMAIN rollups)
  <2> DEFINE key == [e \in Met |-> <<e.dep, MinuteOf(e)>>]
  <2>1. IsFiniteSet({key[e] : e \in Met})
    <3> HIDE DEF key
    <3> QED BY MetFinite, FiniteImage
  <2>2. DOMAIN rollups \subseteq {key[e] : e \in Met}
      BY <1>2
  <2> QED BY <2>1, <2>2, FS_Subset
<1> QED BY <1>2, <1>3

\* The long chart counts disjoint parts of what was met, and averages their percentiles.
LEMMA RollupChart ==
    ASSUME AlertInv, RowsInv, EventsInv, NEW mod, NEW M \in Nat, \A e \in Met : e.ms <= M
    PROVE  LET drawn == BucketRollups(mod)
           IN  /\ DOMAIN drawn = 1 .. ChartBuckets
               /\ SumFunction([i \in DOMAIN drawn |-> drawn[i].count]) <= Cardinality(Met)
               /\ \A i \in DOMAIN drawn : drawn[i].p95 <= 100 * M
<1> DEFINE drawn == BucketRollups(mod)
           I == 1 .. ChartBuckets
           minutes(i) == {k \in ChartRollups(mod) : InBucket(k[2] * Minute, i)}
           count(i) == [k \in minutes(i) |-> rollups[k].count]
           weighed(i) == [k \in minutes(i) |-> rollups[k].count * rollups[k].p95]
<1>1. PICK part : \A k \in DOMAIN rollups :
                 /\ part[k] \subseteq Met /\ IsWindow(part[k]) /\ part[k] # {}
                 /\ \A e \in part[k] : k = <<e.dep, MinuteOf(e)>>
                 /\ rollups[k].count = Cardinality(part[k])
                 /\ rollups[k].p95 = Pct(Latencies(part[k]), 95)
    BY RollupParts
<1>2. ASSUME NEW i \in I
      PROVE  /\ drawn[i] = [count |-> SumFunction(count(i)),
                            p95 |-> SumFunction(weighed(i)) \div Max({1, SumFunction(count(i))})]
             /\ drawn[i].count = SumFunction(count(i))
             /\ drawn[i].p95 = SumFunction(weighed(i)) \div Max({1, SumFunction(count(i))})
    BY DEF BucketRollups
<1>3. DOMAIN drawn = I
    BY DEF BucketRollups
<1>4. \A k \in DOMAIN rollups : k[2] * Minute \in Int
  <2>1. ASSUME NEW k \in DOMAIN rollups PROVE k[2] \in Int
    <3>1. PICK e \in part[k] : TRUE
        BY <1>1
    <3>2. e.ts \in Nat /\ k[2] = MinuteOf(e)
        BY <1>1, <3>1 DEF IsWindow
    <3> QED BY <3>2, MonitorAssumption DEF MinuteOf
  <2> QED BY <2>1, MonitorAssumption
<1>5. \A i \in I : minutes(i) \subseteq DOMAIN rollups
    BY DEF ChartRollups
<1>6. \A i, j \in I : i # j => minutes(i) \cap minutes(j) = {}
    BY <1>4, <1>5, OneBucket
<1>7. \A k, l \in DOMAIN rollups : k # l => part[k] \cap part[l] = {}
    BY <1>1
<1> DEFINE bucket == [i \in I |-> UNION {part[k] : k \in minutes(i)}]
           total == [i \in I |-> drawn[i].count]
<1> HIDE DEF drawn, minutes
<1>8. ASSUME NEW i \in I
      PROVE  /\ IsFiniteSet(minutes(i)) /\ SumFunction(count(i)) = Cardinality(bucket[i])
             /\ bucket[i] \subseteq Met
  <2>1. IsFiniteSet(minutes(i))
      BY <1>5, <1>8, RollupParts, FS_Subset
  <2> DEFINE c == count(i)
  <2>2. \A k \in minutes(i) : part[k] \subseteq Met /\ c[k] = Cardinality(part[k])
      BY <1>1, <1>5
  <2>3. \A k, l \in minutes(i) : k # l => part[k] \cap part[l] = {}
      BY <1>5, <1>7
  <2>4. DOMAIN c = minutes(i)
      OBVIOUS
  <2> HIDE DEF c
  <2>5. SumFunctionOnSet(c, minutes(i)) = Cardinality(UNION {part[k] : k \in minutes(i)})
      BY <2>1, <2>2, <2>3, MetFinite, SumOfParts
  <2>6. SumFunction(c) = Cardinality(bucket[i])
      BY <2>4, <2>5 DEF SumFunction
  <2>7. bucket[i] \subseteq Met
      BY <2>2
  <2> QED BY <2>1, <2>6, <2>7 DEF c
<1>9. \A i, j \in I : i # j => bucket[i] \cap bucket[j] = {}
  <2>1. ASSUME NEW i \in I, NEW j \in I, i # j, NEW e \in bucket[i], e \in bucket[j] PROVE FALSE
    <3>1. PICK k \in minutes(i) : e \in part[k]
        BY <2>1
    <3>2. PICK l \in minutes(j) : e \in part[l]
        BY <2>1
    <3>3. k \in DOMAIN rollups /\ l \in DOMAIN rollups
        BY <1>5
    <3>4. k = l
        BY <1>7, <3>1, <3>2, <3>3
    <3> QED BY <1>6, <2>1, <3>4
  <2> QED BY <2>1
<1>10. SumFunction([i \in DOMAIN drawn |-> drawn[i].count]) <= Cardinality(Met)
  <2>1. \A i \in I : bucket[i] \subseteq Met /\ total[i] = Cardinality(bucket[i])
      BY <1>2, <1>8
  <2>2. IsFiniteSet(I)
    <3>1. ChartBuckets \in Int /\ 1 \in Int
        BY MonitorAssumption
    <3> QED BY <3>1, FS_Interval
  <2>3. SumFunction([i \in DOMAIN drawn |-> drawn[i].count]) = SumFunctionOnSet(total, I)
      BY <1>3 DEF SumFunction
  <2> HIDE DEF bucket, total, I
  <2>4. SumFunctionOnSet(total, I) = Cardinality(UNION {bucket[i] : i \in I})
    <3>1. IsFiniteSet(Met)
        BY MetFinite
    <3>2. \A i, j \in I : i # j => bucket[i] \cap bucket[j] = {}
        BY <1>9
    <3> DEFINE whole == Met
    <3>3. IsFiniteSet(whole) /\ \A i \in I : bucket[i] \subseteq whole /\ total[i] = Cardinality(bucket[i])
        BY <2>1, <3>1
    <3> HIDE DEF whole
    <3> QED BY <2>2, <3>2, <3>3, SumOfParts
  <2>5. UNION {bucket[i] : i \in I} \in SUBSET Met
      BY <2>1
  <2>6. Cardinality(UNION {bucket[i] : i \in I}) <= Cardinality(Met)
      BY <2>5, MetFinite, FS_Subset
  <2> QED BY <2>3, <2>4, <2>6
<1>11. ASSUME NEW i \in I PROVE drawn[i].p95 <= 100 * M
  <2> DEFINE f == weighed(i)
             g == count(i)
             B == 100 * M
             a == SumFunction(f)
             n == SumFunction(g)
  <2>1. ASSUME NEW k \in minutes(i) PROVE f[k] \in Nat /\ g[k] \in Nat /\ f[k] <= B * g[k]
    <3>1. /\ k \in DOMAIN rollups /\ IsWindow(part[k]) /\ part[k] \subseteq Met
          /\ rollups[k].count = Cardinality(part[k]) /\ rollups[k].p95 = Pct(Latencies(part[k]), 95)
        BY <1>1, <1>5
    <3>2. rollups[k].p95 \in 0 .. B
        BY <3>1, WindowPct
    <3>3. rollups[k].count \in Nat
        BY <3>1, FS_CardinalityType DEF IsWindow
    <3>4. ASSUME NEW c \in Nat, NEW q \in 0 .. B PROVE c * q \in Nat /\ c * q <= B * c
        OBVIOUS
    <3>5. f[k] = rollups[k].count * rollups[k].p95 /\ g[k] = rollups[k].count
        OBVIOUS
    <3> HIDE DEF f, g, B
    <3> QED BY <3>2, <3>3, <3>4, <3>5
  <2>2. DOMAIN f = minutes(i) /\ DOMAIN g = minutes(i) /\ B \in Nat
      OBVIOUS
  <2> HIDE DEF f, g, B
  <2>3. a \in Nat /\ n \in Nat /\ a <= B * n
      BY <1>8, <2>1, <2>2, SumBound DEF SumFunction
  <2>4. drawn[i].p95 = a \div Max({1, n})
      BY <1>2 DEF f, g
  <2> HIDE DEF a, n
  <2>5. Max({1, n}) \in Nat \ {0} /\ n <= Max({1, n})
    <3>1. \E x \in {1, n} : \A y \in {1, n} : x >= y
        BY <2>3
    <3>2. Max({1, n}) \in {1, n} /\ \A y \in {1, n} : Max({1, n}) >= y
        BY <3>1 DEF Max
    <3> QED BY <2>3, <3>2
  <2>6. a <= B * Max({1, n})
    <3> DEFINE m == Max({1, n})
    <3>1. m \in Nat /\ n <= m
        BY <2>5
    <3> HIDE DEF m
    <3>2. B * n <= B * m /\ B * n \in Nat /\ B * m \in Nat
        BY <2>2, <2>3, <3>1
    <3>3. a <= B * m
        BY <2>3, <3>2
    <3> QED BY <3>3 DEF m
  <2>7. a \div Max({1, n}) <= B
      BY <2>2, <2>3, <2>5, <2>6, QuotientBound
  <2> QED BY <2>4, <2>7 DEF B
<1> QED BY <1>3, <1>10, <1>11 DEF drawn

LEMMA ChartsHold ==
    ASSUME AlertInv, RowsInv, EventsInv
    PROVE  ChartsAgree
<1> SUFFICES ASSUME NEW mod
             PROVE LET chart == ShownSeries(mod)
                       raw == BucketRaw(mod)
                       kpi == ShownKpi(mod)
                       Total(drawn) == SumFunction([i \in DOMAIN drawn |-> drawn[i].count])
                       asked == kpi.current.requests
                   IN  /\ Total(chart) <= Cardinality(Met)
                       /\ \A i \in DOMAIN chart :
                             chart[i].p95 <= 100 * Max({0} \cup {e.ms : e \in Met})
                       /\ Total(raw) = asked
                       /\ asked + kpi.previous.requests <= Cardinality(events)
                       /\ \A i \in DOMAIN raw :
                             0 < asked /\ raw[i].count = asked
                                 => raw[i].p95 = Percentiles(mod).overall
    BY DEF ChartsAgree, Met
<1> DEFINE now == FetchEvents(mod, ChartStart, clock)
           past == FetchEvents(mod, 2 * ChartStart - clock, ChartStart)
           raw == BucketRaw(mod)
           M == Max({0} \cup {e.ms : e \in Met})
           Total(drawn) == SumFunction([i \in DOMAIN drawn |-> drawn[i].count])
<1>1. M \in Nat /\ \A e \in Met : e.ms <= M
  <2> DEFINE ms == [e \in Met |-> e.ms]
             S == {0} \cup {ms[e] : e \in Met}
  <2>1. IsFiniteSet({ms[e] : e \in Met})
    <3> HIDE DEF ms
    <3> QED BY MetFinite, FiniteImage
  <2>2. IsFiniteSet(S) /\ S # {} /\ S \in SUBSET Nat
    <3>1. \A e \in Met : ms[e] \in Nat
        BY MetFinite
    <3>2. IsFiniteSet({0})
        BY FS_Singleton
    <3> HIDE DEF ms
    <3>3. IsFiniteSet(S)
        BY <2>1, <3>2, FS_Union
    <3> QED BY <3>1, <3>3
  <2>3. S = {0} \cup {e.ms : e \in Met}
      OBVIOUS
  <2> HIDE DEF S
  <2>4. Max(S) \in S /\ \A x \in S : x <= Max(S)
      BY <2>2, MaxIs
  <2> QED BY <2>2, <2>3, <2>4
<1> HIDE DEF M
<1>2. IsWindow(events) /\ IsFiniteSet(events) /\ events \subseteq Met /\ IsFiniteSet(Met)
    BY MetFinite DEF EventsInv, IsWindow, Met
<1>3. now \subseteq events /\ past \subseteq events
    BY DEF FetchEvents, Inside
<1>4. now \cap past = {}
  <2>1. ChartStart \in Int /\ \A e \in events : e.ts \in Int
      BY <1>2, OneBucket DEF IsWindow
  <2> QED BY <2>1 DEF FetchEvents, Inside
<1>5. IsFiniteSet(now) /\ IsFiniteSet(past) /\ Cardinality(now) \in Nat /\ Cardinality(past) \in Nat
      /\ Cardinality(now) + Cardinality(past) <= Cardinality(events)
      /\ Cardinality(now) <= Cardinality(Met)
  <2> HIDE DEF now, past
  <2>1. IsFiniteSet(now) /\ IsFiniteSet(past)
      BY <1>2, <1>3, FS_Subset
  <2>2. Cardinality(now) \in Nat /\ Cardinality(past) \in Nat
      BY <2>1, FS_CardinalityType
  <2>3. Cardinality(now \cup past) = Cardinality(now) + Cardinality(past) - Cardinality(now \cap past)
      BY <2>1, FS_Union
  <2>4. Cardinality(now \cap past) = 0
      BY <1>4, FS_EmptySet
  <2>5. now \cup past \in SUBSET events /\ now \in SUBSET Met
      BY <1>2, <1>3
  <2>6. Cardinality(now \cup past) <= Cardinality(events)
      BY <1>2, <2>5, FS_Subset
  <2>7. Cardinality(now) <= Cardinality(Met)
      BY <1>2, <2>5, FS_Subset
  <2> QED BY <2>1, <2>2, <2>3, <2>4, <2>6, <2>7
<1>6. /\ DOMAIN raw = 1 .. ChartBuckets /\ Total(raw) = Cardinality(now)
      /\ \A i \in DOMAIN raw :
            /\ \E F \in SUBSET now : raw[i] = [count |-> Cardinality(F), p95 |-> Pct(Latencies(F), 95)]
            /\ raw[i].count = Cardinality(now) => raw[i].p95 = Pct(Latencies(now), 95)
    BY RawChart
<1>7. ASSUME NEW i \in DOMAIN raw PROVE raw[i].p95 <= 100 * M
  <2>1. PICK F \in SUBSET now : raw[i] = [count |-> Cardinality(F), p95 |-> Pct(Latencies(F), 95)]
      BY <1>6, <1>7
  <2>2. IsWindow(F) /\ \A e \in F : e.ms <= M
      BY <1>1, <1>2, <1>3, PartOfWindow
  <2>3. Pct(Latencies(F), 95) \in 0 .. 100 * M
      BY <1>1, <2>2, WindowPct
  <2> HIDE DEF raw
  <2> QED BY <1>1, <2>1, <2>3
<1> DEFINE kpi == ShownKpi(mod)
           asked == kpi.current.requests
<1>8. asked = Cardinality(now) /\ (asked + kpi.previous.requests <= Cardinality(events))
  <2>1. CASE HasAnyEvents(mod)
    <3>1. kpi.current.requests = Cardinality(now) /\ kpi.previous.requests = Cardinality(past)
        BY <2>1 DEF ShownKpi, Kpi
    <3> QED BY <1>5, <3>1
  <2>2. CASE ~HasAnyEvents(mod)
    <3>1. now = {} /\ past = {}
        BY <2>2 DEF HasAnyEvents, FetchEvents, Inside
    <3>2. Cardinality(now) = 0 /\ Cardinality(past) = 0
        BY <3>1, FS_EmptySet
    <3>3. kpi.current.requests = 0 /\ kpi.previous.requests = 0
        BY <2>2 DEF ShownKpi, NoKpi
    <3> HIDE DEF now, past, kpi
    <3> QED BY <1>5, <3>2, <3>3
  <2> QED BY <2>1, <2>2
<1>9. Percentiles(mod).overall = Pct(Latencies(now), 95)
    BY DEF Percentiles
<1> DEFINE chart == ShownSeries(mod)
<1>10. Total(chart) <= Cardinality(Met) /\ \A i \in DOMAIN chart : chart[i].p95 <= 100 * M
  <2>1. CASE ~HasAnyEvents(mod)
    <3>1. chart = <<>>
        BY <2>1 DEF ShownSeries
    <3> DEFINE f == [i \in DOMAIN chart |-> chart[i].count]
    <3>2. DOMAIN f = {}
        BY <3>1
    <3>3. Total(chart) = 0
      <4> HIDE DEF f
      <4>1. SumFunction(f) = 0
          BY <3>2, SumUnfolds, FS_EmptySet DEF SumFunction
      <4> QED BY <4>1 DEF f
    <3>4. Cardinality(Met) \in Nat
        BY <1>2, FS_CardinalityType
    <3> QED BY <3>1, <3>3, <3>4
  <2>2. CASE HasAnyEvents(mod) /\ ChartRollups(mod) = {}
    <3>1. chart = raw
        BY <2>2 DEF ShownSeries, Series
    <3> HIDE DEF chart, raw, now
    <3> QED BY <1>5, <1>6, <1>7, <3>1
  <2>3. CASE HasAnyEvents(mod) /\ ChartRollups(mod) # {}
    <3>1. chart = BucketRollups(mod)
        BY <2>3 DEF ShownSeries, Series
    <3> HIDE DEF chart
    <3> QED BY <1>1, <3>1, RollupChart
  <2> QED BY <2>1, <2>2, <2>3
<1> HIDE DEF chart, raw, kpi, now, past
<1>11. Total(raw) = asked
    BY <1>6, <1>8
<1>12. \A i \in DOMAIN raw :
          0 < asked /\ raw[i].count = asked => raw[i].p95 = Percentiles(mod).overall
    BY <1>6, <1>8, <1>9
<1> QED BY <1>8, <1>10, <1>11, <1>12 DEF chart, raw, kpi, M

\* What the dashboard shows of a range is what was measured: no request counted twice by
\* the chart, no bucket slower than the slowest request, and the short chart the parts of
\* the headline, whatever passes overlap and whatever is purged (_bucket_rollups,
\* _bucket_raw, kpi_live).
THEOREM FiguresAlwaysFromOnePass == MonitorSpec => []FiguresFromOnePass
<1>1. MonitorInit => EventsInv
  <2> SUFFICES ASSUME MonitorInit PROVE EventsInv
      OBVIOUS
  <2>1. IsWindow({})
      BY FS_EmptySet DEF IsWindow
  <2>2. \A p \in Passes : DOMAIN pass[p].saw = {}
      BY DEF MonitorInit, Asleep
  <2> QED BY <2>1, <2>2, FS_EmptySet DEF MonitorInit, EventsInv
<1>2. AlertInv /\ RowsInv /\ EventsInv => ChartsAgree
    BY ChartsHold
<1> QED BY <1>1, <1>2, EventsInvStep, AlertInvInit, AlertInvStep, RowsInvInit, RowsInvStep,
           RowsAlwaysFromOnePass, PTL DEF MonitorSpec, FiguresFromOnePass
=============================================================================
