---------------------------- MODULE MCDashboard ----------------------------
(***************************************************************************)
(* Deployments, the drift monitor over them, the viewers of an ingestion   *)
(* run and the exports of a trial: they share no rows here, so a behaviour *)
(* is one of one of the four.                                              *)
(***************************************************************************)
EXTENDS MCDeployments, Monitor, LogStream, TrialExport

CONSTANTS w1, w2, w3, w4, mlp, v1, v2, x1, x2, x3, g1, api1, api2

\* One deployment that ships windows, one that is paused, resumed and deleted, or two
\* of one model.
Four == {w1, w2, w3, w4}
AloneOrPair == {{w1}, {w4}, {w2, w3}}
Ships == {w1}
Changing == {w4}
SameModel == [d \in Four |-> mlp]
SlowOrFailed == {[ms |-> 100, ok |-> TRUE], [ms |-> 10, ok |-> FALSE]}
UsualOrOdd == {[mix |-> 50, mean |-> 0], [mix |-> 95, mean |-> 9]}

TwoViewers == {v1, v2}
OneOfEach == [v \in TwoViewers |-> IF v = v1 THEN "stream" ELSE "poll"]

ThreeExports == {x1, x2, x3}
OneDownload == {g1}
TwoApis == {api1, api2}
TwoAndOne == [x \in ThreeExports |-> IF x = x3 THEN api2 ELSE api1]

Interchangeable ==
    Permutations({r1, r2}) \cup Permutations({w2, w3}) \cup Permutations({x1, x2})

VARIABLE followed    \* which of the four a behaviour is one of

\* The others stay in one of their initial states.
DashInit ==
    /\ followed \in {"badge", "keys", "monitor", "stream", "export"}
    /\ Init /\ MonitorInit /\ StreamInit /\ ExportInit
    /\ followed \notin {"badge", "keys"} => ~flag
    /\ followed # "monitor" => DOMAIN rows = Ships
    /\ followed # "export" => backend = "local" /\ known = "model"

\* Two deployments and a key rotated once, or two rotations of the first's key.
OneRotates == \E r \in Rotations : rotate'[r] = "no"
OneDeployed == create'[d2] = "no"

\* Viewers only read, so each is followed by itself.
OneWatches == \E v \in Viewers : viewer'[v] = Away /\ shown'[v] = <<>>

\* The clock passes the cooldown for the one that ships windows; the one that
\* changes receives one event.
InBounds ==
    /\ w1 \in DOMAIN rows \/ clock' <= 2
    /\ w1 \in DOMAIN rows \/ w2 \in DOMAIN rows \/ arrivals' <= 1

DashNext ==
    /\ followed' = followed
    /\ \/ /\ followed = "badge" /\ Next /\ OneRotates
          /\ UNCHANGED <<monitorVars, streamVars, exportVars>>
       \/ /\ followed = "keys" /\ Next /\ OneDeployed
          /\ UNCHANGED <<monitorVars, streamVars, exportVars>>
       \/ /\ followed = "monitor" /\ MonitorNext /\ InBounds
          /\ UNCHANGED <<vars, streamVars, exportVars>>
       \/ /\ followed = "stream" /\ StreamNext /\ OneWatches
          /\ UNCHANGED <<vars, monitorVars, exportVars>>
       \/ /\ followed = "export" /\ ExportNext
          /\ UNCHANGED <<vars, monitorVars, streamVars>>

DashSpec == DashInit /\ [][DashNext]_<<vars, monitorVars, streamVars, exportVars, followed>>
=============================================================================
