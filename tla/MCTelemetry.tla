---------------------------- MODULE MCTelemetry ----------------------------
(* Model-checking instance of Telemetry.                                    *)
EXTENDS Telemetry, TLC

CONSTANTS s1, s2, h1, h2

OneSender == {s1}
TwoSenders == {s1, s2}
TwoHandlers == {h1, h2}
OneHandler == {h1}
Ahead == {1}
Symmetry == Permutations(Senders) \cup Permutations(Handlers)

\* Threads at work at the same time flush one segment; of two segments, one thread at
\* a time is in the middle of a flush.
OneSegmentOrOneThread ==
    recorded <= 1 \/ \E s \in Senders : hand[s] = {} /\ todo[s] = {} /\ at[s] = Nobody
=============================================================================
