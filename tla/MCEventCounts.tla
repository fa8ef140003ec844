--------------------------- MODULE MCEventCounts ---------------------------
(* The settings of the runs of EventCounts. *)
EXTENDS EventCounts

Setting(v, ec, n, m) ==
    [version |-> v, eventCount |-> ec, rejectedCount |-> TRUE, atOnce |-> n, events |-> m]

\* v1 with callbacks that overlap, the others one callback at a time, and v2
\* also without log and user counters.
Settings == {Setting(1, TRUE, 2, 2), Setting(2, TRUE, 1, 3),
             Setting(3, TRUE, 1, 3), Setting(2, FALSE, 2, 2)}

OnlyV3 == {Setting(3, TRUE, 1, 1)}
=============================================================================
