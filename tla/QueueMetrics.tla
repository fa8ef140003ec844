---------------------------- MODULE QueueMetrics ----------------------------
(***************************************************************************)
(* The timer that stores queue metrics in InfluxDB and then clears them    *)
(* (setupUdpQueueMetricsStorage, prepareQueueMetricData and                *)
(* storeQueueMetricsV1/V2/V3), over the queue whose metrics it reads.      *)
(* setInterval does not wait for a callback that is still running, so a    *)
(* firing is a process of its own: getMetrics, the write, clearMetrics.    *)
(***************************************************************************)
EXTENDS UdpQueue

CONSTANTS
    Firings,        \* the firings of the interval timer in a behaviour
    MaxOverlap      \* bound: firings whose write is under way at once

ASSUME QueueMetricsAssumption ==
    /\ IsFiniteSet(Firings)
    /\ MaxOverlap \in Nat \ {0}

VARIABLES
    firing,     \* where each firing has got to
    snapshot,   \* the counters getMetrics returned to it
    stored      \* sum of the interval counters of the points in InfluxDB

mvars == <<vars, firing, snapshot, stored>>

UnderWay == {f \in Firings : firing[f] \in {"writing", "written"}}

MInit ==
    /\ Init
    /\ firing = [f \in Firings |-> "unfired"]
    /\ snapshot = [f \in Firings |-> Zero]
    /\ stored = Zero

\* Mutant: the queued counter is replaced by what the queue holds at the moment.
GetMetricsRecounted(f) ==
    /\ firing[f] = "unfired"
    /\ Cardinality(UnderWay) < MaxOverlap
    /\ firing' = [firing EXCEPT ![f] = "writing"]
    /\ snapshot' = [snapshot EXCEPT ![f] =
                       [metrics EXCEPT !["queued"] = Cardinality(In(Slot \cup {"waiting"}))]]
    /\ UNCHANGED <<vars, stored>>

\* The timer fires: prepareQueueMetricData reads all counters in one section.
GetMetrics(f) ==
    /\ firing[f] = "unfired"
    /\ Cardinality(UnderWay) < MaxOverlap
    /\ firing' = [firing EXCEPT ![f] = "writing"]
    /\ snapshot' = [snapshot EXCEPT ![f] = metrics]
    /\ UNCHANGED <<vars, stored>>

Store(f) == stored' = [c \in Counter |-> stored[c] + snapshot[f][c]]

\* writeBatchToInflux resolves: the point is stored.
WriteSucceeds(f) ==
    /\ firing[f] = "writing"
    /\ firing' = [firing EXCEPT ![f] = "written"]
    /\ stored' = [c \in Counter |-> stored[c] + snapshot[f][c]]
    /\ UNCHANGED <<vars, snapshot>>

\* writeBatchToInflux rejects: the counters are kept for the next firing.
WriteFails(f) ==
    /\ firing[f] = "writing"
    /\ firing' = [firing EXCEPT ![f] = "done"]
    /\ UNCHANGED <<vars, snapshot, stored>>

\* Only then are the counters cleared, whatever was counted during the write.
ClearAfterWrite(f) ==
    /\ firing[f] = "written"
    /\ firing' = [firing EXCEPT ![f] = "done"]
    /\ ClearMetrics
    /\ UNCHANGED <<snapshot, stored>>

FiringStep(f) ==
    \/ GetMetrics(f) \/ WriteSucceeds(f) \/ WriteFails(f) \/ ClearAfterWrite(f)

MNext ==
    \/ QueueNext /\ UNCHANGED <<firing, snapshot, stored>>
    \/ \E f \in Firings : FiringStep(f)

MSpec == MInit /\ [][MNext]_mvars

-----------------------------------------------------------------------------

\* Whatever a write stores is a consistent cut of the queue: the counters of
\* every point, hence of their sums, add up, even though messages are counted
\* between the read and the write.
PointsAddUp ==
    /\ stored["received"] = stored["queued"] + stored["dropped"]
    /\ stored["dropped"] = stored["dropSize"] + stored["dropRate"] + stored["dropFull"]
=============================================================================
