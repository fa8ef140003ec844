------------------------------ MODULE UdpQueue ------------------------------
(***************************************************************************)
(* UdpQueueManager (lib/udp-queue-manager.js) together with the 'message'  *)
(* callbacks of the two UDP servers that feed it and the p-queue that runs *)
(* its jobs.                                                               *)
(*                                                                         *)
(* Node runs one callback at a time and switches only at an await, so an   *)
(* action is the code between two awaits.  Every section under             *)
(* metricsMutex is free of awaits, so the mutex is never seen held from    *)
(* outside: waiting for it is a stage of the message, the section itself a *)
(* single step.                                                            *)
(***************************************************************************)
EXTENDS Integers, Sequences, FiniteSets

CONSTANTS
    Messages,               \* the datagrams of a behaviour
    MaxSize,                \* messageQueue.maxSize
    MaxConcurrent,          \* messageQueue.maxConcurrent
    BackpressureThreshold,  \* messageQueue.backpressureThreshold, a percentage
    RateLimitEnabled,       \* rateLimit.enable
    MaxMessagesPerMinute,   \* rateLimit.maxMessagesPerMinute
    Window,                 \* 60000 ms in ticks
    BufferSize,             \* capacity of the processing time buffer (1000)
    MaxInFlight,            \* bound: 'message' callbacks suspended at an await
    MaxClock                \* bound: ticks of the clock

ASSUME UdpQueueAssumption ==
    /\ IsFiniteSet(Messages)
    /\ MaxSize \in Nat \ {0}
    /\ MaxConcurrent \in Nat \ {0}
    /\ BackpressureThreshold \in Nat
    /\ RateLimitEnabled \in BOOLEAN
    /\ MaxMessagesPerMinute \in Nat
    /\ Window \in Nat \ {0}
    /\ BufferSize \in Nat \ {0}
    /\ MaxInFlight \in Nat \ {0}
    /\ MaxClock \in Nat

VARIABLES
    stage,          \* where each message's callback or job has got to
    queue,          \* p-queue: jobs waiting for a slot, oldest first
    metrics,        \* this.metrics
    samples,        \* number of values in this.processingTimeBuffer
    backpressureActive,
    limiter,        \* this.rateLimiter
    dropLog,        \* droppedSinceLastLog and lastDropLog
    now,            \* Date.now(), in ticks
    cleared,        \* history: what clearMetrics has thrown away so far
    logged          \* history: drops announced by logDroppedMessages so far

vars == <<stage, queue, metrics, samples, backpressureActive, limiter,
          dropLog, now, cleared, logged>>

RL == INSTANCE RateLimiter

-----------------------------------------------------------------------------
(* The stages of a message.                                                *)

InFlight == {"oversize", "limited", "arrived", "admitted"} \* in the callback
Slot     == {"running", "ok", "ko", "okCounted", "koCounted"}  \* pending jobs
Dropped  == {"dropSize", "dropRate", "dropFull"}
Finished == {"processed", "failed"}
Stage    == {"unsent", "rejected", "waiting"}
            \cup InFlight \cup Slot \cup Dropped \cup Finished

In(S) == {m \in Messages : stage[m] \in S}

Counter == {"received", "queued", "processed", "failed",
            "dropped", "dropSize", "dropRate", "dropFull"}

\* The stages of a message that a counter has already counted.
CountedStages(c) ==
    CASE c = "received"  -> {"admitted", "waiting"} \cup Slot \cup Dropped \cup Finished
      [] c = "queued"    -> {"admitted", "waiting"} \cup Slot \cup Finished
      [] c = "processed" -> {"okCounted", "processed"}
      [] c = "failed"    -> {"koCounted", "failed"}
      [] c = "dropped"   -> Dropped
      [] OTHER           -> {c}

Counted(c) == In(CountedStages(c))

Zero == [c \in Counter |-> 0]

\* Adds one to each counter of cs.
Bump(cs) == [c \in Counter |-> IF c \in cs THEN metrics[c] + 1 ELSE metrics[c]]

-----------------------------------------------------------------------------
Init ==
    /\ stage = [m \in Messages |-> "unsent"]
    /\ queue = <<>>
    /\ metrics = Zero
    /\ samples = 0
    /\ backpressureActive = FALSE
    /\ limiter = RL!NewLimiter(0)
    /\ dropLog = [since |-> 0, last |-> 0]
    /\ now = 0
    /\ cleared = Zero
    /\ logged = 0

Goto(m, s) == stage' = [stage EXCEPT ![m] = s]

\* Mutant: the line that resets the count leaves out the drop that wrote it.
CountAndLogDropShort ==
    IF now - dropLog.last > Window
    THEN /\ dropLog' = [since |-> 0, last |-> now]
         /\ logged' = logged + dropLog.since
    ELSE /\ dropLog' = [dropLog EXCEPT !.since = @ + 1]
         /\ UNCHANGED logged

\* droppedSinceLastLog++ followed by logDroppedMessages().
CountAndLogDrop ==
    IF now - dropLog.last > Window
    THEN /\ dropLog' = [since |-> 0, last |-> now]
         /\ logged' = logged + dropLog.since + 1
    ELSE /\ dropLog' = [dropLog EXCEPT !.since = @ + 1]
         /\ UNCHANGED logged

(* The 'message' callback up to its first await: source address, size, rate. *)

Receive(m) ==
    /\ stage[m] = "unsent"
    /\ Cardinality(In(InFlight)) < MaxInFlight
    /\ UNCHANGED <<queue, metrics, samples, backpressureActive, dropLog, now,
                   cleared, logged>>

\* isIpAllowed says no: nothing but the throttled log line.
RejectSource(m) ==
    /\ Receive(m)
    /\ Goto(m, "rejected")
    /\ UNCHANGED limiter

\* validateMessageSize fails before the rate limiter is consulted.
ReceiveOversize(m) ==
    /\ Receive(m)
    /\ Goto(m, "oversize")
    /\ UNCHANGED limiter

\* checkRateLimit: the verdict and its side effect on the window.
ReceiveInSize(m) ==
    /\ Receive(m)
    /\ IF RateLimitEnabled
       THEN /\ limiter' = RL!AfterCheck(limiter, now)
            /\ Goto(m, IF RL!Allows(limiter, now) THEN "arrived" ELSE "limited")
       ELSE /\ Goto(m, "arrived")
            /\ UNCHANGED limiter

(* The metrics sections of the three ways to drop a message. *)

HandleSizeDrop(m) ==
    /\ stage[m] = "oversize"
    /\ Goto(m, "dropSize")
    /\ metrics' = Bump({"received", "dropped", "dropSize"})
    /\ CountAndLogDrop
    /\ UNCHANGED <<queue, samples, backpressureActive, limiter, now, cleared>>

HandleRateLimitDrop(m) ==
    /\ stage[m] = "limited"
    /\ Goto(m, "dropRate")
    /\ metrics' = Bump({"received", "dropped", "dropRate"})
    /\ CountAndLogDrop
    /\ UNCHANGED <<queue, samples, backpressureActive, limiter, now, cleared>>

\* Mutant: refuses one message too early.
RefuseFullEarly(m) ==
    /\ stage[m] = "arrived"
    /\ Len(queue) >= MaxSize - 1
    /\ Goto(m, "dropFull")
    /\ metrics' = Bump({"received", "dropped", "dropFull"})
    /\ CountAndLogDrop
    /\ UNCHANGED <<queue, samples, backpressureActive, limiter, now, cleared>>

\* addToQueue on a full queue: counted, reported and refused in the section.
RefuseFull(m) ==
    /\ stage[m] = "arrived"
    /\ Len(queue) >= MaxSize
    /\ Goto(m, "dropFull")
    /\ metrics' = Bump({"received", "dropped", "dropFull"})
    /\ CountAndLogDrop
    /\ UNCHANGED <<queue, samples, backpressureActive, limiter, now, cleared>>

\* checkBackpressure(size): on at the threshold, off below 80% of it.
BelowClearLevel(size) == 500 * size < 4 * BackpressureThreshold * MaxSize

\* Mutant: the warning needs more than the threshold.
BackpressureAfterAbove(size) ==
    \/ ~backpressureActive /\ 100 * size > BackpressureThreshold * MaxSize
    \/ backpressureActive /\ ~BelowClearLevel(size)

BackpressureAfter(size) ==
    \/ ~backpressureActive /\ 100 * size >= BackpressureThreshold * MaxSize
    \/ backpressureActive /\ ~BelowClearLevel(size)

\* Mutant: the size limit is off by one.
AdmitOneMore(m) ==
    /\ stage[m] = "arrived"
    /\ Len(queue) <= MaxSize
    /\ Goto(m, "admitted")
    /\ metrics' = Bump({"received", "queued"})
    /\ backpressureActive' = BackpressureAfter(Len(queue))
    /\ UNCHANGED <<queue, samples, limiter, dropLog, now, cleared, logged>>

\* addToQueue below the limit: the message is counted as queued and the size
\* read in the section is checked for backpressure before the next await.
Admit(m) ==
    /\ stage[m] = "arrived"
    /\ Len(queue) < MaxSize
    /\ Goto(m, "admitted")
    /\ metrics' = Bump({"received", "queued"})
    /\ backpressureActive' = BackpressureAfter(Len(queue))
    /\ UNCHANGED <<queue, samples, limiter, dropLog, now, cleared, logged>>

\* this.queue.add(job): p-queue starts the job at once when a slot is free.
Enqueue(m) ==
    /\ stage[m] = "admitted"
    /\ IF Cardinality(In(Slot)) < MaxConcurrent
       THEN /\ Goto(m, "running")
            /\ UNCHANGED queue
       ELSE /\ Goto(m, "waiting")
            /\ queue' = Append(queue, m)
    /\ UNCHANGED <<metrics, samples, backpressureActive, limiter, dropLog, now,
                   cleared, logged>>

(* The job: processFunction settles, its outcome is counted, the slot freed. *)

ProcessingSettles(m) ==
    /\ stage[m] = "running"
    /\ \/ Goto(m, "ok")
       \/ Goto(m, "ko")
    /\ UNCHANGED <<queue, metrics, samples, backpressureActive, limiter,
                   dropLog, now, cleared, logged>>

CountProcessed(m) ==
    /\ stage[m] = "ok"
    /\ Goto(m, "okCounted")
    /\ metrics' = Bump({"processed"})
    /\ samples' = IF samples < BufferSize THEN samples + 1 ELSE samples
    /\ UNCHANGED <<queue, backpressureActive, limiter, dropLog, now, cleared, logged>>

\* Mutant: a failed job leaves the failed counter alone.
CountFailedNot(m) ==
    /\ stage[m] = "ko"
    /\ Goto(m, "koCounted")
    /\ UNCHANGED <<queue, metrics, samples, backpressureActive, limiter,
                   dropLog, now, cleared, logged>>

CountFailed(m) ==
    /\ stage[m] = "ko"
    /\ Goto(m, "koCounted")
    /\ metrics' = Bump({"failed"})
    /\ UNCHANGED <<queue, samples, backpressureActive, limiter, dropLog, now,
                   cleared, logged>>

\* Mutant: a freed slot starts no waiting job.
FreeSlotIdle(m) ==
    /\ stage[m] \in {"okCounted", "koCounted"}
    /\ Goto(m, IF stage[m] = "okCounted" THEN "processed" ELSE "failed")
    /\ UNCHANGED <<queue, metrics, samples, backpressureActive, limiter,
                   dropLog, now, cleared, logged>>

\* p-queue sees the job settle: it frees the slot and starts the oldest
\* waiting job in the same turn.
FreeSlot(m) ==
    /\ stage[m] \in {"okCounted", "koCounted"}
    /\ LET final == IF stage[m] = "okCounted" THEN "processed" ELSE "failed"
       IN  IF queue = <<>>
           THEN /\ Goto(m, final)
                /\ UNCHANGED queue
           ELSE /\ stage' = [stage EXCEPT ![m] = final, ![Head(queue)] = "running"]
                /\ queue' = Tail(queue)
    /\ UNCHANGED <<metrics, samples, backpressureActive, limiter, dropLog, now,
                   cleared, logged>>

Tick ==
    /\ now < MaxClock
    /\ now' = now + 1
    /\ UNCHANGED <<stage, queue, metrics, samples, backpressureActive, limiter,
                   dropLog, cleared, logged>>

\* clearMetrics(), called by whoever stores the metrics.
ClearMetrics ==
    /\ metrics' = Zero
    /\ samples' = 0
    /\ cleared' = [c \in Counter |-> cleared[c] + metrics[c]]
    /\ UNCHANGED <<stage, queue, backpressureActive, limiter, dropLog, now, logged>>

MessageStep(m) ==
    \/ RejectSource(m) \/ ReceiveOversize(m) \/ ReceiveInSize(m)
    \/ HandleSizeDrop(m) \/ HandleRateLimitDrop(m)
    \/ RefuseFull(m) \/ Admit(m) \/ Enqueue(m)
    \/ ProcessingSettles(m) \/ CountProcessed(m) \/ CountFailed(m) \/ FreeSlot(m)

QueueNext == (\E m \in Messages : MessageStep(m)) \/ Tick

Next == QueueNext \/ ClearMetrics

Spec == Init /\ [][Next]_vars

(* A suspended callback or job is resumed by the event loop, and a           *)
(* processFunction is assumed to settle; datagrams need not arrive.  Clears   *)
(* are left out: they touch the counters only.                                *)
Resume(m) ==
    \/ HandleSizeDrop(m) \/ HandleRateLimitDrop(m)
    \/ RefuseFull(m) \/ Admit(m) \/ Enqueue(m)
    \/ ProcessingSettles(m) \/ CountProcessed(m) \/ CountFailed(m) \/ FreeSlot(m)

FairSpec == Init /\ [][QueueNext]_vars /\ \A m \in Messages : WF_vars(Resume(m))

-----------------------------------------------------------------------------
(* Properties.                                                             *)

\* Types of the variables; the clock and the history stay within their bounds.
TypeOK ==
    /\ stage \in [Messages -> Stage]
    /\ queue \in Seq(Messages)
    /\ metrics \in [Counter -> Nat]
    /\ samples \in 0..BufferSize
    /\ backpressureActive \in BOOLEAN
    /\ limiter \in RL!Limiter
    /\ dropLog \in [since: Nat, last: Nat]
    /\ now \in Nat
    /\ cleared \in [Counter -> Nat]
    /\ logged \in Nat

\* Every counter, with what clearMetrics has reset so far, is exactly the
\* number of messages that went through the step it counts: no await between
\* the sections of addToQueue, of a job and of clearMetrics loses or repeats one.
CountsExact ==
    \A c \in Counter : metrics[c] + cleared[c] = Cardinality(Counted(c))

\* The waiting jobs are exactly the messages in stage "waiting", each once.
QueueMatchesStages ==
    /\ {queue[i] : i \in DOMAIN queue} = In({"waiting"})
    /\ Len(queue) = Cardinality(In({"waiting"}))

\* The size check and the add to p-queue are separated by an await, so callers
\* already past the check can overfill the queue, by one less than the number
\* of callbacks in flight and no more.
QueueBounded ==
    Len(queue) + Cardinality(In({"admitted"})) <= MaxSize + MaxInFlight - 1

\* p-queue never runs more than maxConcurrent jobs, and no job waits while a
\* slot is free.
SlotsUsedWell ==
    /\ Cardinality(In(Slot)) <= MaxConcurrent
    /\ queue # <<>> => Cardinality(In(Slot)) = MaxConcurrent

\* The capacity of the queue is neither overdrawn nor left unused.
CapacityRespected == QueueBounded /\ SlotsUsedWell

\* Drops are announced exactly once: those in the log so far and those waiting
\* for the next line are all the drops there were.
DropsAnnounced == logged + dropLog.since = Cardinality(In(Dropped))

\* A message is refused for lack of room only while every slot is busy and
\* MaxSize others wait: no capacity is idle when a message is lost.
RefusedOnlyWhenBusy ==
    [][\A m \in Messages :
          stage[m] # "dropFull" /\ stage'[m] = "dropFull" =>
             /\ Cardinality(In(Slot)) = MaxConcurrent
             /\ Cardinality(In({"waiting"})) >= MaxSize]_vars

\* Operators are warned before messages are lost: a message is refused for
\* lack of room only while backpressure has been signalled.
WarnedBeforeRefusing ==
    [][\A m \in Messages :
          stage[m] # "dropFull" /\ stage'[m] = "dropFull" => backpressureActive]_vars

\* "Backpressure clears when waiting queue depth drops below 80% of that
\* threshold" (docs/audit.qs/AUDIT_EVENTS_INFLUXDB_DATA_MODEL.md).
BackpressureClears ==
    LET drained == {n \in 0..MaxSize : BelowClearLevel(n)}
    IN  backpressureActive /\ Len(queue) \in drained
            ~> ~backpressureActive \/ Len(queue) \notin drained

-----------------------------------------------------------------------------
(* The promise the queue keeps: from the outside only the fate of a message *)
(* is seen, decided in the section that counts it and final when its slot   *)
(* is free again.                                                           *)

FateOf(s) ==
    CASE s \in {"rejected", "dropSize", "dropRate"}  -> "discarded"
      [] s = "dropFull"                              -> "refused"
      [] s \in {"admitted", "waiting"} \cup Slot     -> "accepted"
      [] s \in Finished                              -> "finished"
      [] OTHER                                       -> "new"

Intake == INSTANCE BoundedIntake WITH
    Room  <- MaxSize + MaxConcurrent,
    Slack <- MaxInFlight - 1,
    fate  <- [m \in Messages |-> FateOf(stage[m])]

\* UdpQueueManager implements the bounded intake: it refuses only with MaxSize
\* messages waiting and every slot busy, holds at most MaxInFlight - 1 more
\* than that, and finishes what it accepts.
ImplementsIntake == Intake!IntakeSpec
=============================================================================
