------------------------- MODULE AuditInfluxBuffer -------------------------
(***************************************************************************)
(* The InfluxDB destination of audit events                                *)
(* (lib/audit-destinations/influxdb/buffer.js): the processing of an event *)
(* ends by buffering a point, and a flush of that buffer is a job of the   *)
(* queue the events themselves come through.                               *)
(*                                                                         *)
(* How a flush splits what it writes is the matter of InfluxWrite: here it *)
(* stores everything, or fails with any part of it stored.                 *)
(***************************************************************************)
EXTENDS AuditJobs

CONSTANTS
    MaxBatchSize,   \* destination.influxdb.metadata.maxBatchSize
    MaxFailures     \* bound: flushes that fail

ASSUME AuditInfluxBufferAssumption ==
    /\ MaxBatchSize \in Nat \ {0}
    /\ MaxFailures \in Nat

VARIABLES
    buffer,         \* auditInfluxBuffer
    timerOn,        \* flushTimer # null
    flushQueued,
    points,         \* pointsToWrite of each flush
    inInflux,       \* how many flushes have stored each event
    retried,        \* history: the events put back by a flush that failed
    failures,       \* flushes that failed
    refused,        \* history: a flush was refused by a full queue
    passedOver      \* history, for writeFrequency 0 without a queue: the events that came
                    \* while a flush was under way

bufferVars == <<buffer, timerOn, flushQueued, points, inInflux, retried, failures, refused,
                passedOver>>

BufferInit ==
    /\ buffer = <<>>
    /\ timerOn = FALSE
    /\ flushQueued = FALSE
    /\ points = [f \in Flushes |-> <<>>]
    /\ inInflux = [e \in Requests |-> 0]
    /\ retried = {}
    /\ failures = 0
    /\ refused = FALSE
    /\ passedOver = {}

-----------------------------------------------------------------------------

IdleFlushes == {f \in Flushes : stage[f] = "idle"}

\* requestFlush, when the caller has moved the stages to st.  Without a queue the
\* flush runs at once, and flushQueued stays set until all of it is written.
RequestFlush(st) ==
    IF flushQueued
    THEN stage' = st /\ UNCHANGED flushQueued
    ELSE /\ IdleFlushes # {}
         /\ stage' = [st EXCEPT ![CHOOSE f \in IdleFlushes : TRUE] =
                         IF settings.manager THEN "adding" ELSE "running"]
         /\ flushQueued' = TRUE

\* bufferAuditInfluxEvent, at the end of an event's processing.  With a writeFrequency
\* of 0 there is no timer, and a flush per event.
BufferEvent(e, st) ==
    /\ buffer' = Append(buffer, e)
    /\ timerOn' = ~settings.perEvent
    /\ IF Len(buffer') >= MaxBatchSize \/ settings.perEvent
       THEN RequestFlush(st)
       ELSE stage' = st /\ UNCHANGED flushQueued
    /\ passedOver' = IF flushQueued /\ settings.perEvent /\ ~settings.manager
                     THEN passedOver \cup {e} ELSE passedOver
    /\ UNCHANGED <<points, inInflux, retried, failures, refused>>

\* The timer fires.
Interval ==
    /\ timerOn
    /\ RequestFlush(stage)
    /\ UNCHANGED <<queue, buffer, timerOn, points, inInflux, retried, failures, refused,
                   passedOver>>

\* Mutant: flushQueued is reset only by a job that has run.
AddFlushNotReset(f) ==
    /\ stage[f] = "adding"
    /\ IF Full THEN Moves(f, "idle") /\ UNCHANGED queue ELSE Enqueued(f)
    /\ refused' = (refused \/ Full)
    /\ UNCHANGED <<buffer, timerOn, flushQueued, points, inInflux, retried, failures, passedOver>>

\* addToQueue(run).catch(...).finally(...), in one step: flushQueued is reset when the
\* job has been added or refused, not when it has run.  A refusal is silent.
AddFlush(f) ==
    /\ stage[f] = "adding"
    /\ IF Full THEN Moves(f, "idle") /\ UNCHANGED queue ELSE Enqueued(f)
    /\ refused' = (refused \/ Full)
    /\ flushQueued' = FALSE
    /\ UNCHANGED <<buffer, timerOn, points, inInflux, retried, failures, passedOver>>

\* Mutant: the points are copied out of the buffer and stay there.
FlushNowCopy(f) ==
    /\ stage[f] = "running"
    /\ buffer # <<>>
    /\ points' = [points EXCEPT ![f] = buffer]
    /\ Moves(f, "writing")
    /\ UNCHANGED <<queue, buffer, timerOn, flushQueued, inInflux, retried, failures, refused,
                   passedOver>>

\* flushNow takes the whole buffer...
FlushNow(f) ==
    /\ stage[f] = "running"
    /\ buffer # <<>>
    /\ points' = [points EXCEPT ![f] = buffer]
    /\ buffer' = <<>>
    /\ Moves(f, "writing")
    /\ UNCHANGED <<queue, timerOn, flushQueued, inInflux, retried, failures, refused, passedOver>>

\* The job has run: the finally of run resets flushQueued, whoever has set it.
EndFlush(f) ==
    /\ Ended(f, "idle")
    /\ points' = [points EXCEPT ![f] = <<>>]
    /\ flushQueued' = FALSE
    /\ UNCHANGED <<timerOn, refused, passedOver>>

\* ... or finds it empty.
NothingToFlush(f) ==
    /\ stage[f] = "running"
    /\ buffer = <<>>
    /\ EndFlush(f)
    /\ UNCHANGED <<buffer, inInflux, retried, failures>>

Store(S) == inInflux' = [e \in Requests |-> IF e \in S THEN inInflux[e] + 1 ELSE inInflux[e]]

WriteSucceeds(f) ==
    /\ stage[f] = "writing"
    /\ Store(ToSet(points[f]))
    /\ EndFlush(f)
    /\ UNCHANGED <<buffer, retried, failures>>

\* What a flush that gives up has stored: it tried smaller and smaller chunks, and each
\* was written or not.
StoresSome(f) == \E S \in SUBSET ToSet(points[f]) : Store(S)

\* The points go back to the buffer, in front, those that were stored included.
WriteFails(f) ==
    /\ stage[f] = "writing"
    /\ failures < MaxFailures
    /\ failures' = failures + 1
    /\ StoresSome(f)
    /\ buffer' = points[f] \o buffer
    /\ retried' = retried \cup ToSet(points[f])
    /\ EndFlush(f)

FlushStep(f) ==
    AddFlush(f) \/ FlushNow(f) \/ NothingToFlush(f) \/ WriteSucceeds(f) \/ WriteFails(f)

-----------------------------------------------------------------------------

\* How often an event is in memory: in the buffer and in the hands of flushes.
Copies(e) == Cardinality({i \in DOMAIN buffer : buffer[i] = e})
             + Cardinality({w \in UNION {{f} \X DOMAIN points[f] : f \in Flushes} :
                                points[w[1]][w[2]] = e})

\* An event that has been processed is in memory once or in InfluxDB, however
\* flushes overlap and fail; in both only after a failed flush.
AtLeastOnce ==
    "influxdb" \in settings.destinations =>
        \A e \in Requests :
            stage[e] \in {"handled", "done"} =>
                /\ Copies(e) + inInflux[e] > 0
                /\ Copies(e) <= 1
                /\ e \notin retried => Copies(e) + inInflux[e] = 1
=============================================================================
