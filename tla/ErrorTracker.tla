---------------------------- MODULE ErrorTracker ----------------------------
(***************************************************************************)
(* The error counters and error events of lib/error-tracker.js.            *)
(* incrementError resets the counters when the date has changed, and so    *)
(* does a timer that is due at midnight but runs some time after it; both  *)
(* do all their work under errorMutex, so each is one step.  Each error    *)
(* counted is written to InfluxDB as an event too, by the batch writer     *)
(* (InfluxWrite), which counts an error with every size it fails with:     *)
(* while InfluxDB is down, error events breed error events.                *)
(***************************************************************************)
EXTENDS Naturals

CONSTANTS
    Types,      \* the pairs of apiType and serverName that occur
    WriteType,  \* the one of them that failed writes to InfluxDB are counted as
    Sizes,      \* the batch sizes an event is tried with
    MaxDay,     \* bound: days of a behaviour
    MaxErrors   \* bound: errors of one type on one day

ASSUME ErrorTrackerAssumption ==
    /\ WriteType \in Types
    /\ Sizes \in Nat \ {0}
    /\ MaxDay \in Nat
    /\ MaxErrors \in Nat

VARIABLES
    today,          \* the date, UTC
    errorCounts,
    lastResetDate,
    timerDate,      \* the day at whose end the timer is due
    eventsOn,       \* errorTracking.influxdb.enable, with InfluxDB in use
    up,             \* whether InfluxDB takes what is written
    pending,        \* the events being written, by the number of the size they are at
    errors,         \* history: the errors of each day
    early,          \* history: those of them counted before that day's timer ran
    summarised      \* history: the days whose final summary was logged

counterVars == <<errorCounts, lastResetDate, errors, early>>
vars == <<today, counterVars, timerDate, eventsOn, up, pending, summarised>>

Days == 0..MaxDay
None == [t \in Types |-> 0]

Init ==
    /\ today = 0
    /\ errorCounts = None
    /\ lastResetDate = 0
    /\ timerDate = 0
    /\ eventsOn \in BOOLEAN
    /\ up = TRUE
    /\ pending = [n \in 1..Sizes |-> 0]
    /\ errors = [d \in Days |-> None]
    /\ early = [d \in Days |-> None]
    /\ summarised = {}

\* Mutant: the new date is noted, the old counts are kept.
IncrementErrorNoReset(t, writing) ==
    /\ errors[today][t] < MaxErrors
    /\ errorCounts' = [errorCounts EXCEPT ![t] = @ + 1]
    /\ lastResetDate' = today
    /\ pending' = IF eventsOn THEN [writing EXCEPT ![1] = @ + 1] ELSE writing
    /\ errors' = [errors EXCEPT ![today][t] = @ + 1]
    /\ early' = IF timerDate < today THEN [early EXCEPT ![today][t] = @ + 1] ELSE early

\* incrementError, with the events that are being written besides: the first error of
\* a new date finds the counters emptied, and the error becomes an event to write.
IncrementError(t, writing) ==
    /\ errors[today][t] < MaxErrors
    /\ LET counts == IF lastResetDate = today THEN errorCounts ELSE None
       IN  errorCounts' = [counts EXCEPT ![t] = @ + 1]
    /\ lastResetDate' = today
    /\ pending' = IF eventsOn THEN [writing EXCEPT ![1] = @ + 1] ELSE writing
    /\ errors' = [errors EXCEPT ![today][t] = @ + 1]
    /\ early' = IF timerDate < today THEN [early EXCEPT ![today][t] = @ + 1] ELSE early

\* Something else of Butler SOS fails.
ErrorOccurs(t) ==
    /\ IncrementError(t, pending)
    /\ UNCHANGED <<today, timerDate, eventsOn, up, summarised>>

\* Mutant: an error is counted however the write ends.
EventStoredCounted(n) ==
    /\ pending[n] > 0
    /\ up
    /\ IncrementError(WriteType, [pending EXCEPT ![n] = @ - 1])
    /\ UNCHANGED <<today, timerDate, eventsOn, up, summarised>>

\* _writeErrorToInfluxDB: an event is stored ...
EventStored(n) ==
    /\ pending[n] > 0
    /\ up
    /\ pending' = [pending EXCEPT ![n] = @ - 1]
    /\ UNCHANGED <<today, counterVars, timerDate, eventsOn, up, summarised>>

\* ... or, all its retries being spent, counted as an error, and tried with the next
\* size.  Nothing hears of an event that has failed with the last.
EventFails(n) ==
    /\ pending[n] > 0
    /\ ~up
    /\ IncrementError(WriteType,
           [m \in 1..Sizes |-> IF m = n THEN pending[m] - 1
                               ELSE IF m = n + 1 THEN pending[m] + 1 ELSE pending[m]])
    /\ UNCHANGED <<today, timerDate, eventsOn, up, summarised>>

InfluxChanges ==
    /\ up' = ~up
    /\ UNCHANGED <<today, counterVars, timerDate, eventsOn, pending, summarised>>

\* Mutant: the summary is made after the reset and finds nothing.
MidnightResetFirst ==
    /\ timerDate < today
    /\ errorCounts' = None
    /\ lastResetDate' = today
    /\ timerDate' = today
    /\ UNCHANGED <<today, eventsOn, up, pending, errors, early, summarised>>

\* The timer callback: a summary if there is anything to summarise, a reset
\* whatever the date of the counters, and the next midnight.
MidnightReset ==
    /\ timerDate < today
    /\ summarised' = IF errorCounts # None THEN summarised \cup {lastResetDate}
                                           ELSE summarised
    /\ errorCounts' = None
    /\ lastResetDate' = today
    /\ timerDate' = today
    /\ UNCHANGED <<today, eventsOn, up, pending, errors, early>>

NewDay ==
    /\ today < MaxDay
    /\ today' = today + 1
    /\ UNCHANGED <<counterVars, timerDate, eventsOn, up, pending, summarised>>

Next ==
    \/ \E t \in Types : ErrorOccurs(t)
    \/ \E n \in 1..Sizes : EventStored(n) \/ EventFails(n)
    \/ InfluxChanges \/ MidnightReset \/ NewDay

\* A write to InfluxDB is answered or times out.
Spec ==
    /\ Init
    /\ [][Next]_vars
    /\ \A n \in 1..Sizes : WF_vars(EventStored(n))

-----------------------------------------------------------------------------
(* Properties.                                                             *)

\* The counters hold the errors of one single day, that of lastResetDate,
\* however increments and the timer interleave around midnight; all that is
\* missing, once the timer of that day has run, are the errors counted between
\* midnight and the timer.
CountsAreOfOneDay ==
    \A t \in Types :
        errorCounts[t] = errors[lastResetDate][t]
                         - (IF timerDate = lastResetDate THEN early[lastResetDate][t] ELSE 0)

\* "Log final daily summary before reset" (the timer callback): a day with
\* errors has had its summary when the timer has run after it, except where an
\* error was counted between the midnight and the timer and took the counters.
DaysSummarised ==
    \A d \in Days :
        d < timerDate /\ errors[d] # None =>
            d \in summarised \/ \E e \in (d + 1)..timerDate : early[e] # None

\* However many error events failed writes have bred, there is an end to them once
\* InfluxDB answers for good (and, as in every behaviour here, no more errors come).
ErrorsQuiesce == <>[]up => <>[](\A n \in 1..Sizes : pending[n] = 0)
=============================================================================
