---------------------------- MODULE EventCounts ----------------------------
(***************************************************************************)
(* The event counters of lib/udp-event.js and the interval timer that      *)
(* stores them in InfluxDB and then clears them: setupUdpEventsStorage,    *)
(* storeEventCount and storeRejectedEventCount of V1, V2 and V3.           *)
(*                                                                         *)
(* A counter is abstracted to the set of events it has counted.  The       *)
(* getters return the live array itself, so a firing that holds it sees    *)
(* what is counted later, until a clear replaces the array by a new one:   *)
(* the old one then lives on detached, in the hands of the firing.  The    *)
(* timer does not wait for a callback that is still at an await: every     *)
(* element of Firings is one callback under way.                           *)
(***************************************************************************)
EXTENDS Naturals, FiniteSets

CONSTANTS
    LogEvents, UserEvents, RejectedEvents,  \* what arrives, by kind
    Firings,    \* the callbacks of the timer
    Configs     \* the settings to run with, see Config

\* A setting: influxdbConfig.version, qlikSenseEvents.eventCount.enable and
\* .rejectedEventCount.enable, and as bounds the callbacks under way at once and
\* the events there are.
Config == [version: 1..3, eventCount: BOOLEAN, rejectedCount: BOOLEAN,
           atOnce: Nat, events: Nat]

Kind == {"log", "user", "rejected"}

EventsOf == [k \in Kind |-> CASE k = "log"  -> LogEvents
                              [] k = "user" -> UserEvents
                              [] OTHER      -> RejectedEvents]

Events == LogEvents \cup UserEvents \cup RejectedEvents

ASSUME EventCountsAssumption ==
    /\ IsFiniteSet(Firings)
    /\ \A j, k \in Kind : j # k => EventsOf[j] \cap EventsOf[k] = {}
    /\ Configs \subseteq Config

VARIABLES
    config,     \* the setting of this run of the program
    unseen,     \* the events that have not been counted yet
    live,       \* the events in the counters' current arrays
    at,         \* where each firing has got to
    holds,      \* the kinds whose live array the firing has been given
    detached,   \* the events in arrays it holds that were replaced since
    points,     \* the events in the points it is writing
    reported,   \* events in points that some write has stored, once or more
    written,    \* history: events in the points of writes that have ended
    rewritten,  \* history: events in the points of two of them
    missed,     \* history: events that were in a write that failed, since kept
    during      \* history, for v1: events counted while some firing was under way

vars == <<config, unseen, live, at, holds, detached, points, reported, written, rewritten,
          missed, during>>

Idle == {f \in Firings : at[f] = "idle"}

Init ==
    /\ config \in Configs
    /\ unseen = Events
    /\ live = {}
    /\ at = [f \in Firings |-> "idle"]
    /\ holds = [f \in Firings |-> {}]
    /\ detached = [f \in Firings |-> {}]
    /\ points = [f \in Firings |-> {}]
    /\ reported = {}
    /\ written = {}
    /\ rewritten = {}
    /\ missed = {}
    /\ during = {}

-----------------------------------------------------------------------------
(* Counting, under the mutex of the counter; a handler counts only when the *)
(* counters of its kind exist.                                              *)

Count(e) ==
    /\ e \in unseen
    /\ Cardinality(Events \ unseen) < config.events
    /\ unseen' = unseen \ {e}
    /\ live' = live \cup {e}
    /\ during' = IF Idle = Firings \/ config.version # 1 THEN during ELSE during \cup {e}
    /\ UNCHANGED <<config, at, holds, detached, points, reported, written, rewritten, missed>>

AddLogEvent(e)         == e \in LogEvents /\ config.eventCount /\ Count(e)
AddUserEvent(e)        == e \in UserEvents /\ config.eventCount /\ Count(e)
AddRejectedLogEvent(e) == e \in RejectedEvents /\ config.rejectedCount /\ Count(e)

(* A firing, step by step.  storeEventCount runs over the log and user      *)
(* counters, storeRejectedEventCount over the rejected ones.                *)

Goto(f, l) == at' = [at EXCEPT ![f] = l]

\* What the firing finds in the arrays it has been given.
Held(f) == detached[f] \cup {e \in live : \E k \in holds[f] : e \in EventsOf[k]}

Hold(f, k) == holds' = [holds EXCEPT ![f] = @ \cup {k}]

\* The timer exists only with rejectedEventCount enabled.  Without eventCount
\* there are no log and user counters, and reading them throws: v2 catches the
\* error and goes on to the rejected events, in v1 and v3 it ends the callback
\* before anything is done, which is no step at all.
Fire(f) ==
    /\ config.rejectedCount
    /\ at[f] = "idle"
    /\ Cardinality(Firings \ Idle) < config.atOnce
    /\ \/ config.eventCount /\ Goto(f, "getUser") /\ Hold(f, "log")
       \/ ~config.eventCount /\ config.version = 2 /\ Goto(f, "getRejected") /\ UNCHANGED holds
    /\ UNCHANGED <<config, unseen, live, detached, points, reported, written,
                   rewritten, missed, during>>

GetUserEvents(f) ==
    /\ at[f] = "getUser"
    /\ Goto(f, "buildCounts")
    /\ Hold(f, "user")
    /\ UNCHANGED <<config, unseen, live, detached, points, reported, written,
                   rewritten, missed, during>>

GetRejectedLogEvents(f) ==
    /\ at[f] = "getRejected"
    /\ Goto(f, "buildRejected")
    /\ Hold(f, "rejected")
    /\ UNCHANGED <<config, unseen, live, detached, points, reported, written,
                   rewritten, missed, during>>

\* The firing takes what is in the arrays by now and lets go of them.
TakePoints(f, S) ==
    /\ points' = [points EXCEPT ![f] = S]
    /\ holds' = [holds EXCEPT ![f] = {}]
    /\ detached' = [detached EXCEPT ![f] = {}]
    /\ UNCHANGED <<config, unseen, live, reported, written,
                   rewritten, missed, during>>

\* Mutant: nothing is written unless there are both log and user events.
BuildCountsOfBoth(f) ==
    /\ at[f] = "buildCounts"
    /\ TakePoints(f, Held(f))
    /\ Goto(f, IF Held(f) \cap LogEvents = {} \/ Held(f) \cap UserEvents = {}
               THEN "getRejected" ELSE "writeCounts")

\* Points are built from the log and user arrays; none, no write.
BuildCounts(f) ==
    /\ at[f] = "buildCounts"
    /\ TakePoints(f, Held(f))
    /\ Goto(f, IF Held(f) = {} THEN "getRejected" ELSE "writeCounts")

BuildRejected(f) ==
    /\ at[f] = "buildRejected"
    /\ TakePoints(f, Held(f))
    /\ Goto(f, IF Held(f) = {} THEN "clearRejected" ELSE "writeRejected")

\* A write is a whole call of the batch writer (InfluxWrite), which tries again
\* after time-outs and in smaller batches.  When it ends it has stored the points of
\* S, each once or several times; with no time stamp each time is a point more.
EndWrite(f, S) ==
    /\ at[f] \in {"writeCounts", "writeRejected"}
    /\ reported' = reported \cup S
    /\ written' = written \cup points[f]
    /\ rewritten' = rewritten \cup (written \cap points[f])
    /\ missed' = (missed \cup points[f]) \ (reported \cup S)
    /\ points' = [points EXCEPT ![f] = {}]
    /\ UNCHANGED <<config, unseen, live, holds, detached, during>>

AfterWrite(l) == IF l = "writeCounts" THEN "getRejected" ELSE "clearRejected"

WriteSucceeds(f) == EndWrite(f, points[f]) /\ Goto(f, AfterWrite(at[f]))

\* The write fails, with any part of the points stored.
Fails(f) == \E S \in SUBSET points[f] : EndWrite(f, S)

\* Mutant: v1 carries on after a failed write too.
WriteFailsV1Quietly(f) == config.version = 1 /\ Fails(f) /\ Goto(f, AfterWrite(at[f]))

\* v1 throws, which ends the callback: nothing more is stored or cleared.
WriteFailsV1(f) == config.version = 1 /\ Fails(f) /\ Goto(f, "idle")

\* v2 and v3 log the error and carry on as if the write had succeeded.
WriteFailsV2V3(f) == config.version # 1 /\ Fails(f) /\ Goto(f, AfterWrite(at[f]))

\* A clear puts a new array in place; whoever holds the old one keeps it.
Clear(k) ==
    /\ live' = live \ EventsOf[k]
    /\ holds' = [g \in Firings |-> holds[g] \ {k}]
    /\ detached' = [g \in Firings |->
                       IF k \in holds[g] THEN detached[g] \cup (live \cap EventsOf[k])
                                         ELSE detached[g]]
    /\ UNCHANGED <<config, unseen, points, reported, written,
                   rewritten, missed, during>>

\* Mutant: the clear is left to the log and user counters' own.
ClearRejectedEventsNot(f) ==
    /\ at[f] = "clearRejected"
    /\ Goto(f, IF config.eventCount THEN "clearLog" ELSE "idle")
    /\ UNCHANGED <<config, unseen, live, holds, detached, points, reported, written,
                   rewritten, missed, during>>

ClearRejectedEvents(f) ==
    /\ at[f] = "clearRejected"
    /\ Goto(f, IF config.eventCount THEN "clearLog" ELSE "idle")
    /\ Clear("rejected")

ClearLogEvents(f) ==
    /\ at[f] = "clearLog"
    /\ Goto(f, "clearUser")
    /\ Clear("log")

\* Mutant: the user events are never cleared.
ClearUserEventsNot(f) ==
    /\ at[f] = "clearUser"
    /\ Goto(f, "idle")
    /\ UNCHANGED <<config, unseen, live, holds, detached, points, reported, written,
                   rewritten, missed, during>>

ClearUserEvents(f) ==
    /\ at[f] = "clearUser"
    /\ Goto(f, "idle")
    /\ Clear("user")

Resume(f) ==
    \/ GetUserEvents(f) \/ GetRejectedLogEvents(f) \/ BuildCounts(f) \/ BuildRejected(f)
    \/ WriteSucceeds(f) \/ WriteFailsV1(f) \/ WriteFailsV2V3(f)
    \/ ClearRejectedEvents(f) \/ ClearLogEvents(f) \/ ClearUserEvents(f)

Next ==
    \/ \E e \in Events : AddLogEvent(e) \/ AddUserEvent(e) \/ AddRejectedLogEvent(e)
    \/ \E f \in Firings : Fire(f) \/ Resume(f)

Spec == Init /\ [][Next]_vars

(* The interval keeps firing, the event loop resumes what is suspended, and  *)
(* InfluxDB is not down for ever: writes that keep being tried succeed.      *)
FairSpec ==
    /\ Spec
    /\ \A f \in Firings : /\ WF_vars(Fire(f))
                          /\ WF_vars(Resume(f))
                          /\ SF_vars(at[f] = "writeCounts" /\ WriteSucceeds(f))
                          /\ SF_vars(at[f] = "writeRejected" /\ WriteSucceeds(f))

-----------------------------------------------------------------------------
(* Properties.                                                             *)

ReachesRejected == {c \in Configs : c.rejectedCount /\ (c.eventCount \/ c.version = 2)}

Cleared == Events \ (unseen \cup live)

\* Where failed writes end the callback (v1), an event that was counted while
\* no firing was under way is never cleared without being in a point, however
\* firings overlap and writes fail.
IdleCountsSurvive == config.version = 1 => Cleared \ during \subseteq reported

\* ... and it is in a point in the end.
IdleCountsReported ==
    \A e \in Events :
        config.version = 1 /\ e \in live \ during ~> e \in reported

\* Where a failed write does not end the callback (v2, v3), and one callback
\* runs at a time, no event is in the points of two writes, although the arrays are
\* live when read, cleared one after the other and later, and writes may fail half
\* way.  (Within one write the batch writer may store a point several times; how
\* often is InfluxWrite's subject, see DuplicatesBounded.)
WrittenOnce == config.version # 1 /\ config.atOnce = 1 => rewritten = {}

\* The timer gets to every rejected event: it does not stay in the counter for
\* ever, although callbacks overlap and end early, even (in v2) where they all
\* fail for want of log and user counters.
RejectedLeaves ==
    \A e \in RejectedEvents :
        config \in ReachesRejected /\ e \in live ~> e \notin live

\* "Clears event counters after they've been stored" (udp-event.js): what a
\* failed write left unstored is still counted.
FailedWriteKeepsCounts == missed \cap Cleared = {}
=============================================================================
