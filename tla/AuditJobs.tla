------------------------------ MODULE AuditJobs ------------------------------
(***************************************************************************)
(* The audit events that are posted, the settings they are posted under,   *)
(* and the queue that works on them: the queue manager of UdpQueue,        *)
(* reduced to the size of its queue and its slots.  The flushes of the     *)
(* InfluxDB buffer (AuditInfluxBuffer) are jobs of the same queue.         *)
(***************************************************************************)
EXTENDS Naturals, FiniteSets, SequencesExt

CONSTANTS
    Requests,       \* the audit events that are posted
    Flushes,        \* bound: flush jobs there are at once
    SettingsSet     \* the settings Butler SOS may be started with

ASSUME AuditJobsAssumption ==
    /\ IsFiniteSet(Requests)
    /\ Requests \cap Flushes = {}
    /\ \A st \in SettingsSet :
          DOMAIN st.events \subseteq Requests /\ st.targets \in Nat /\ st.maxEntries \in Nat

VARIABLES
    settings,   \* the configuration file, and what is posted under it
    stage,      \* where each event and each flush has got to
    queue       \* p-queue: the jobs waiting for a slot

Jobs == Requests \cup Flushes
Busy == {j \in Jobs : stage[j] \in {"running", "handled", "writing"}}   \* the slots taken

JobsInit ==
    /\ settings \in SettingsSet
    /\ stage = [j \in Jobs |-> IF j \in Requests THEN "new" ELSE "idle"]
    /\ queue = <<>>

Moves(j, to) == stage' = [stage EXCEPT ![j] = to]

\* addToQueue looks at the size of the queue: a job is let in, or ends up as out.
Full == Len(queue) >= settings.maxSize
Admitted(j, out) ==
    /\ Moves(j, IF Full THEN out ELSE "admitted")
    /\ UNCHANGED queue

\* A job that was let in goes to a free slot, or to the queue.
Enqueued(j) ==
    /\ IF Cardinality(Busy) < settings.maxConcurrent
       THEN Moves(j, "running") /\ UNCHANGED queue
       ELSE Moves(j, "waiting") /\ queue' = Append(queue, j)

\* Mutant: the slot stays free while jobs wait.
EndedIdle(j, out) == Moves(j, out) /\ UNCHANGED queue

\* The job ends as out, and its slot goes to the one that has waited longest.
Ended(j, out) ==
    IF settings.manager /\ queue # <<>>
    THEN /\ stage' = [stage EXCEPT ![j] = out, ![Head(queue)] = "running"]
         /\ queue' = Tail(queue)
    ELSE Moves(j, out) /\ UNCHANGED queue
=============================================================================
