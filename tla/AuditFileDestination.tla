------------------------ MODULE AuditFileDestination ------------------------
(***************************************************************************)
(* The buffer shared by the Parquet and QVD destinations of audit events   *)
(* (lib/audit-destinations/shared/base.js): events are buffered in memory  *)
(* and written in batches to files YYYYMMDD_partN, when the batch size is  *)
(* reached or when the interval timer fires.  A batch that cannot be       *)
(* written goes back to the front of the buffer.                           *)
(*                                                                         *)
(* An event is the number of its arrival, a day is a number and a file     *)
(* name is a pair of a day and a part.  An action is what runs between two *)
(* awaits: requestFlush and flushBuffer run without a break up to the      *)
(* await of writeRows.  An empty `rows' with flushQueued set is a          *)
(* flushBuffer that has returned to a requestFlush not yet resumed.        *)
(***************************************************************************)
EXTENDS Naturals, Sequences, FiniteSets, SequencesExt

CONSTANTS
    MaxBatchSize,   \* destination.<type>.metadata.maxBatchSize
    WriteFrequency, \* destination.<type>.metadata.writeFrequency, 0 for no timer
    MaxArrivals,    \* bound: events that arrive
    MaxFailures,    \* bound: writes that fail
    MaxDay,         \* bound: the last day
    MaxCrashes      \* bound: restarts of the process

ASSUME DestinationAssumption ==
    /\ MaxBatchSize \in Nat \ {0}
    /\ WriteFrequency \in Nat
    /\ MaxArrivals \in Nat
    /\ MaxFailures \in Nat
    /\ MaxDay \in Nat
    /\ MaxCrashes \in Nat

VARIABLES
    buffer,         \* rows waiting to be written
    timerOn,        \* flushTimer # null
    flushQueued,    \* a requestFlush is in its loop
    flushPending,   \* another flush was asked for meanwhile
    rows,           \* rowsToWrite while writeRows is awaited
    file,           \* the name chosen for them
    files,          \* the export directory: file name to rows; none if unfinished
    day,            \* today (UTC)
    arrivals,       \* events that have arrived
    accepted,       \* history: rows accepted and not lost by a restart
    stored,         \* history: rows written, in the order they were
    failures, crashes

vars == <<buffer, timerOn, flushQueued, flushPending, rows, file, files, day,
          arrivals, accepted, stored, failures, crashes>>

Row == 1..MaxArrivals
FileName == (0..MaxDay) \X (Nat \ {0})
NoFile == <<>>

Init ==
    /\ buffer = <<>>
    /\ timerOn = FALSE
    /\ flushQueued = FALSE
    /\ flushPending = FALSE
    /\ rows = <<>>
    /\ file = NoFile
    /\ files = [n \in {} |-> <<>>]
    /\ day = 0
    /\ arrivals = 0
    /\ accepted = <<>>
    /\ stored = <<>>
    /\ failures = 0
    /\ crashes = 0

-----------------------------------------------------------------------------
(* Flushing *)

\* Mutant: the directory is not looked at.
FirstFreeUnchecked == <<day, 1>>

\* The first part of today's that is not in the directory.
FirstFree ==
    <<day, CHOOSE p \in 1..(Cardinality(DOMAIN files) + 1) :
               /\ <<day, p>> \notin DOMAIN files
               /\ \A q \in 1..(p - 1) : <<day, q>> \in DOMAIN files>>

\* flushBuffer up to its await, at the head of requestFlush's loop.
StartFlush(b) ==
    /\ flushQueued' = TRUE
    /\ flushPending' = FALSE
    /\ rows' = b
    /\ file' = FirstFree
    /\ buffer' = <<>>

\* requestFlush with b as the buffer.
RequestFlush(b) ==
    \/ /\ b = <<>>
       /\ buffer' = b
       /\ UNCHANGED <<flushQueued, flushPending, rows, file>>
    \/ /\ b # <<>>
       /\ flushQueued
       /\ flushPending' = TRUE
       /\ buffer' = b
       /\ UNCHANGED <<flushQueued, rows, file>>
    \/ /\ b # <<>>
       /\ ~flushQueued
       /\ StartFlush(b)

BufferEvent ==
    /\ arrivals < MaxArrivals
    /\ arrivals' = arrivals + 1
    /\ accepted' = Append(accepted, arrivals + 1)
    /\ timerOn' = (WriteFrequency > 0)
    /\ LET b == Append(buffer, arrivals + 1)
       IN \/ /\ Len(b) >= MaxBatchSize
             /\ RequestFlush(b)
          \/ /\ Len(b) < MaxBatchSize
             /\ buffer' = b
             /\ UNCHANGED <<flushQueued, flushPending, rows, file>>
    /\ UNCHANGED <<files, day, stored, failures, crashes>>

Interval ==
    /\ timerOn
    /\ RequestFlush(buffer)
    /\ UNCHANGED <<timerOn, files, day, arrivals, accepted, stored, failures, crashes>>

\* Mutant: an export replaces the directory instead of adding to it.
WithFileOnly(content) == [n \in {file} |-> content]

\* The directory once the file being written holds content.
WithFile(content) ==
    [n \in DOMAIN files \cup {file} |-> IF n = file THEN content ELSE files[n]]

WriteSucceeds ==
    /\ rows # <<>>
    /\ files' = WithFile(rows)
    /\ stored' = stored \o rows
    /\ rows' = <<>>
    /\ file' = NoFile
    /\ UNCHANGED <<buffer, timerOn, flushQueued, flushPending, day, arrivals, accepted,
                   failures, crashes>>

\* What a write that does not come to its end leaves behind.
Unfinished == files' \in {files, WithFile(<<>>)}

\* Mutant: the failed rows go behind the newer ones.
PutBackBehind == buffer' = buffer \o rows

PutBack == buffer' = rows \o buffer

WriteFails ==
    /\ rows # <<>>
    /\ failures < MaxFailures
    /\ failures' = failures + 1
    /\ Unfinished
    /\ PutBack
    /\ rows' = <<>>
    /\ file' = NoFile
    /\ UNCHANGED <<timerOn, flushQueued, flushPending, day, arrivals, accepted, stored, crashes>>

\* Mutant: no finally, so a failed flush never gives flushQueued back.
LoopOrLeaveNoFinally ==
    /\ flushQueued
    /\ rows = <<>>
    /\ failures = 0
    /\ \/ flushPending /\ buffer # <<>> /\ StartFlush(buffer)
       \/ /\ ~flushPending \/ buffer = <<>>
          /\ flushQueued' = FALSE
          /\ UNCHANGED <<flushPending, rows, file, buffer>>
    /\ UNCHANGED <<timerOn, files, day, arrivals, accepted, stored, failures, crashes>>

\* requestFlush resumes after flushBuffer.
LoopOrLeave ==
    /\ flushQueued
    /\ rows = <<>>
    /\ \/ /\ flushPending
          /\ buffer # <<>>
          /\ StartFlush(buffer)
       \/ /\ ~flushPending \/ buffer = <<>>
          /\ flushQueued' = FALSE
          /\ UNCHANGED <<flushPending, rows, file, buffer>>
    /\ UNCHANGED <<timerOn, files, day, arrivals, accepted, stored, failures, crashes>>

-----------------------------------------------------------------------------
(* Around it *)

Midnight ==
    /\ day < MaxDay
    /\ day' = day + 1
    /\ UNCHANGED <<buffer, timerOn, flushQueued, flushPending, rows, file, files, arrivals,
                   accepted, stored, failures, crashes>>

\* The process ends, at any point, and is started again on the same directory.
Restart ==
    /\ crashes < MaxCrashes
    /\ crashes' = crashes + 1
    /\ \/ UNCHANGED files
       \/ rows # <<>> /\ files' = WithFile(<<>>)
    /\ accepted' = stored
    /\ buffer' = <<>>
    /\ timerOn' = FALSE
    /\ flushQueued' = FALSE
    /\ flushPending' = FALSE
    /\ rows' = <<>>
    /\ file' = NoFile
    /\ UNCHANGED <<day, arrivals, stored, failures>>

Next ==
    \/ BufferEvent
    \/ Interval
    \/ WriteSucceeds
    \/ WriteFails
    \/ LoopOrLeave
    \/ Midnight
    \/ Restart

Spec == Init /\ [][Next]_vars

\* writeRows settles, promises resume, and setInterval goes on firing.
FairSpec ==
    /\ Spec
    /\ WF_vars(WriteSucceeds \/ WriteFails)
    /\ WF_vars(LoopOrLeave)
    /\ WF_vars(Interval)

-----------------------------------------------------------------------------
(* Properties *)

\* Types; an awaited write is of a flush that is queued and has a file.
TypeOK ==
    /\ buffer \in Seq(Row)
    /\ timerOn \in BOOLEAN
    /\ flushQueued \in BOOLEAN
    /\ flushPending \in BOOLEAN
    /\ rows \in Seq(Row)
    /\ file \in FileName \cup {NoFile}
    /\ rows # <<>> <=> file # NoFile
    /\ rows # <<>> => flushQueued
    /\ files \in [DOMAIN files -> Seq(Row)] /\ DOMAIN files \subseteq FileName
    /\ day \in 0..MaxDay
    /\ arrivals \in 0..MaxArrivals
    /\ accepted \in Seq(Row)
    /\ stored \in Seq(Row)
    /\ failures \in 0..MaxFailures
    /\ crashes \in 0..MaxCrashes

\* Through failures, coalesced flushes and arrivals during a write, no row is
\* lost, written twice or overtaken by a later one: flushBuffer takes the whole
\* buffer and a failure puts its rows back in front of what came since.
Lossless == accepted = stored \o rows \o buffer

\* The files that were finished, read in the order of their names.
Before(m, n) == m[1] < n[1] \/ (m[1] = n[1] /\ m[2] < n[2])

Position(names, n) == Cardinality({m \in names : Before(m, n)}) + 1

InOrder(names) ==
    [i \in 1..Cardinality(names) |-> CHOOSE n \in names : Position(names, n) = i]

Contents ==
    LET order == InOrder(DOMAIN files)
    IN  FlattenSeq([i \in 1..Cardinality(DOMAIN files) |-> files[order[i]]])

\* The directory, read by file name, is what was written: no file is overwritten,
\* over midnights, unfinished files and restarts, and names follow arrivals.
FilesHoldTheLog == Contents = stored

\* A file once there is never touched again.
FilesAreFinal == [][\A n \in DOMAIN files : n \in DOMAIN files' /\ files'[n] = files[n]]_vars

\* With the timer, whatever is accepted is stored in the end (or lost by a restart),
\* a failed write included: no request to flush is dropped for good.
EverythingStored == accepted # stored ~> accepted = stored

\* The promise of the docs for writeFrequency 0, at the latest when writes have ended:
\* an event does not stay in the buffer while nothing is under way.
WrittenPerEvent ==
    buffer # <<>> ~> buffer = <<>>

Log == INSTANCE AppendOnlyLog

\* The destination implements the append-only log.
ImplementsLog == Log!Spec

=============================================================================
