---------------------------- MODULE InfluxWrite ----------------------------
(***************************************************************************)
(* One call of writeBatchToInflux (V1, V2 and V3 alike, in                 *)
(* lib/influxdb/shared/utils.js) with the retries of                       *)
(* writeToInfluxWithRetry, against an InfluxDB that may time out with or   *)
(* without having stored the points, reject a batch in part, and never     *)
(* accepts some of the points.                                             *)
(***************************************************************************)
EXTENDS Integers, Sequences, FiniteSets

CONSTANTS
    Points,         \* number of points handed to the call
    MaxBatchSize,   \* influxdbConfig.maxBatchSize
    Steps,          \* the smaller sizes to try: <<500, 250, 100, 10, 1>>
    MaxRetries      \* retries of one chunk after a timeout (3)

ASSUME InfluxWriteAssumption ==
    /\ Points \in Nat \ {0}
    /\ MaxBatchSize \in Nat \ {0}
    /\ Steps \in Seq(Nat \ {0}) /\ Steps # <<>> /\ Steps[Len(Steps)] = 1
    /\ MaxRetries \in Nat

VARIABLES
    reliable,   \* whether InfluxDB fails only over points it never accepts
    poison,     \* those points
    pass,       \* place in Sizes of the batch size being tried
    chunk,      \* index of the chunk being written
    attempt,    \* failed attempts at this chunk
    failed,     \* chunks of this pass that could not be written
    at,         \* where the call has got to
    stored,     \* how often each point has been stored
    errors      \* calls of errorTracker.incrementError

vars == <<reliable, poison, pass, chunk, attempt, failed, at, stored, errors>>

Point == 1..Points

Sizes == <<MaxBatchSize>> \o Steps

\* Mutant: the smallest size is left out of the sizes to try.
ProgressiveSizesWithoutOne ==
    {i \in DOMAIN Sizes \ {Len(Sizes)} : Sizes[i] <= MaxBatchSize}

\* progressiveSizes, as the places of its members in Sizes: they are tried in order.
ProgressiveSizes == {i \in DOMAIN Sizes : Sizes[i] <= MaxBatchSize}

LastSize == Sizes[CHOOSE i \in ProgressiveSizes : \A j \in ProgressiveSizes : j <= i]
Size == Sizes[pass]

\* The next smaller size: pass moves on to its place.
NextPass ==
    /\ pass' \in ProgressiveSizes
    /\ pass < pass'
    /\ \A j \in ProgressiveSizes : j <= pass \/ pass' <= j

\* chunkArray
Chunks(size) == 1..((Points + size - 1) \div size)
ChunkOf(size, i) == {p \in Point : (i - 1) * size < p /\ p <= i * size}

Chunk == ChunkOf(Size, chunk)

Init ==
    /\ reliable \in BOOLEAN
    /\ poison \in SUBSET Point
    /\ pass = 1
    /\ chunk = 1
    /\ attempt = 0
    /\ failed = {}
    /\ at = "writing"
    /\ stored = [p \in Point |-> 0]
    /\ errors = 0

Store(S) == stored' = [p \in Point |-> IF p \in S THEN stored[p] + 1 ELSE stored[p]]

\* Mutant: only the last chunk of a pass decides whether it succeeded.
EndPassByLastChunk(failures) ==
    /\ chunk = Cardinality(Chunks(Size))
    /\ CASE chunk \notin failures -> at' = "returned" /\ UNCHANGED <<pass, chunk, failed>>
         [] chunk \in failures /\ Size = LastSize -> at' = "threw" /\ UNCHANGED <<pass, chunk, failed>>
         [] OTHER -> at' = "writing" /\ NextPass /\ chunk' = 1 /\ failed' = {}

\* Mutant: smaller sizes are tried even after a pass without failures.
EndPassRegardless(failures) ==
    /\ chunk = Cardinality(Chunks(Size))
    /\ CASE Size = LastSize -> at' = "returned" /\ UNCHANGED <<pass, chunk, failed>>
         [] OTHER -> at' = "writing" /\ NextPass /\ chunk' = 1 /\ failed' = {}

\* The last chunk of a pass is settled: done, out of sizes, or once more with
\* everything in smaller chunks, whatever this pass has stored.
EndPass(failures) ==
    /\ chunk = Cardinality(Chunks(Size))
    /\ CASE failures = {} -> at' = "returned" /\ UNCHANGED <<pass, chunk, failed>>
         [] failures # {} /\ Size = LastSize -> at' = "threw" /\ UNCHANGED <<pass, chunk, failed>>
         [] OTHER -> at' = "writing" /\ NextPass /\ chunk' = 1 /\ failed' = {}

NextChunk(failures) ==
    /\ chunk < Cardinality(Chunks(Size))
    /\ chunk' = chunk + 1
    /\ failed' = failures
    /\ at' = "writing"
    /\ UNCHANGED pass

\* writeToInfluxWithRetry is through with a chunk.
Settle(failures) ==
    /\ attempt' = 0
    /\ NextChunk(failures) \/ EndPass(failures)

WriteSucceeds ==
    /\ at = "writing"
    /\ Chunk \cap poison = {}
    /\ Store(Chunk)
    /\ Settle(failed)
    /\ UNCHANGED <<reliable, poison, errors>>

\* Mutant: a retry does not count as an attempt.
WriteTimesOutUncounted ==
    /\ at = "writing" /\ ~reliable
    /\ Store({}) \/ Store(Chunk \ poison)
    /\ at' = "backoff"
    /\ UNCHANGED <<reliable, poison, pass, chunk, failed, attempt, errors>>

\* A timeout or a network error, which is retried; the server may have stored
\* what it accepts by then.
WriteTimesOut ==
    /\ at = "writing" /\ ~reliable
    /\ Store({}) \/ Store(Chunk \ poison)
    /\ IF attempt < MaxRetries
       THEN /\ at' = "backoff"
            /\ attempt' = attempt + 1
            /\ UNCHANGED <<pass, chunk, failed, errors>>
       ELSE /\ errors' = errors + 1
            /\ Settle(failed \cup {chunk})
    /\ UNCHANGED <<reliable, poison>>

\* Any other error is not retried; a rejected batch may be stored in part.
WriteRejected ==
    /\ at = "writing"
    /\ reliable => Chunk \cap poison # {}
    /\ \E S \in SUBSET (Chunk \ poison) : Store(S)
    /\ errors' = errors + 1
    /\ Settle(failed \cup {chunk})
    /\ UNCHANGED <<reliable, poison>>

\* The backoff delay is over.
Retry ==
    /\ at = "backoff"
    /\ at' = "writing"
    /\ UNCHANGED <<reliable, poison, pass, chunk, attempt, failed, stored, errors>>

Next == WriteSucceeds \/ WriteTimesOut \/ WriteRejected \/ Retry

Spec == Init /\ [][Next]_vars

\* Every write settles in the end, one way or the other.
FairSpec == Spec /\ WF_vars(Next)

-----------------------------------------------------------------------------
(* Properties.                                                             *)

Ended == at \in {"returned", "threw"}

\* A call that returns has stored every point: the caller may forget them.
ReturnedMeansStored == at = "returned" => \A p \in Point : stored[p] > 0

\* Points InfluxDB never accepts do not take others with them: if they are all
\* that is wrong, every other point is stored by the time the call ends, and
\* the call throws exactly when there are such points.
PoisonIsolated ==
    reliable /\ Ended => /\ \A p \in Point \ poison : stored[p] > 0
                         /\ at = "threw" <=> poison # {}

\* If InfluxDB fails only over points it never accepts, a point is stored once per
\* batch size at most, and once only when there are no such points; every
\* further time is a duplicate in InfluxDB, since the points carry no timestamp of
\* their own.  (With time-outs, whose attempts may have been stored, there are
\* more: each chunk is tried MaxRetries times again.)
DuplicatesBounded ==
    reliable => \A p \in Point : stored[p] <= IF poison = {} THEN 1 ELSE Cardinality(ProgressiveSizes)

\* The call ends, however InfluxDB behaves.
Ends == <>(at \in {"returned", "threw"})
=============================================================================
