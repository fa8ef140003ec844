--------------------- MODULE AuditFileDestinationProofs ---------------------
(***************************************************************************)
(* Proofs about AuditFileDestination for any batch size, number of events, *)
(* failures and restarts: no row is lost, repeated or reordered, and the   *)
(* destination implements AppendOnlyLog; a file is never written again,    *)
(* and the directory read by name is the log of what was written.          *)
(***************************************************************************)
EXTENDS AuditFileDestination, SequenceTheorems, FiniteSetTheorems, WellFoundedInduction, TLAPS

-----------------------------------------------------------------------------
(* The inductive invariant *)

SeqTypes ==
    /\ buffer \in Seq(Row)
    /\ rows \in Seq(Row)
    /\ accepted \in Seq(Row)
    /\ stored \in Seq(Row)
    /\ arrivals \in 0..MaxArrivals

\* rows are in flight only inside requestFlush's loop.
WriteInLoop == rows # <<>> => flushQueued

IInv == SeqTypes /\ WriteInLoop /\ Lossless

\* ConcatAssociative for sequences of rows.
LEMMA Regroup ==
    \A s, t, u \in Seq(Row) : (s \o t) \o u = s \o (t \o u)
<1>. SUFFICES ASSUME NEW s \in Seq(Row), NEW t \in Seq(Row), NEW u \in Seq(Row)
              PROVE  (s \o t) \o u = s \o (t \o u)
    OBVIOUS
<1>. QED  BY ConcatAssociative

\* A request to flush b leaves the rows in flight and b, together, as they were.
LEMMA RequestFlushKeepsRows ==
    ASSUME SeqTypes, WriteInLoop, NEW b \in Seq(Row), RequestFlush(b)
    PROVE  /\ buffer' \in Seq(Row)
           /\ rows' \in Seq(Row)
           /\ WriteInLoop'
           /\ rows' \o buffer' = rows \o b
<1>1. CASE buffer' = b /\ UNCHANGED <<flushQueued, rows>>
    BY <1>1 DEF SeqTypes, WriteInLoop
<1>2. CASE ~flushQueued /\ StartFlush(b)
    <2>1. rows = <<>>
        BY <1>2 DEF WriteInLoop
    <2>2. rows' = b /\ buffer' = <<>> /\ flushQueued' = TRUE
        BY <1>2 DEF StartFlush
    <2>3. <<>> \in Seq(Row)
        BY EmptySeq
    <2>4. b \o <<>> = b /\ <<>> \o b = b
        BY ConcatEmptySeq
    <2>. QED  BY <2>1, <2>2, <2>3, <2>4 DEF WriteInLoop
<1>. QED  BY <1>1, <1>2 DEF RequestFlush

LEMMA InitIInv == Init => IInv
<1>. SUFFICES ASSUME Init PROVE IInv
    OBVIOUS
<1>1. SeqTypes /\ WriteInLoop
    BY DestinationAssumption, EmptySeq DEF Init, SeqTypes, WriteInLoop, DestinationAssumption
<1>2. Lossless
    <2>1. <<>> \in Seq(Row)
        BY EmptySeq
    <2>2. <<>> \o <<>> = <<>>
        BY <2>1, ConcatEmptySeq
    <2>. QED  BY <2>2 DEF Init, Lossless
<1>. QED  BY <1>1, <1>2 DEF IInv

-----------------------------------------------------------------------------
(* Every step preserves it *)

LEMMA BufferEventIInv == IInv /\ BufferEvent => IInv'
<1>. SUFFICES ASSUME IInv, BufferEvent PROVE IInv'
    OBVIOUS
<1>. DEFINE e == arrivals + 1
            b == Append(buffer, e)
<1>1. e \in Row /\ arrivals' \in 0..MaxArrivals
    BY DestinationAssumption DEF IInv, SeqTypes, BufferEvent, Row, DestinationAssumption
<1>2. b \in Seq(Row) /\ b = buffer \o <<e>> /\ <<e>> \in Seq(Row)
    <2>1. buffer \in Seq(Row)
        BY DEF IInv, SeqTypes
    <2>2. b \in Seq(Row)
        BY <1>1, <2>1, AppendProperties
    <2>3. b = buffer \o <<e>>
        BY <1>1, <2>1, AppendIsConcat
    <2>. QED  BY <1>1, <2>2, <2>3
<1>3. accepted' = accepted \o <<e>> /\ accepted' \in Seq(Row) /\ stored' = stored
    <2>1. accepted \in Seq(Row) /\ accepted' = Append(accepted, e) /\ stored' = stored
        BY DEF IInv, SeqTypes, BufferEvent
    <2>2. Append(accepted, e) \in Seq(Row)
        BY <1>1, <2>1, AppendProperties
    <2>3. Append(accepted, e) = accepted \o <<e>>
        BY <1>1, <2>1, AppendIsConcat
    <2>. QED  BY <2>1, <2>2, <2>3
<1>4. /\ buffer' \in Seq(Row) /\ rows' \in Seq(Row)
      /\ WriteInLoop'
      /\ rows' \o buffer' = rows \o b
    <2>1. CASE RequestFlush(b)
        BY <1>2, <2>1, RequestFlushKeepsRows DEF IInv
    <2>2. CASE buffer' = b /\ UNCHANGED <<flushQueued, flushPending, rows, file>>
        BY <1>2, <2>2 DEF IInv, SeqTypes, WriteInLoop
    <2>. QED  BY <2>1, <2>2 DEF BufferEvent
<1>5. Lossless'
    <2>. DEFINE before == stored \o rows
    <2>1. stored \in Seq(Row) /\ rows \in Seq(Row) /\ buffer \in Seq(Row)
        BY DEF IInv, SeqTypes
    <2>2. before \in Seq(Row)
        BY <2>1, ConcatProperties
    <2>3. (before \o buffer) \o <<e>> = before \o b
        <3>1. (before \o buffer) \o <<e>> = before \o (buffer \o <<e>>)
            BY <1>2, <2>1, <2>2, Regroup
        <3>. QED  BY <1>2, <3>1
    <2>4. before \o b = stored \o (rows \o b)
        BY <1>2, <2>1, Regroup
    <2>5. stored \o (rows' \o buffer') = (stored \o rows') \o buffer'
        BY <1>4, <2>1, Regroup
    <2>6. accepted = before \o buffer
        BY DEF IInv, Lossless
    <2>. QED  BY <1>3, <1>4, <2>3, <2>4, <2>5, <2>6 DEF Lossless
<1>. QED  BY <1>1, <1>3, <1>4, <1>5 DEF IInv, SeqTypes

\* A step that keeps accepted and stored and the rows not stored yet.
LEMMA SameRowsIInv ==
    ASSUME IInv, UNCHANGED <<accepted, stored, arrivals>>,
           buffer' \in Seq(Row), rows' \in Seq(Row), WriteInLoop',
           rows' \o buffer' = rows \o buffer
    PROVE  IInv'
<1>1. stored \in Seq(Row) /\ rows \in Seq(Row) /\ buffer \in Seq(Row)
    BY DEF IInv, SeqTypes
<1>2. (stored \o rows) \o buffer = stored \o (rows \o buffer)
    BY <1>1, Regroup
<1>3. (stored \o rows') \o buffer' = stored \o (rows' \o buffer')
    BY <1>1, Regroup
<1>4. Lossless'
    BY <1>2, <1>3 DEF IInv, Lossless
<1>. QED  BY <1>4 DEF IInv, SeqTypes

LEMMA IntervalIInv == IInv /\ Interval => IInv'
<1>. SUFFICES ASSUME IInv, Interval PROVE IInv'
    OBVIOUS
<1>1. buffer \in Seq(Row) /\ RequestFlush(buffer) /\ SeqTypes /\ WriteInLoop
    BY DEF IInv, SeqTypes, Interval
<1>2. /\ buffer' \in Seq(Row) /\ rows' \in Seq(Row) /\ WriteInLoop'
      /\ rows' \o buffer' = rows \o buffer
    BY <1>1, RequestFlushKeepsRows
<1>3. UNCHANGED <<accepted, stored, arrivals>>
    BY DEF Interval
<1>. QED  BY <1>2, <1>3, SameRowsIInv

LEMMA WriteSucceedsIInv == IInv /\ WriteSucceeds => IInv'
<1>. SUFFICES ASSUME IInv, WriteSucceeds PROVE IInv'
    OBVIOUS
<1>1. SeqTypes /\ accepted = (stored \o rows) \o buffer
    BY DEF IInv, Lossless
<1>2. /\ stored' = stored \o rows /\ rows' = <<>>
      /\ UNCHANGED <<buffer, accepted, arrivals, flushQueued>>
    BY DEF WriteSucceeds
<1>3. stored' \in Seq(Row)
    BY <1>1, <1>2, ConcatProperties DEF SeqTypes
<1>4. stored' \o <<>> = stored'
    BY <1>3, ConcatEmptySeq
<1>5. Lossless'
    BY <1>1, <1>2, <1>4 DEF Lossless
<1>6. SeqTypes' /\ WriteInLoop'
    BY <1>1, <1>2, <1>3, EmptySeq DEF SeqTypes, WriteInLoop
<1>. QED  BY <1>5, <1>6 DEF IInv

LEMMA WriteFailsIInv == IInv /\ WriteFails => IInv'
<1>. SUFFICES ASSUME IInv, WriteFails PROVE IInv'
    OBVIOUS
<1>1. rows \in Seq(Row) /\ buffer \in Seq(Row)
    BY DEF IInv, SeqTypes
<1>2. /\ buffer' = rows \o buffer /\ rows' = <<>>
      /\ UNCHANGED <<accepted, stored, arrivals, flushQueued>>
    BY DEF WriteFails, PutBack
<1>3. rows \o buffer \in Seq(Row)
    BY <1>1, ConcatProperties
<1>4. <<>> \o (rows \o buffer) = rows \o buffer
    BY <1>3, ConcatEmptySeq
<1>5. rows' \in Seq(Row) /\ WriteInLoop'
    BY <1>2, EmptySeq DEF WriteInLoop
<1>. QED  BY <1>2, <1>3, <1>4, <1>5, SameRowsIInv

LEMMA LoopOrLeaveIInv == IInv /\ LoopOrLeave => IInv'
<1>. SUFFICES ASSUME IInv, LoopOrLeave PROVE IInv'
    OBVIOUS
<1>1. rows = <<>> /\ buffer \in Seq(Row) /\ UNCHANGED <<accepted, stored, arrivals>>
    BY DEF IInv, SeqTypes, LoopOrLeave
<1>2. <<>> \in Seq(Row) /\ <<>> \o buffer = buffer /\ buffer \o <<>> = buffer
    BY <1>1, EmptySeq, ConcatEmptySeq
<1>3. /\ rows' \in Seq(Row) /\ buffer' \in Seq(Row) /\ WriteInLoop'
      /\ rows' \o buffer' = rows \o buffer
    <2>1. CASE StartFlush(buffer)
        BY <1>1, <1>2, <2>1 DEF StartFlush, WriteInLoop
    <2>2. CASE UNCHANGED <<flushPending, rows, file, buffer>>
        BY <1>1, <1>2, <2>2 DEF WriteInLoop
    <2>. QED  BY <2>1, <2>2 DEF LoopOrLeave
<1>. QED  BY <1>1, <1>3, SameRowsIInv

LEMMA RestartIInv == IInv /\ Restart => IInv'
<1>. SUFFICES ASSUME IInv, Restart PROVE IInv'
    OBVIOUS
<1>1. /\ accepted' = stored /\ stored' = stored /\ buffer' = <<>> /\ rows' = <<>>
      /\ arrivals' = arrivals
    BY DEF Restart
<1>2. stored \in Seq(Row) /\ arrivals \in 0..MaxArrivals /\ <<>> \in Seq(Row)
    BY EmptySeq DEF IInv, SeqTypes
<1>3. stored \o <<>> = stored
    BY <1>2, ConcatEmptySeq
<1>. QED  BY <1>1, <1>2, <1>3 DEF IInv, SeqTypes, WriteInLoop, Lossless

LEMMA NextIInv == IInv /\ [Next]_vars => IInv'
<1>. SUFFICES ASSUME IInv, [Next]_vars PROVE IInv'
    OBVIOUS
<1>1. CASE BufferEvent
    BY <1>1, BufferEventIInv
<1>2. CASE Interval
    BY <1>2, IntervalIInv
<1>3. CASE WriteSucceeds
    BY <1>3, WriteSucceedsIInv
<1>4. CASE WriteFails
    BY <1>4, WriteFailsIInv
<1>5. CASE LoopOrLeave
    BY <1>5, LoopOrLeaveIInv
<1>6. CASE Midnight
    BY <1>6 DEF Midnight, IInv, SeqTypes, WriteInLoop, Lossless
<1>7. CASE Restart
    BY <1>7, RestartIInv
<1>8. CASE UNCHANGED vars
    BY <1>8 DEF vars, IInv, SeqTypes, WriteInLoop, Lossless
<1>. QED  BY <1>1, <1>2, <1>3, <1>4, <1>5, <1>6, <1>7, <1>8 DEF Next

LEMMA Invariance == Spec => []IInv
<1>. QED  BY InitIInv, NextIInv, PTL DEF Spec

\* Whatever the interleaving of arrivals, flushes, failures and restarts, the rows
\* accepted are those stored, in flight and buffered, in the order of their arrival.
THEOREM NothingLost == Spec => []Lossless
<1>1. IInv => Lossless
    BY DEF IInv
<1>. QED  BY Invariance, <1>1, PTL

-----------------------------------------------------------------------------
(* Refinement *)

LEMMA InitRefines == Init => Log!Init
    BY DEF Init, Log!Init

\* Writing rows is the one step that stores; it stores what comes next.
LEMMA WriteStores == IInv /\ WriteSucceeds => Log!Store
<1>. SUFFICES ASSUME IInv, WriteSucceeds PROVE Log!Store
    OBVIOUS
<1>. DEFINE new == stored \o rows
            n   == Len(new)
<1>1. /\ stored \in Seq(Row) /\ rows \in Seq(Row) /\ buffer \in Seq(Row) /\ rows # <<>>
      /\ accepted = new \o buffer /\ stored' = new /\ accepted' = accepted
    BY DEF IInv, SeqTypes, Lossless, WriteSucceeds
<1>2. /\ new \in Seq(Row) /\ n = Len(stored) + Len(rows)
      /\ Len(stored) \in Nat /\ Len(rows) \in Nat \ {0} /\ Len(buffer) \in Nat
    BY <1>1, ConcatProperties, LenProperties, EmptySeq
<1>3. Len(accepted) = n + Len(buffer)
    BY <1>1, <1>2, ConcatProperties
<1>4. n \in Len(stored) + 1 .. Len(accepted) /\ n \in 1..n
    BY <1>2, <1>3
<1>5. SubSeq(accepted, 1, n) = SubSeq(new, 1, n)
    <2>1. 1 \in 1..Len(new)
        BY <1>2
    <2>. QED  BY <1>1, <1>2, <1>4, <2>1, SubSeqOfConcat1
<1>6. SubSeq(new, 1, n) = new
    BY <1>2, SubSeqFull
<1>. QED  BY <1>1, <1>4, <1>5, <1>6 DEF Log!Store

LEMMA NextRefines == IInv /\ [Next]_vars => [Log!Next]_<<accepted, stored>>
<1>. SUFFICES ASSUME IInv, [Next]_vars PROVE [Log!Next]_<<accepted, stored>>
    OBVIOUS
<1>1. CASE BufferEvent
    <2>1. arrivals + 1 \in Row
        BY <1>1, DestinationAssumption
        DEF IInv, SeqTypes, BufferEvent, Row, DestinationAssumption
    <2>. QED  BY <1>1, <2>1 DEF BufferEvent, Log!Next, Log!Accept
<1>2. CASE WriteSucceeds
    BY <1>2, WriteStores DEF Log!Next
<1>3. CASE Restart
    BY <1>3 DEF Restart, Log!Next, Log!Lose
<1>4. CASE Interval \/ WriteFails \/ LoopOrLeave \/ Midnight \/ UNCHANGED vars
    BY <1>4 DEF Interval, WriteFails, LoopOrLeave, Midnight, vars
<1>. QED  BY <1>1, <1>2, <1>3, <1>4 DEF Next

\* The buffer, its flushes and its files implement the append-only log.
THEOREM DestinationIsLog == Spec => ImplementsLog
<1>. QED  BY InitRefines, NextRefines, Invariance, PTL
          DEF Spec, ImplementsLog, Log!Spec, Log!vars

-----------------------------------------------------------------------------
(* Files are never written again *)

LEMMA LeastOf ==
    ASSUME NEW T, T \subseteq Nat, T # {}
    PROVE  \E x \in T : \A y \in T : x <= y
<1>. DEFINE Less == {ss \in Nat \X Nat : ss[1] < ss[2]}
<1>1. IsWellFoundedOn(Less, Nat)
    BY NatLessThanWellFounded DEF OpToRel
<1>2. PICK x \in T : \A y \in T : ~(<<y, x>> \in Less)
    <2>. HIDE DEF Less
    <2>. QED  BY <1>1, WFMin
<1>3. ASSUME NEW y \in T
      PROVE  x <= y
    <2>1. x \in Nat /\ y \in Nat
        OBVIOUS
    <2>2. y < x => <<y, x>> \in Less
        BY <2>1
    <2>3. ~(y < x)
        BY <1>2, <2>2
    <2>. QED  BY <2>1, <2>3
<1>. QED  BY <1>3

\* Among one more parts than there are files, one is free, and so there is a first.
LEMMA FirstPart ==
    ASSUME IsFiniteSet(DOMAIN files)
    PROVE  \E p \in Nat \ {0} : /\ FirstFree = <<day, p>> /\ <<day, p>> \notin DOMAIN files
                              /\ \A q \in 1..(p - 1) : <<day, q>> \in DOMAIN files
<1>. DEFINE n == Cardinality(DOMAIN files)
            free == {p \in 1..(n + 1) : <<day, p>> \notin DOMAIN files}
<1>1. n \in Nat
    BY FS_CardinalityType
<1>2. IsFiniteSet(1..(n + 1)) /\ Cardinality(1..(n + 1)) = n + 1
    <2>1. n + 1 \in Int /\ ~(1 > n + 1)
        BY <1>1
    <2>. QED  BY <1>1, <2>1, FS_Interval
<1>3. free # {}
    <2>. SUFFICES ASSUME \A p \in 1..(n + 1) : <<day, p>> \in DOMAIN files
                  PROVE  FALSE
        OBVIOUS
    <2>. DEFINE f == [p \in 1..(n + 1) |-> <<day, p>>]
    <2>1. f \in [1..(n + 1) -> DOMAIN files]
        OBVIOUS
    <2>2. n < Cardinality(1..(n + 1))
        BY <1>1, <1>2
    <2>3. PICK x, y \in 1..(n + 1) : x # y /\ f[x] = f[y]
        <3>. HIDE DEF f
        <3>. QED  BY <1>2, <2>1, <2>2, FS_PigeonHole
    <2>. QED  BY <2>3
<1>4. PICK p \in free : \A q \in free : p <= q
    <2>1. free \subseteq Nat
        BY <1>1
    <2>. HIDE DEF free
    <2>. QED  BY <1>3, <2>1, LeastOf
<1>5. \A q \in 1..(p - 1) : <<day, q>> \in DOMAIN files
    BY <1>1, <1>4
<1>6. \E r \in 1..(n + 1) : /\ <<day, r>> \notin DOMAIN files
                            /\ \A q \in 1..(r - 1) : <<day, q>> \in DOMAIN files
    BY <1>4, <1>5
<1>. DEFINE first == CHOOSE r \in 1..(n + 1) : /\ <<day, r>> \notin DOMAIN files
                                           /\ \A q \in 1..(r - 1) : <<day, q>> \in DOMAIN files
<1>7. /\ first \in 1..(n + 1) /\ <<day, first>> \notin DOMAIN files
      /\ \A q \in 1..(first - 1) : <<day, q>> \in DOMAIN files
    BY <1>6
<1>8. FirstFree = <<day, first>>
    BY DEF FirstFree
<1>. QED  BY <1>1, <1>7, <1>8

LEMMA FirstFreeIsFree ==
    ASSUME IsFiniteSet(DOMAIN files)
    PROVE  FirstFree \notin DOMAIN files
BY FirstPart

\* The directory is finite and the name chosen for rows in flight is still free.
NameIsFree ==
    /\ IsFiniteSet(DOMAIN files)
    /\ rows # <<>> => file \notin DOMAIN files

LEMMA WithFileIsNew ==
    ASSUME NameIsFree, rows # <<>>, NEW content, files' = WithFile(content)
    PROVE  /\ IsFiniteSet(DOMAIN files')
           /\ \A n \in DOMAIN files : n \in DOMAIN files' /\ files'[n] = files[n]
<1>1. DOMAIN files' = DOMAIN files \cup {file}
    BY DEF WithFile
<1>2. IsFiniteSet(DOMAIN files \cup {file})
    BY FS_AddElement DEF NameIsFree
<1>3. ASSUME NEW n \in DOMAIN files
      PROVE  files'[n] = files[n]
    BY <1>3 DEF WithFile, NameIsFree
<1>. QED  BY <1>1, <1>2, <1>3

LEMMA RequestFlushNamesFree ==
    ASSUME NameIsFree, NEW b, RequestFlush(b), files' = files
    PROVE  NameIsFree'
<1>1. CASE UNCHANGED <<rows, file>>
    BY <1>1 DEF NameIsFree
<1>2. CASE StartFlush(b)
    <2>1. file' = FirstFree
        BY <1>2 DEF StartFlush
    <2>2. FirstFree \notin DOMAIN files
        BY FirstFreeIsFree DEF NameIsFree
    <2>. QED  BY <2>1, <2>2 DEF NameIsFree
<1>. QED  BY <1>1, <1>2 DEF RequestFlush

FilesKept == \A n \in DOMAIN files : n \in DOMAIN files' /\ files'[n] = files[n]

LEMMA NextFiles ==
    ASSUME NameIsFree, [Next]_vars
    PROVE  NameIsFree' /\ FilesKept
<1>1. CASE BufferEvent
    <2>1. files' = files
        BY <1>1 DEF BufferEvent
    <2>2. NameIsFree'
        <3>1. CASE UNCHANGED <<flushQueued, flushPending, rows, file>>
            BY <2>1, <3>1 DEF NameIsFree
        <3>2. CASE RequestFlush(Append(buffer, arrivals + 1))
            BY <2>1, <3>2, RequestFlushNamesFree
        <3>. QED  BY <1>1, <3>1, <3>2 DEF BufferEvent
    <2>. QED  BY <2>1, <2>2 DEF FilesKept
<1>2. CASE Interval
    <2>1. files' = files /\ RequestFlush(buffer)
        BY <1>2 DEF Interval
    <2>. QED  BY <2>1, RequestFlushNamesFree DEF FilesKept
<1>3. CASE WriteSucceeds
    <2>1. rows # <<>> /\ files' = WithFile(rows) /\ rows' = <<>>
        BY <1>3 DEF WriteSucceeds
    <2>. QED  BY <2>1, WithFileIsNew DEF NameIsFree, FilesKept
<1>4. CASE WriteFails
    <2>1. rows # <<>> /\ rows' = <<>> /\ (files' = files \/ files' = WithFile(<<>>))
        BY <1>4 DEF WriteFails, Unfinished
    <2>. QED  BY <2>1, WithFileIsNew DEF NameIsFree, FilesKept
<1>5. CASE LoopOrLeave
    <2>1. files' = files
        BY <1>5 DEF LoopOrLeave
    <2>2. CASE UNCHANGED <<flushPending, rows, file, buffer>>
        BY <2>1, <2>2 DEF NameIsFree, FilesKept
    <2>3. CASE StartFlush(buffer)
        <3>1. file' = FirstFree
            BY <2>3 DEF StartFlush
        <3>2. FirstFree \notin DOMAIN files
            BY FirstFreeIsFree DEF NameIsFree
        <3>. QED  BY <2>1, <3>1, <3>2 DEF NameIsFree, FilesKept
    <2>. QED  BY <1>5, <2>2, <2>3 DEF LoopOrLeave
<1>6. CASE Midnight \/ UNCHANGED vars
    BY <1>6 DEF Midnight, vars, NameIsFree, FilesKept
<1>7. CASE Restart
    <2>1. rows' = <<>> /\ (files' = files \/ (rows # <<>> /\ files' = WithFile(<<>>)))
        BY <1>7 DEF Restart
    <2>. QED  BY <2>1, WithFileIsNew DEF NameIsFree, FilesKept
<1>. QED  BY <1>1, <1>2, <1>3, <1>4, <1>5, <1>6, <1>7 DEF Next

LEMMA InitNameIsFree == Init => NameIsFree
<1>. SUFFICES ASSUME Init PROVE NameIsFree
    OBVIOUS
<1>1. DOMAIN files = {}
    BY DEF Init
<1>. QED  BY <1>1, FS_EmptySet DEF Init, NameIsFree

\* No file of the export directory is ever overwritten, over restarts too.
THEOREM FilesNeverRewritten == Spec => FilesAreFinal
<1>1. NameIsFree /\ [Next]_vars => NameIsFree'
    BY NextFiles
<1>2. NameIsFree /\ [Next]_vars => [\A n \in DOMAIN files : n \in DOMAIN files' /\ files'[n] = files[n]]_vars
    BY NextFiles DEF FilesKept
<1>. QED  BY InitNameIsFree, <1>1, <1>2, PTL DEF Spec, FilesAreFinal

-----------------------------------------------------------------------------
(* Sequences of sequences, one after the other *)

\* flat[i] is the first i of the sequences of s, one after the other.
Flattens(flat, s, n) ==
    flat = [i \in 1..n |-> IF i = 1 THEN s[i] ELSE flat[i - 1] \o s[i]]

LEMMA FlattensExists ==
    ASSUME NEW s, NEW n \in Nat
    PROVE  \E flat : Flattens(flat, s, n)
<1>. DEFINE without == {k \in Nat : ~\E flat : Flattens(flat, s, k)}
<1>. SUFFICES ASSUME without # {} PROVE FALSE
    OBVIOUS
<1>1. PICK k \in without : \A j \in without : k <= j
    <2>1. without \subseteq Nat
        OBVIOUS
    <2>. HIDE DEF without
    <2>. QED  BY <2>1, LeastOf
<1>2. k # 0
    <2>1. Flattens([i \in 1..0 |-> <<>>], s, 0)
        BY DEF Flattens
    <2>. QED  BY <2>1
<1>3. k - 1 \in Nat /\ k - 1 \notin without
    BY <1>1, <1>2
<1>4. PICK g : Flattens(g, s, k - 1)
    BY <1>3
<1>. DEFINE f == [i \in 1..k |-> IF i < k THEN g[i] ELSE IF i = 1 THEN s[i] ELSE g[i - 1] \o s[i]]
<1>5. Flattens(f, s, k)
    <2>1. \A i \in 1..(k - 1) : g[i] = IF i = 1 THEN s[i] ELSE g[i - 1] \o s[i]
        BY <1>4 DEF Flattens
    <2>2. ASSUME NEW i \in 1..k
          PROVE  f[i] = IF i = 1 THEN s[i] ELSE f[i - 1] \o s[i]
        <3>1. CASE i < k
            <4>1. i \in 1..(k - 1)
                BY <1>3, <3>1
            <4>2. f[i] = g[i] /\ (i # 1 => f[i - 1] = g[i - 1])
                BY <1>3, <3>1
            <4>. QED  BY <2>1, <4>1, <4>2
        <3>2. CASE ~(i < k)
            <4>1. i = k
                BY <1>3, <3>2
            <4>2. i # 1 => i - 1 \in 1..k /\ i - 1 < k
                BY <1>3, <4>1
            <4>. QED  BY <4>1, <4>2
        <3>. QED  BY <3>1, <3>2
    <2>3. f = [i \in 1..k |-> f[i]]
        OBVIOUS
    <2>. HIDE DEF f
    <2>. QED  BY <2>2, <2>3 DEF Flattens
<1>. QED  BY <1>1, <1>5

LEMMA FlattensAt ==
    ASSUME NEW s, NEW n \in Nat, NEW flat, Flattens(flat, s, n), NEW i \in 1..n
    PROVE  flat[i] = IF i = 1 THEN s[i] ELSE flat[i - 1] \o s[i]
<1>. DEFINE next == [j \in 1..n |-> IF j = 1 THEN s[j] ELSE flat[j - 1] \o s[j]]
<1>1. flat = next
    BY DEF Flattens
<1>2. next[i] = IF i = 1 THEN s[i] ELSE flat[i - 1] \o s[i]
    OBVIOUS
<1>. HIDE DEF next
<1>. QED  BY <1>1, <1>2

\* It depends on the first i only.
Agree(s, t, n) == \A i \in 1..n : s[i] = t[i]

LEMMA FlattensAgree ==
    ASSUME NEW s, NEW t, NEW n \in Nat, NEW m \in Nat, NEW f, NEW g,
           Flattens(f, s, n), Flattens(g, t, m), n <= m, Agree(s, t, n)
    PROVE  Agree(f, g, n)
<1>. DEFINE bad == {i \in 1..n : f[i] # g[i]}
<1>. SUFFICES ASSUME bad # {} PROVE FALSE
    BY DEF Agree
<1>1. PICK i \in bad : \A j \in bad : i <= j
    <2>1. bad \subseteq Nat
        OBVIOUS
    <2>. HIDE DEF bad
    <2>. QED  BY <2>1, LeastOf
<1>2. /\ f[i] = IF i = 1 THEN s[i] ELSE f[i - 1] \o s[i]
      /\ g[i] = IF i = 1 THEN t[i] ELSE g[i - 1] \o t[i]
    BY FlattensAt
<1>3. i # 1 => i - 1 \in 1..n /\ i - 1 \notin bad
    BY <1>1
<1>. QED  BY <1>1, <1>2, <1>3 DEF Agree

LEMMA FlattenIs ==
    ASSUME NEW s, Len(s) \in Nat \ {0}
    PROVE  \E flat : Flattens(flat, s, Len(s)) /\ FlattenSeq(s) = flat[Len(s)]
<1>. DEFINE flat == CHOOSE f : Flattens(f, s, Len(s))
<1>1. Flattens(flat, s, Len(s))
    BY FlattensExists
<1>2. FlattenSeq(s) = flat[Len(s)]
    BY DEF FlattenSeq, Flattens
<1>. QED  BY <1>1, <1>2

LEMMA FlattenRows ==
    ASSUME NEW n \in Nat \ {0}, NEW s \in [1..n -> Seq(Row)], NEW flat, Flattens(flat, s, n)
    PROVE  \A i \in 1..n : flat[i] \in Seq(Row)
<1>. DEFINE bad == {i \in 1..n : flat[i] \notin Seq(Row)}
<1>. SUFFICES ASSUME bad # {} PROVE FALSE
    OBVIOUS
<1>1. PICK i \in bad : \A j \in bad : i <= j
    <2>1. bad \subseteq Nat
        OBVIOUS
    <2>. HIDE DEF bad
    <2>. QED  BY <2>1, LeastOf
<1>2. flat[i] = IF i = 1 THEN s[i] ELSE flat[i - 1] \o s[i]
    <2>1. i \in 1..n /\ n \in Nat
        BY <1>1
    <2>. HIDE DEF bad
    <2>. QED  BY <2>1, FlattensAt
<1>3. i # 1 => i - 1 \in 1..n /\ i - 1 \notin bad
    BY <1>1
<1>4. i # 1 => flat[i] \in Seq(Row)
    BY <1>2, <1>3, ConcatProperties
<1>. QED  BY <1>1, <1>2, <1>4

\* One more sequence goes behind the others.
LEMMA FlattenAppended ==
    ASSUME NEW n \in Nat, NEW s \in [1..n -> Seq(Row)], NEW x \in Seq(Row),
           NEW t \in [1..(n + 1) -> Seq(Row)],
           \A i \in 1..n : t[i] = s[i], t[n + 1] = x
    PROVE  FlattenSeq(t) = FlattenSeq(s) \o x
<1>1. Len(s) = n /\ Len(t) = n + 1
    OBVIOUS
<1>2. PICK g : Flattens(g, t, n + 1) /\ FlattenSeq(t) = g[n + 1]
    BY <1>1, FlattenIs
<1>3. n + 1 \in 1..(n + 1)
    OBVIOUS
<1>4. g[n + 1] = IF n + 1 = 1 THEN x ELSE g[n + 1 - 1] \o x
    BY <1>2, <1>3, FlattensAt
<1>5. CASE n = 0
    <2>1. FlattenSeq(s) = s /\ s = <<>>
        BY <1>1, <1>5 DEF FlattenSeq
    <2>2. <<>> \o x = x
        BY ConcatEmptySeq
    <2>. QED  BY <1>2, <1>4, <1>5, <2>1, <2>2
<1>6. CASE n # 0
    <2>1. PICK f : Flattens(f, s, n) /\ FlattenSeq(s) = f[n]
        BY <1>1, <1>6, FlattenIs
    <2>2. n <= n + 1 /\ n + 1 \in Nat /\ n \in 1..n /\ Agree(s, t, n)
        BY <1>6 DEF Agree
    <2>3. Agree(f, g, n)
        BY <1>2, <2>1, <2>2, FlattensAgree
    <2>4. f[n] = g[n]
        BY <2>2, <2>3 DEF Agree
    <2>. QED  BY <1>2, <1>4, <1>6, <2>1, <2>4
<1>. QED  BY <1>5, <1>6
-----------------------------------------------------------------------------
(* The directory, read in the order of its names *)

\* The names have the positions 1 to their number, each one of them.
PositionsFit(names) ==
    LET k == Cardinality(names)
    IN  /\ \A n \in names : Position(names, n) \in 1..k
        /\ \A i \in 1..k : \E n \in names : Position(names, n) = i
        /\ \A m, n \in names : Position(names, m) = Position(names, n) => m = n

\* The parts of a day are written in their order, none left out.
PartsBefore(n) == \A q \in 1..(n[2] - 1) : <<n[1], q>> \in DOMAIN files

DirectoryTypes ==
    /\ IsFiniteSet(DOMAIN files)
    /\ DOMAIN files \subseteq FileName
    /\ files \in [DOMAIN files -> Seq(Row)]
    /\ day \in 0..MaxDay

\* A name in the directory or on its way there.
NameFits(n) == n[1] <= day /\ PartsBefore(n)

NamesFit ==
    /\ \A n \in DOMAIN files : NameFits(n)
    /\ rows # <<>> => /\ file \in FileName /\ NameFits(file)
                      /\ \A n \in DOMAIN files : Before(n, file)

DirectoryInv == IInv /\ DirectoryTypes /\ NamesFit /\ PositionsFit(DOMAIN files) /\ FilesHoldTheLog

LEMMA InOrderIs ==
    ASSUME NEW names, PositionsFit(names), NEW i \in 1..Cardinality(names)
    PROVE  InOrder(names)[i] \in names /\ Position(names, InOrder(names)[i]) = i
<1>. DEFINE name == CHOOSE n \in names : Position(names, n) = i
<1>1. InOrder(names)[i] = name
    BY DEF InOrder
<1>2. name \in names /\ Position(names, name) = i
    BY DEF PositionsFit
<1>. QED  BY <1>1, <1>2

LEMMA OnePosition ==
    ASSUME NEW names, PositionsFit(names), NEW m \in names, NEW n \in names,
           Position(names, m) = Position(names, n)
    PROVE  m = n
BY DEF PositionsFit

\* Names are ordered.
LEMMA BeforeIsOrder ==
    ASSUME NEW m \in FileName, NEW n \in FileName, Before(m, n)
    PROVE  ~Before(n, m) /\ m # n
BY DestinationAssumption DEF Before, FileName

\* A name that comes after all others takes the last position, and leaves the
\* others theirs.
LEMMA PositionsAfter ==
    ASSUME NEW names \in SUBSET FileName, IsFiniteSet(names), PositionsFit(names),
           NEW last \in FileName, \A n \in names : Before(n, last)
    PROVE  /\ PositionsFit(names \cup {last})
           /\ Cardinality(names \cup {last}) = Cardinality(names) + 1 /\ Cardinality(names) \in Nat
           /\ Position(names \cup {last}, last) = Cardinality(names) + 1 /\ last \notin names
           /\ \A n \in names : Position(names \cup {last}, n) = Position(names, n)
<1>. DEFINE more == names \cup {last}
            k == Cardinality(names)
<1>1. /\ last \notin names
      /\ ~Before(last, last) /\ \A n \in names : ~Before(last, n)
    BY BeforeIsOrder
<1>2. Cardinality(more) = k + 1 /\ k \in Nat
    BY <1>1, FS_AddElement, FS_CardinalityType
<1>3. Position(more, last) = k + 1
    <2>1. {m \in more : Before(m, last)} = names
        BY <1>1
    <2>. QED  BY <2>1 DEF Position
<1>4. ASSUME NEW n \in names
      PROVE  Position(more, n) = Position(names, n)
    <2>1. {m \in more : Before(m, n)} = {m \in names : Before(m, n)}
        BY <1>1
    <2>. QED  BY <2>1 DEF Position
<1>5. /\ \A n \in names : Position(names, n) \in 1..k
      /\ \A i \in 1..k : \E n \in names : Position(names, n) = i
      /\ \A m, n \in names : Position(names, m) = Position(names, n) => m = n
    BY DEF PositionsFit
<1>6. \A n \in more : n \in names \/ n = last
    OBVIOUS
<1>7. PositionsFit(more)
    <2>. HIDE DEF more, k
    <2>1. \A n \in more : Position(more, n) \in 1..(k + 1)
        BY <1>2, <1>3, <1>4, <1>5, <1>6
    <2>2. ASSUME NEW i \in 1..(k + 1)
          PROVE  \E n \in more : Position(more, n) = i
        <3>1. names \subseteq more /\ last \in more
            BY DEF more
        <3>2. CASE i = k + 1
            BY <1>3, <3>1, <3>2
        <3>3. CASE i # k + 1
            <4>1. i \in 1..k
                BY <1>2, <3>3
            <4>2. PICK n \in names : Position(names, n) = i
                BY <1>5, <4>1
            <4>. QED  BY <1>4, <3>1, <4>2
        <3>. QED  BY <3>2, <3>3
    <2>3. \A n \in names : Position(more, n) # k + 1
        BY <1>2, <1>4, <1>5
    <2>4. ASSUME NEW m \in more, NEW n \in more, Position(more, m) = Position(more, n)
          PROVE  m = n
        <3>1. CASE m \in names /\ n \in names
            BY <1>4, <1>5, <2>4, <3>1
        <3>2. CASE ~(m \in names /\ n \in names)
            BY <1>3, <1>6, <2>3, <2>4, <3>2
        <3>. QED  BY <3>1, <3>2
    <2>. QED  BY <1>2, <2>1, <2>2, <2>4 DEF PositionsFit
<1>. QED  BY <1>1, <1>2, <1>3, <1>4, <1>7

\* It is read after all others.
LEMMA ContentsAfter ==
    ASSUME DirectoryTypes, PositionsFit(DOMAIN files), NEW content \in Seq(Row),
           files' = WithFile(content),
           file \in FileName, \A n \in DOMAIN files : Before(n, file)
    PROVE  Contents' = Contents \o content /\ PositionsFit(DOMAIN files)'
<1>. DEFINE names == DOMAIN files
            more == DOMAIN files'
            n == Cardinality(names)
            s == [i \in 1..n |-> files[InOrder(names)[i]]]
            t == [i \in 1..(n + 1) |-> files'[InOrder(more)[i]]]
<1>1. more = names \cup {file}
    BY DEF WithFile
<1>2. /\ PositionsFit(more) /\ Cardinality(more) = n + 1 /\ n \in Nat
      /\ Position(more, file) = n + 1 /\ file \notin names
      /\ \A m \in names : Position(more, m) = Position(names, m)
    <2>1. /\ names \in SUBSET FileName /\ IsFiniteSet(names) /\ PositionsFit(names)
          /\ file \in FileName /\ \A m \in names : Before(m, file)
        BY DEF DirectoryTypes
    <2>. HIDE DEF names, more, s, t
    <2>2. /\ PositionsFit(names \cup {file})
          /\ Cardinality(names \cup {file}) = n + 1 /\ n \in Nat
          /\ Position(names \cup {file}, file) = n + 1 /\ file \notin names
          /\ \A m \in names : Position(names \cup {file}, m) = Position(names, m)
        BY <2>1, PositionsAfter
    <2>. QED  BY <1>1, <2>2
<1>3. /\ files'[file] = content /\ \A m \in names : files'[m] = files[m]
    BY <1>2 DEF WithFile
<1>4. /\ files \in [names -> Seq(Row)]
      /\ Contents = FlattenSeq(s) /\ Contents' = FlattenSeq(t)
    BY <1>2 DEF Contents, DirectoryTypes
<1>. HIDE DEF names, more, n
<1>5. \A i \in 1..(n + 1) : InOrder(more)[i] \in more /\ Position(more, InOrder(more)[i]) = i
    BY <1>2, InOrderIs
<1>6. ASSUME NEW i \in 1..n
      PROVE  InOrder(more)[i] = InOrder(names)[i] /\ InOrder(names)[i] \in names
    <2>1. InOrder(names)[i] \in names /\ Position(names, InOrder(names)[i]) = i
        BY InOrderIs DEF n, names
    <2>2. InOrder(more)[i] \in more /\ Position(more, InOrder(more)[i]) = i /\ i # n + 1
        BY <1>2, <1>5
    <2>3. InOrder(more)[i] \in names
        BY <1>1, <1>2, <2>2
    <2>4. Position(names, InOrder(more)[i]) = i
        BY <1>2, <2>2, <2>3
    <2>. QED  BY <2>1, <2>3, <2>4, OnePosition DEF names
<1>7. InOrder(more)[n + 1] = file
    <2>1. n + 1 \in 1..(n + 1)
        BY <1>2
    <2>2. InOrder(more)[n + 1] \in more /\ Position(more, InOrder(more)[n + 1]) = n + 1
        BY <1>5, <2>1
    <2>. QED  BY <1>1, <1>2, <2>2, OnePosition
<1>8. s \in [1..n -> Seq(Row)] /\ \A i \in 1..n : t[i] = s[i]
    BY <1>2, <1>3, <1>4, <1>6
<1>9. n + 1 \in 1..(n + 1) /\ t[n + 1] = content
    BY <1>2, <1>3, <1>7
<1>10. t \in [1..(n + 1) -> Seq(Row)]
    <2>1. ASSUME NEW i \in 1..(n + 1)
          PROVE  t[i] \in Seq(Row)
        <3>1. CASE i = n + 1
            BY <1>9, <3>1
        <3>2. CASE i # n + 1
            <4>1. i \in 1..n
                BY <1>2, <3>2
            <4>2. t[i] = s[i] /\ s[i] \in Seq(Row)
                BY <1>8, <4>1
            <4>. QED  BY <4>2
        <3>. QED  BY <3>1, <3>2
    <2>. QED  BY <2>1
<1>. HIDE DEF s, t
<1>11. FlattenSeq(t) = FlattenSeq(s) \o content
    BY <1>2, <1>8, <1>9, <1>10, FlattenAppended
<1>. QED  BY <1>2, <1>4, <1>11 DEF more
-----------------------------------------------------------------------------
(* Every step keeps the directory in order *)

\* The first part that is free comes after all that are there.
LEMMA FirstFreeFits ==
    ASSUME DirectoryTypes, \A n \in DOMAIN files : NameFits(n)
    PROVE  /\ FirstFree \in FileName /\ NameFits(FirstFree)
           /\ \A n \in DOMAIN files : Before(n, FirstFree)
<1>1. PICK p \in Nat \ {0} :
          /\ FirstFree = <<day, p>> /\ <<day, p>> \notin DOMAIN files
          /\ \A q \in 1..(p - 1) : <<day, q>> \in DOMAIN files
    BY FirstPart DEF DirectoryTypes
<1>2. FirstFree \in FileName
    BY <1>1 DEF DirectoryTypes, FileName
<1>3. NameFits(FirstFree)
    BY <1>1 DEF NameFits, PartsBefore, DirectoryTypes
<1>4. ASSUME NEW n \in DOMAIN files
      PROVE  Before(n, FirstFree)
    <2>1. /\ n[1] \in Nat /\ n[2] \in Nat \ {0} /\ n = <<n[1], n[2]>> /\ day \in Nat
          /\ n[1] <= day /\ \A q \in 1..(n[2] - 1) : <<n[1], q>> \in DOMAIN files
        BY DestinationAssumption DEF DirectoryTypes, FileName, NameFits, PartsBefore
    <2>2. n[1] = day => n[2] < p
        BY <1>1, <2>1
    <2>. QED  BY <1>1, <2>1, <2>2 DEF Before
<1>. QED  BY <1>2, <1>3, <1>4

\* Nothing happens to the directory; a name may be chosen.
LEMMA SameDirectory ==
    ASSUME DirectoryInv, IInv', UNCHANGED <<files, stored>>, day' \in {day, day + 1} \cap 0..MaxDay,
           \/ rows' = <<>>
           \/ UNCHANGED <<rows, file>>
           \/ file' = FirstFree /\ day' = day
    PROVE  DirectoryInv'
<1>1. DirectoryTypes' /\ PositionsFit(DOMAIN files)' /\ FilesHoldTheLog'
    BY DEF DirectoryInv, DirectoryTypes, FilesHoldTheLog, Contents
<1>2. day \in Nat /\ day' \in Nat /\ day <= day'
    BY DestinationAssumption DEF DirectoryInv, DirectoryTypes
<1>3. \A n \in FileName : NameFits(n) => NameFits(n)'
    BY <1>2 DEF NameFits, PartsBefore, FileName
<1>4. DOMAIN files \subseteq FileName /\ FirstFree \in FileName /\ NameFits(FirstFree)
      /\ \A n \in DOMAIN files : Before(n, FirstFree)
    BY FirstFreeFits DEF DirectoryInv, DirectoryTypes, NamesFit
<1>5. NamesFit'
    <2>1. \A n \in DOMAIN files' : NameFits(n)'
        BY <1>3, <1>4 DEF DirectoryInv, NamesFit
    <2>2. CASE rows' = <<>>
        BY <2>1, <2>2 DEF NamesFit
    <2>3. ASSUME NEW f \in FileName, f = file', NameFits(f), \A n \in DOMAIN files : Before(n, f)
          PROVE  NamesFit'
        <3>1. f[1] <= day' /\ \A q \in 1..(f[2] - 1) : <<f[1], q>> \in DOMAIN files'
            BY <1>3, <2>3 DEF NameFits, PartsBefore
        <3>2. \A n \in DOMAIN files' : Before(n, f)
            BY <2>3
        <3>3. /\ file' \in FileName /\ file'[1] <= day'
              /\ \A q \in 1..(file'[2] - 1) : <<file'[1], q>> \in DOMAIN files'
              /\ \A n \in DOMAIN files' : Before(n, file')
            BY <2>3, <3>1, <3>2
        <3>. QED  BY <2>1, <3>3 DEF NamesFit, NameFits, PartsBefore, Before
    <2>4. CASE UNCHANGED <<rows, file>> /\ rows # <<>>
        <3>1. file \in FileName /\ NameFits(file) /\ \A n \in DOMAIN files : Before(n, file)
            BY <2>4 DEF DirectoryInv, NamesFit
        <3>. QED  BY <2>3, <2>4, <3>1
    <2>5. CASE file' = FirstFree
        BY <1>4, <2>3, <2>5
    <2>. QED  BY <2>2, <2>4, <2>5
<1>. QED  BY <1>1, <1>5 DEF DirectoryInv

\* The file on its way gets there, finished or empty, and leaves nothing under way.
LEMMA MoreInDirectory ==
    ASSUME DirectoryInv, IInv', rows # <<>>, NEW content \in Seq(Row),
           files' = WithFile(content), stored' = stored \o content,
           rows' = <<>>, day' = day
    PROVE  DirectoryInv'
<1>1. /\ DirectoryTypes /\ PositionsFit(DOMAIN files) /\ Contents = stored
      /\ \A n \in DOMAIN files : NameFits(n)
      /\ file \in FileName /\ NameFits(file) /\ \A n \in DOMAIN files : Before(n, file)
    BY DEF DirectoryInv, NamesFit, FilesHoldTheLog
<1>2. DOMAIN files' = DOMAIN files \cup {file}
    BY DEF WithFile
<1>3. Contents' = Contents \o content /\ PositionsFit(DOMAIN files)'
    BY <1>1, ContentsAfter
<1>4. DirectoryTypes'
    <2>1. IsFiniteSet(DOMAIN files \cup {file})
        BY <1>1, FS_AddElement DEF DirectoryTypes
    <2>2. files' \in [DOMAIN files' -> Seq(Row)]
        BY <1>1, <1>2 DEF WithFile, DirectoryTypes
    <2>. QED  BY <1>1, <1>2, <2>1, <2>2 DEF DirectoryTypes
<1>5. NamesFit'
    BY <1>1, <1>2 DEF NamesFit, NameFits, PartsBefore
<1>. QED  BY <1>1, <1>3, <1>4, <1>5 DEF DirectoryInv, FilesHoldTheLog

LEMMA RequestFlushNames ==
    ASSUME NEW b, RequestFlush(b)
    PROVE  UNCHANGED <<rows, file>> \/ file' = FirstFree
BY DEF RequestFlush, StartFlush

LEMMA DirectorySteps ==
    ASSUME DirectoryInv, [Next]_vars
    PROVE  DirectoryInv'
<1>1. IInv'
    BY NextIInv DEF DirectoryInv
<1>2. day \in 0..MaxDay /\ rows \in Seq(Row) /\ stored \in Seq(Row)
    BY DEF DirectoryInv, DirectoryTypes, IInv, SeqTypes
<1>3. CASE BufferEvent \/ Interval
    <2>1. UNCHANGED <<files, stored, day>>
        BY <1>3 DEF BufferEvent, Interval
    <2>2. UNCHANGED <<rows, file>> \/ file' = FirstFree
        BY <1>3, RequestFlushNames DEF BufferEvent, Interval
    <2>. QED  BY <1>1, <1>2, <2>1, <2>2, SameDirectory
<1>4. CASE WriteSucceeds
    BY <1>1, <1>2, <1>4, MoreInDirectory DEF WriteSucceeds
<1>5. CASE WriteFails \/ Restart
    <2>1. rows' = <<>> /\ UNCHANGED <<stored, day>>
        BY <1>5 DEF WriteFails, Restart
    <2>2. files' = files \/ (rows # <<>> /\ files' = WithFile(<<>>))
        <3>1. CASE WriteFails
            BY <3>1 DEF WriteFails, Unfinished
        <3>2. CASE Restart
            BY <3>2 DEF Restart
        <3>. QED  BY <1>5, <3>1, <3>2
    <2>3. <<>> \in Seq(Row) /\ stored = stored \o <<>>
        BY <1>2, EmptySeq, ConcatEmptySeq
    <2>4. CASE files' = files
        BY <1>1, <1>2, <2>1, <2>4, SameDirectory
    <2>5. CASE rows # <<>> /\ files' = WithFile(<<>>)
        BY <1>1, <2>1, <2>3, <2>5, MoreInDirectory
    <2>. QED  BY <2>2, <2>4, <2>5
<1>6. CASE LoopOrLeave
    <2>1. UNCHANGED <<files, stored, day>>
        BY <1>6 DEF LoopOrLeave
    <2>2. UNCHANGED <<rows, file>> \/ file' = FirstFree
        BY <1>6 DEF LoopOrLeave, StartFlush
    <2>. QED  BY <1>1, <1>2, <2>1, <2>2, SameDirectory
<1>7. CASE Midnight
    <2>1. day' \in {day, day + 1} \cap 0..MaxDay /\ UNCHANGED <<files, stored, rows, file>>
        BY <1>2, <1>7, DestinationAssumption DEF Midnight
    <2>. QED  BY <1>1, <2>1, SameDirectory
<1>8. CASE UNCHANGED vars
    <2>1. UNCHANGED <<files, stored, rows, file, day>>
        BY <1>8 DEF vars
    <2>. QED  BY <1>1, <1>2, <2>1, SameDirectory
<1>. QED  BY <1>3, <1>4, <1>5, <1>6, <1>7, <1>8 DEF Next

LEMMA DirectoryStart == ASSUME Init PROVE DirectoryInv
<1>1. DOMAIN files = {} /\ Cardinality(DOMAIN files) = 0 /\ IsFiniteSet(DOMAIN files)
    BY FS_EmptySet DEF Init
<1>2. DirectoryTypes /\ NamesFit
    BY <1>1, DestinationAssumption DEF Init, DirectoryTypes, NamesFit
<1>3. PositionsFit(DOMAIN files)
    BY <1>1 DEF PositionsFit
<1>4. FilesHoldTheLog
    <2>. DEFINE s == [i \in 1..Cardinality(DOMAIN files) |-> files[InOrder(DOMAIN files)[i]]]
    <2>1. s = <<>> /\ Len(s) = 0
        BY <1>1
    <2>2. Contents = s
        BY <2>1 DEF Contents, FlattenSeq
    <2>. QED  BY <2>1, <2>2 DEF Init, FilesHoldTheLog
<1>. QED  BY <1>2, <1>3, <1>4, InitIInv DEF DirectoryInv

\* The directory, read by name, is the log of what was written, over midnights, failures
\* and restarts: no file is written over and none is named ahead of an older one.
THEOREM DirectoryIsTheLog == Spec => []FilesHoldTheLog
<1>1. Init => DirectoryInv
    BY DirectoryStart
<1>2. DirectoryInv /\ [Next]_vars => DirectoryInv'
    BY DirectorySteps
<1>3. DirectoryInv => FilesHoldTheLog
    BY DEF DirectoryInv
<1>. QED  BY <1>1, <1>2, <1>3, PTL DEF Spec
-----------------------------------------------------------------------------
(* The types *)

\* What of TypeOK the directory's invariant does not say.
FlagTypes ==
    /\ timerOn \in BOOLEAN
    /\ flushQueued \in BOOLEAN
    /\ flushPending \in BOOLEAN
    /\ rows = <<>> => file = NoFile
    /\ failures \in 0..MaxFailures
    /\ crashes \in 0..MaxCrashes

LEMMA RequestFlushFlags ==
    ASSUME FlagTypes, NEW b, RequestFlush(b)
    PROVE  /\ flushQueued' \in BOOLEAN /\ flushPending' \in BOOLEAN
           /\ rows' = <<>> => file' = NoFile
BY DEF FlagTypes, RequestFlush, StartFlush

LEMMA FlagSteps == ASSUME FlagTypes, [Next]_vars PROVE FlagTypes'
<1>1. CASE BufferEvent
    <2>1. (WriteFrequency > 0) \in BOOLEAN
        OBVIOUS
    <2>2. CASE RequestFlush(Append(buffer, arrivals + 1))
        BY <1>1, <2>1, <2>2, RequestFlushFlags DEF FlagTypes, BufferEvent
    <2>3. CASE UNCHANGED <<flushQueued, flushPending, rows, file>>
        BY <1>1, <2>1, <2>3 DEF FlagTypes, BufferEvent
    <2>. QED  BY <1>1, <2>2, <2>3 DEF BufferEvent
<1>2. CASE Interval
    BY <1>2, RequestFlushFlags DEF FlagTypes, Interval
<1>3. CASE WriteSucceeds \/ Midnight \/ UNCHANGED vars
    BY <1>3 DEF FlagTypes, WriteSucceeds, Midnight, vars
<1>4. CASE WriteFails
    BY <1>4, DestinationAssumption DEF FlagTypes, WriteFails
<1>5. CASE LoopOrLeave
    BY <1>5 DEF FlagTypes, LoopOrLeave, StartFlush
<1>6. CASE Restart
    <2>1. timerOn' = FALSE /\ flushQueued' = FALSE /\ flushPending' = FALSE /\ file' = NoFile
        BY <1>6 DEF Restart
    <2>2. failures' \in 0..MaxFailures /\ crashes' \in 0..MaxCrashes
        BY <1>6, DestinationAssumption DEF FlagTypes, Restart
    <2>3. timerOn' \in BOOLEAN /\ flushQueued' \in BOOLEAN /\ flushPending' \in BOOLEAN
        BY <2>1, Zenon
    <2>. QED  BY <2>1, <2>2, <2>3 DEF FlagTypes
<1>. QED  BY <1>1, <1>2, <1>3, <1>4, <1>5, <1>6 DEF Next

\* Every variable of the destination has its type: rows are under way exactly while a
\* flush holds a name for them, and names and contents in the directory are proper.
THEOREM TypesHold == Spec => []TypeOK
<1>1. Init => DirectoryInv /\ FlagTypes
    <2>. SUFFICES ASSUME Init PROVE DirectoryInv /\ FlagTypes
        OBVIOUS
    <2>1. timerOn = FALSE /\ flushQueued = FALSE /\ flushPending = FALSE /\ file = NoFile
        BY DEF Init
    <2>2. failures \in 0..MaxFailures /\ crashes \in 0..MaxCrashes
        BY DestinationAssumption DEF Init
    <2>3. timerOn \in BOOLEAN /\ flushQueued \in BOOLEAN /\ flushPending \in BOOLEAN
        BY <2>1, Zenon
    <2>. QED  BY <2>1, <2>2, <2>3, DirectoryStart DEF FlagTypes
<1>2. DirectoryInv /\ FlagTypes /\ [Next]_vars => DirectoryInv' /\ FlagTypes'
    BY DirectorySteps, FlagSteps
<1>3. ASSUME DirectoryInv, FlagTypes PROVE TypeOK
    <2>1. rows # <<>> => file \in FileName /\ file # NoFile
        <3>1. \A n \in FileName : n # NoFile
            BY DEF FileName, NoFile
        <3>. QED  BY <1>3, <3>1 DEF DirectoryInv, NamesFit
    <2>2. rows # <<>> => flushQueued
        BY <1>3 DEF DirectoryInv, IInv, WriteInLoop
    <2>. QED  BY <1>3, <2>1, <2>2 DEF DirectoryInv, DirectoryTypes, IInv, SeqTypes, FlagTypes, TypeOK
<1>. QED  BY <1>1, <1>2, <1>3, PTL DEF Spec
=============================================================================
