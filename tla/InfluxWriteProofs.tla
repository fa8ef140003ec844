------------------------- MODULE InfluxWriteProofs -------------------------
(***************************************************************************)
(* Proofs about InfluxWrite, for any number of points, any batch sizes and *)
(* any number of retries: a call that returns has stored every point,      *)
(* points that are never accepted take no others with them, and no point   *)
(* is written more often than there are sizes to try.                      *)
(*                                                                         *)
(* The induction follows a pass: of the chunks behind it each has failed   *)
(* or is stored, and the points to come have not been written in it.       *)
(***************************************************************************)
EXTENDS InfluxWrite, FiniteSetTheorems, TLAPS

Working == at \in {"writing", "backoff"}

CallTypes ==
    /\ reliable \in BOOLEAN
    /\ poison \in SUBSET Point
    /\ pass \in ProgressiveSizes
    /\ chunk \in Chunks(Size)
    /\ attempt \in Nat
    /\ failed \in SUBSET (1..(chunk - 1))
    /\ at \in {"writing", "backoff", "returned", "threw"}
    /\ stored \in [Point -> Nat]
    /\ errors \in Nat

\* Of the chunks behind the pass each is stored or known to have failed, and, if only
\* poison makes InfluxDB fail, failed over poison.
PassSettled ==
    Working => \A i \in 1..(chunk - 1) :
        /\ i \in failed \/ \A p \in ChunkOf(Size, i) : stored[p] > 0
        /\ reliable => (i \in failed <=> ChunkOf(Size, i) \cap poison # {})

\* The sizes tried so far, and the points this pass has not come to.
Tried == {i \in ProgressiveSizes : i <= pass}
ToCome == {p \in Point : Working /\ (chunk - 1) * Size < p}

OncePerPass ==
    reliable => \A p \in Point :
        stored[p] <= Cardinality(Tried) - (IF p \in ToCome THEN 1 ELSE 0)

OnceWithoutPoison ==
    reliable /\ poison = {} => \A p \in Point : stored[p] <= (IF p \in ToCome THEN 0 ELSE 1)

IInv ==
    /\ CallTypes
    /\ PassSettled
    /\ OncePerPass
    /\ OnceWithoutPoison
    /\ ReturnedMeansStored
    /\ PoisonIsolated

-----------------------------------------------------------------------------
(* The sizes and the chunks.                                               *)

\* What a division rounds down to.
LEMMA Division ==
    ASSUME NEW a \in Nat, NEW b \in Nat \ {0}
    PROVE  /\ a \div b \in Nat
           /\ (a \div b) * b <= a
           /\ a < (a \div b) * b + b
BY SMT

\* The sizes to try are some of finitely many, the one configured is the first of
\* them and the last is 1.
LEMMA SizesToTry ==
    /\ ProgressiveSizes \in SUBSET Nat
    /\ IsFiniteSet(ProgressiveSizes)
    /\ \A i \in ProgressiveSizes : Sizes[i] \in Nat \ {0}
    /\ 1 \in ProgressiveSizes
    /\ LastSize = 1
<1>1. /\ Sizes \in Seq(Nat \ {0})
      /\ Len(Sizes) = Len(Steps) + 1 /\ Len(Steps) \in Nat \ {0}
      /\ DOMAIN Sizes = 1..Len(Sizes)
      /\ Sizes[1] = MaxBatchSize
      /\ Sizes[Len(Sizes)] = 1
  BY InfluxWriteAssumption DEF Sizes
<1>2. 1 \in ProgressiveSizes /\ Len(Sizes) \in ProgressiveSizes
  BY <1>1, InfluxWriteAssumption DEF ProgressiveSizes
<1>3. IsFiniteSet(ProgressiveSizes)
  <2>1. ProgressiveSizes \in SUBSET (1..Len(Sizes)) /\ 1 \in Int /\ Len(Sizes) \in Int
    BY <1>1 DEF ProgressiveSizes
  <2> QED BY <2>1, FS_Interval, FS_Subset
<1>4. LastSize = 1
  <2>1. \A i \in ProgressiveSizes : i \in Nat /\ i <= Len(Sizes)
    BY <1>1 DEF ProgressiveSizes
  <2>2. \E i \in ProgressiveSizes : \A j \in ProgressiveSizes : j <= i
    BY <1>2, <2>1
  <2>3. PICK last \in ProgressiveSizes :
            /\ last = CHOOSE i \in ProgressiveSizes : \A j \in ProgressiveSizes : j <= i
            /\ \A j \in ProgressiveSizes : j <= last
    BY <2>2
  <2>4. last = Len(Sizes)
    BY <1>1, <1>2, <2>1, <2>3
  <2> QED BY <1>1, <2>3, <2>4 DEF LastSize
<1> QED BY <1>1, <1>2, <1>3, <1>4 DEF ProgressiveSizes

\* The chunks of a size are numbered from 1 and hold every point.
LEMMA ChunksCover ==
    ASSUME NEW size \in Nat \ {0}
    PROVE  /\ Cardinality(Chunks(size)) \in Nat \ {0}
           /\ Chunks(size) = 1..Cardinality(Chunks(size))
           /\ Points <= Cardinality(Chunks(size)) * size
           /\ \A p \in Point : \E i \in Chunks(size) : p \in ChunkOf(size, i)
<1> DEFINE n == (Points + size - 1) \div size
<1>1. Points \in Nat \ {0}
  BY InfluxWriteAssumption
<1>2. n \in Nat /\ n * size <= Points + size - 1 /\ Points + size - 1 < n * size + size
  BY <1>1, Division
<1> HIDE DEF n
<1>3. Points <= n * size
  BY <1>1, <1>2, SMT
<1>4. n # 0
  BY <1>1, <1>3, SMT
<1>5. Chunks(size) = 1..n
  BY DEF Chunks, n
<1>6. Cardinality(Chunks(size)) = n
  BY <1>2, <1>4, <1>5, FS_Interval
<1>7. ASSUME NEW p \in Point PROVE \E i \in Chunks(size) : p \in ChunkOf(size, i)
  <2> DEFINE q == (p - 1) \div size
  <2>1. p \in Nat /\ 1 <= p /\ p <= Points
    BY <1>1 DEF Point
  <2>2. q \in Nat /\ q * size <= p - 1 /\ p - 1 < q * size + size
    BY <2>1, Division
  <2> HIDE DEF q
  <2>3. q * size < p /\ p <= (q + 1) * size
    BY <2>1, <2>2, SMT
  <2>4. q < n
    <3>1. SUFFICES ASSUME n <= q PROVE FALSE
      BY <1>2, <2>2
    <3>2. n * size <= q * size
      BY <1>2, <2>2, <3>1, SMT
    <3>3. q * size \in Int /\ n * size \in Int
      BY <1>2, <2>2
    <3> QED BY <1>1, <1>3, <2>1, <2>3, <3>2, <3>3
  <2>5. q + 1 \in Chunks(size) /\ p \in ChunkOf(size, q + 1)
    <3>1. q + 1 \in 1..n /\ (q + 1) - 1 = q
      BY <1>2, <2>2, <2>4
    <3> QED BY <1>5, <2>3, <3>1 DEF ChunkOf
  <2> QED BY <2>5
<1> QED BY <1>2, <1>3, <1>4, <1>5, <1>6, <1>7
-----------------------------------------------------------------------------
(* The end of one chunk.                                                   *)

\* The points of the chunk that is written are the next ones: they are still to come
\* before it is settled, and those left are what is to come after it.
LEMMA ChunkIsNext ==
    ASSUME CallTypes, Working
    PROVE  /\ Chunk \in SUBSET ToCome
           /\ \A p \in Point : p \in ToCome \ Chunk <=> chunk * Size < p
<1>1. Size \in Nat \ {0}
  BY SizesToTry DEF CallTypes, Size
<1>2. chunk \in Nat \ {0}
  BY <1>1, ChunksCover DEF CallTypes
<1>3. (chunk - 1) * Size <= chunk * Size
  BY <1>1, <1>2, SMT
<1>4. (chunk - 1) * Size \in Int /\ chunk * Size \in Int /\ Point \in SUBSET Int
  BY <1>1, <1>2 DEF Point
<1> DEFINE before == (chunk - 1) * Size
           after == chunk * Size
<1>5. Chunk = {p \in Point : before < p /\ p <= after}
  BY DEF Chunk, ChunkOf
<1>6. ToCome = {p \in Point : before < p}
  BY DEF ToCome
<1>7. before \in Int /\ after \in Int /\ before <= after
  BY <1>3, <1>4
<1> HIDE DEF before, after
<1>8. Chunk \in SUBSET ToCome /\ \A p \in Point : p \in ToCome \ Chunk <=> after < p
  BY <1>4, <1>5, <1>6, <1>7
<1> QED BY <1>8 DEF after

\* A chunk that is through, whether it was stored or has failed, keeps the invariant,
\* whatever comes next: another chunk, another size or the end of the call.
LEMMA Settling ==
    ASSUME IInv, at = "writing", UNCHANGED <<reliable, poison>>, errors' \in Nat,
           NEW S \in SUBSET Chunk, Store(S),
           NEW failures \in {failed, failed \cup {chunk}}, Settle(failures),
           chunk \in failures \/ S = Chunk,
           reliable => (chunk \in failures <=> Chunk \cap poison # {})
    PROVE  IInv'
<1> DEFINE n == Cardinality(Chunks(Size))
           Left == ToCome \ Chunk
<1>1. Working /\ CallTypes
  BY DEF IInv, Working
<1>2. Size \in Nat \ {0} /\ Sizes[pass] = Size
  BY <1>1, SizesToTry DEF CallTypes, Size
<1>3. /\ n \in Nat \ {0} /\ Chunks(Size) = 1..n /\ Points <= n * Size
      /\ chunk \in 1..n
  BY <1>1, <1>2, ChunksCover DEF CallTypes
<1>4. \A p \in Point : p \in Left <=> chunk * Size < p
  BY <1>1, ChunkIsNext
<1>5. Chunk \in SUBSET ToCome /\ Chunk \in SUBSET Point
  BY <1>1, ChunkIsNext DEF Chunk, ChunkOf
<1>6. /\ stored \in [Point -> Nat] /\ stored' \in [Point -> Nat]
      /\ \A p \in Point : stored'[p] = IF p \in S THEN stored[p] + 1 ELSE stored[p]
  BY <1>1 DEF CallTypes, Store
<1>7. /\ failed \in SUBSET (1..(chunk - 1)) /\ chunk \notin failed
      /\ failures \in SUBSET (1..chunk)
      /\ \A i \in 1..(chunk - 1) : i \in failures <=> i \in failed
  BY <1>1, <1>3 DEF CallTypes
\* What is known of the chunks of this pass now.
<1>8. \A i \in 1..chunk :
          /\ i \in failures \/ \A p \in ChunkOf(Size, i) : stored'[p] > 0
          /\ reliable => (i \in failures <=> ChunkOf(Size, i) \cap poison # {})
  <2> TAKE i \in 1..chunk
  <2>1. CASE i = chunk
    <3>1. chunk \in failures \/ \A p \in Chunk : stored'[p] > 0
      BY <1>5, <1>6
    <3> QED BY <2>1, <3>1 DEF Chunk
  <2>2. CASE i # chunk
    <3>1. i \in 1..(chunk - 1)
      BY <1>3, <2>2
    <3>2. /\ i \in failed \/ \A p \in ChunkOf(Size, i) : stored[p] > 0
          /\ reliable => (i \in failed <=> ChunkOf(Size, i) \cap poison # {})
      BY <1>1, <3>1 DEF IInv, PassSettled
    <3>3. \A p \in ChunkOf(Size, i) : p \in Point
      BY DEF ChunkOf
    <3> QED BY <1>6, <1>7, <3>1, <3>2, <3>3
  <2> QED BY <2>1, <2>2
<1>9. Cardinality(Tried) \in Nat /\ IsFiniteSet(Tried)
  <2>1. Tried \in SUBSET ProgressiveSizes
    BY DEF Tried
  <2> QED BY <2>1, SizesToTry, FS_Subset, FS_CardinalityType
<1>10. reliable => \A p \in Point :
          stored'[p] <= Cardinality(Tried) - (IF p \in Left THEN 1 ELSE 0)
  <2> SUFFICES ASSUME reliable, NEW p \in Point
               PROVE  stored'[p] <= Cardinality(Tried) - (IF p \in Left THEN 1 ELSE 0)
    OBVIOUS
  <2>1. stored[p] <= Cardinality(Tried) - (IF p \in ToCome THEN 1 ELSE 0)
    BY DEF IInv, OncePerPass
  <2>2. p \in S => p \in ToCome /\ p \notin Left
    BY <1>5
  <2>3. p \in Left => p \in ToCome
    OBVIOUS
  <2>4. stored[p] \in Nat /\ stored'[p] = IF p \in S THEN stored[p] + 1 ELSE stored[p]
    BY <1>6
  <2> HIDE DEF Left
  <2> QED BY <1>9, <2>1, <2>2, <2>3, <2>4
<1>11. reliable /\ poison = {} =>
          /\ failures = {}
          /\ \A p \in Point : stored'[p] <= (IF p \in Left THEN 0 ELSE 1)
  <2> SUFFICES ASSUME reliable, poison = {}
               PROVE  /\ failures = {}
                      /\ \A p \in Point : stored'[p] <= (IF p \in Left THEN 0 ELSE 1)
    OBVIOUS
  <2>1. failures = {}
    BY <1>7, <1>8
  <2>2. ASSUME NEW p \in Point PROVE stored'[p] <= (IF p \in Left THEN 0 ELSE 1)
    <3>1. stored[p] <= (IF p \in ToCome THEN 0 ELSE 1)
      BY DEF IInv, OnceWithoutPoison
    <3>2. p \in S => p \in ToCome /\ p \notin Left
      BY <1>5
    <3>3. p \in Left => p \in ToCome
      OBVIOUS
    <3>4. stored[p] \in Nat /\ stored'[p] = IF p \in S THEN stored[p] + 1 ELSE stored[p]
      BY <1>6
    <3> HIDE DEF Left
    <3> QED BY <3>1, <3>2, <3>3, <3>4
  <2> QED BY <2>1, <2>2
<1>12. attempt' = 0
  BY DEF Settle
\* Another chunk of the same size.
<1>13. CASE NextChunk(failures)
  <2>1. /\ chunk < n /\ chunk' = chunk + 1 /\ failed' = failures
        /\ at' = "writing" /\ pass' = pass /\ Size' = Size /\ Working'
    BY <1>13 DEF NextChunk, Size, Working
  <2>2. chunk' \in Chunks(Size)' /\ chunk' - 1 = chunk
    <3>1. Chunks(Size)' = Chunks(Size)
      BY <2>1 DEF Chunks, Size
    <3>2. chunk + 1 \in 1..n /\ (chunk + 1) - 1 = chunk
      BY <1>3, <2>1
    <3> QED BY <1>3, <2>1, <3>1, <3>2
  <2>3. CallTypes'
    BY <1>1, <1>6, <1>7, <1>12, <2>1, <2>2 DEF CallTypes, ProgressiveSizes, Point
  <2>4. ToCome' = Left
    BY <1>4, <2>1, <2>2 DEF ToCome, Point
  <2>5. Tried' = Tried
    BY <2>1 DEF Tried, ProgressiveSizes
  <2>6. PassSettled'
    BY <1>8, <2>1, <2>2 DEF PassSettled, ChunkOf, Point
  <2>7. OncePerPass' /\ OnceWithoutPoison'
    BY <1>10, <1>11, <2>4, <2>5 DEF OncePerPass, OnceWithoutPoison, Point
  <2>8. ReturnedMeansStored' /\ PoisonIsolated'
    BY <2>1 DEF ReturnedMeansStored, PoisonIsolated, Ended
  <2> QED BY <2>3, <2>6, <2>7, <2>8 DEF IInv
<1>14. CASE EndPass(failures)
  <2>1. chunk = n
    BY <1>14 DEF EndPass
  <2>2. Left = {}
    <3>1. \A p \in Point : p \in Nat /\ p <= n * Size
      BY <1>2, <1>3, InfluxWriteAssumption DEF Point
    <3>2. n * Size \in Int
      BY <1>2, <1>3
    <3>3. \A p \in Point : p \notin Left
      BY <1>4, <2>1, <3>1, <3>2
    <3> QED BY <3>3 DEF ToCome
  <2>3. \A p \in Point : \E i \in 1..chunk : p \in ChunkOf(Size, i)
    BY <1>2, <1>3, <2>1, ChunksCover
  <2>5. CASE failures = {}
    <3>1. at' = "returned" /\ UNCHANGED <<pass, chunk, failed>> /\ ~Working'
      BY <1>14, <2>5 DEF EndPass, Working
    <3>2. \A p \in Point : stored'[p] > 0
      BY <1>8, <2>3, <2>5
    <3>3. reliable => poison = {}
      BY <1>1, <1>8, <2>3, <2>5 DEF CallTypes
    <3>4. CallTypes'
      BY <1>1, <1>6, <1>12, <3>1 DEF CallTypes, ProgressiveSizes, Point, Chunks, Size
    <3>5. ToCome' = {} /\ Tried' = Tried
      BY <3>1 DEF ToCome, Tried, ProgressiveSizes
    <3>6. OncePerPass' /\ OnceWithoutPoison'
      BY <1>10, <1>11, <2>2, <3>5 DEF OncePerPass, OnceWithoutPoison, Point
    <3>7. PassSettled' /\ ReturnedMeansStored' /\ PoisonIsolated'
      BY <3>1, <3>2, <3>3 DEF PassSettled, ReturnedMeansStored, PoisonIsolated, Ended, Point
    <3> QED BY <3>4, <3>6, <3>7 DEF IInv
  <2>6. CASE failures # {} /\ Size = LastSize
    <3>1. at' = "threw" /\ UNCHANGED <<pass, chunk, failed>> /\ ~Working'
      BY <1>14, <2>6 DEF EndPass, Working
    <3>2. Size = 1
      BY <2>6, SizesToTry
    <3>3. \A p \in Point, i \in 1..chunk : p \in ChunkOf(Size, i) => ChunkOf(Size, i) = {p}
      BY <1>3, <3>2, InfluxWriteAssumption DEF ChunkOf, Point
    <3>4. reliable => \A p \in Point \ poison : stored'[p] > 0
      BY <1>8, <2>3, <3>3
    <3>5. reliable => poison # {}
      BY <1>7, <1>8, <2>6
    <3>6. CallTypes'
      BY <1>1, <1>6, <1>12, <3>1 DEF CallTypes, ProgressiveSizes, Point, Chunks, Size
    <3>7. ToCome' = {} /\ Tried' = Tried
      BY <3>1 DEF ToCome, Tried, ProgressiveSizes
    <3>8. OncePerPass' /\ OnceWithoutPoison'
      BY <1>10, <1>11, <2>2, <3>7 DEF OncePerPass, OnceWithoutPoison, Point
    <3>9. PassSettled' /\ ReturnedMeansStored' /\ PoisonIsolated'
      BY <3>1, <3>4, <3>5 DEF PassSettled, ReturnedMeansStored, PoisonIsolated, Ended, Point
    <3> QED BY <3>6, <3>8, <3>9 DEF IInv
  \* Once more with everything, in smaller chunks.
  <2>7. CASE failures # {} /\ Size # LastSize
    <3>1. /\ at' = "writing" /\ NextPass /\ chunk' = 1 /\ failed' = {} /\ Working'
      BY <1>14, <2>7 DEF EndPass, Working
    <3>2. pass \in ProgressiveSizes /\ pass' \in ProgressiveSizes /\ pass < pass'
      BY <1>1, <3>1 DEF NextPass, CallTypes
    <3>3. Size' \in Nat \ {0} /\ Size' = Sizes[pass']
      BY <3>2, SizesToTry DEF Size, Sizes
    <3>4. 1 \in Chunks(Size)'
      <4>1. 1 \in Chunks(Size')
        BY <3>3, ChunksCover
      <4> QED BY <4>1 DEF Chunks
    <3>5. CallTypes'
      BY <1>1, <1>6, <1>12, <3>1, <3>2, <3>4 DEF CallTypes, ProgressiveSizes, Point, Sizes
    <3>6. ToCome' = Point
      BY <3>1, <3>3 DEF ToCome, Point
    <3>7. Cardinality(Tried') >= Cardinality(Tried) + 1
      <4>1. ProgressiveSizes' = ProgressiveSizes
        BY DEF ProgressiveSizes, Sizes
      <4>2. Tried \cup {pass'} \in SUBSET Tried' /\ pass' \notin Tried
        <5>1. \A i \in ProgressiveSizes : i \in Nat
          BY SizesToTry
        <5>2. pass' \notin Tried /\ pass' \in Tried'
          BY <3>2, <4>1, <5>1 DEF Tried
        <5>3. \A i \in Tried : i \in Tried'
          BY <3>2, <4>1, <5>1 DEF Tried
        <5> QED BY <5>2, <5>3
      <4>3. IsFiniteSet(Tried')
        BY <4>1, SizesToTry, FS_Subset DEF Tried
      <4>4. Cardinality(Tried \cup {pass'}) = Cardinality(Tried) + 1
        BY <1>9, <4>2, FS_AddElement
      <4>5. Cardinality(Tried \cup {pass'}) <= Cardinality(Tried')
        BY <4>2, <4>3, FS_Subset
      <4> QED BY <4>4, <4>5
    <3>8. Cardinality(Tried)' = Cardinality(Tried') /\ Cardinality(Tried') \in Nat
      <4>1. IsFiniteSet(Tried')
        BY SizesToTry, FS_Subset DEF Tried, ProgressiveSizes, Sizes
      <4> QED BY <4>1, FS_CardinalityType
    <3>9. OncePerPass'
      <4> SUFFICES ASSUME reliable', NEW p \in Point'
                   PROVE  stored'[p] <= Cardinality(Tried') - (IF p \in ToCome' THEN 1 ELSE 0)
        BY DEF OncePerPass
      <4>1. stored'[p] <= Cardinality(Tried) /\ p \in ToCome' /\ stored'[p] \in Nat
        BY <1>6, <1>9, <1>10, <2>2, <3>6 DEF Point
      <4> QED BY <1>9, <3>7, <3>8, <4>1
    <3>10. OnceWithoutPoison'
      BY <1>11, <2>7 DEF OnceWithoutPoison
    <3>11. PassSettled' /\ ReturnedMeansStored' /\ PoisonIsolated'
      BY <3>1 DEF PassSettled, ReturnedMeansStored, PoisonIsolated, Ended
    <3> QED BY <3>5, <3>9, <3>10, <3>11 DEF IInv
  <2> QED BY <2>5, <2>6, <2>7
<1> QED BY <1>13, <1>14 DEF Settle
-----------------------------------------------------------------------------
(* The invariant.                                                          *)

\* The first pass starts with everything to come.
LEMMA InitHolds == Init => IInv
<1> SUFFICES ASSUME Init PROVE IInv
  OBVIOUS
<1>1. pass \in ProgressiveSizes /\ Size \in Nat \ {0}
  BY SizesToTry DEF Init, Size
<1>2. chunk \in Chunks(Size) /\ chunk = 1
  BY <1>1, ChunksCover DEF Init
<1>3. CallTypes
  BY <1>1, <1>2 DEF Init, CallTypes
<1>4. ToCome = Point /\ \A p \in Point : stored[p] = 0
  BY <1>1, <1>2 DEF Init, ToCome, Working, Point
<1>5. Cardinality(Tried) \in Nat /\ Cardinality(Tried) >= 1
  <2>1. Tried \in SUBSET ProgressiveSizes
    BY DEF Tried
  <2>2. IsFiniteSet(Tried) /\ Cardinality(Tried) \in Nat
    BY <2>1, SizesToTry, FS_Subset, FS_CardinalityType
  <2>3. 1 \in Tried
    BY SizesToTry DEF Init, Tried
  <2>4. Cardinality(Tried) # 0
    BY <2>2, <2>3, FS_EmptySet
  <2> QED BY <2>2, <2>4
<1>6. OncePerPass /\ OnceWithoutPoison
  BY <1>4, <1>5 DEF OncePerPass, OnceWithoutPoison
<1>7. PassSettled /\ ReturnedMeansStored /\ PoisonIsolated
  BY <1>2 DEF Init, PassSettled, ReturnedMeansStored, PoisonIsolated, Ended
<1> QED BY <1>3, <1>6, <1>7 DEF IInv

\* A write that comes again leaves everything in its place: what it may have stored
\* belongs to a chunk that is not settled, and it only happens while InfluxDB fails
\* for other reasons than poison.
LEMMA WaitingKeeps ==
    ASSUME IInv, at = "writing", ~reliable, at' = "backoff", attempt' \in Nat,
           UNCHANGED <<reliable, poison, pass, chunk, failed, errors>>,
           NEW S \in SUBSET Chunk, Store(S)
    PROVE  IInv'
<1>1. Working /\ CallTypes
  BY DEF IInv, Working
<1>2. /\ stored \in [Point -> Nat] /\ stored' \in [Point -> Nat]
      /\ \A p \in Point : stored'[p] >= stored[p]
  BY <1>1 DEF CallTypes, Store
<1>3. CallTypes'
  BY <1>1, <1>2 DEF CallTypes, ProgressiveSizes, Point, Chunks, Size
<1>4. PassSettled'
  <2> SUFFICES ASSUME NEW i \in 1..(chunk - 1), i \notin failed, NEW p \in ChunkOf(Size, i)
               PROVE  stored'[p] > 0
    BY DEF PassSettled, ChunkOf, Size, Point
  <2>1. stored[p] > 0 /\ p \in Point
    BY <1>1 DEF IInv, PassSettled, ChunkOf
  <2> QED BY <1>2, <2>1
<1>5. OncePerPass' /\ OnceWithoutPoison'
  BY DEF OncePerPass, OnceWithoutPoison
<1>6. ReturnedMeansStored' /\ PoisonIsolated'
  BY DEF ReturnedMeansStored, PoisonIsolated
<1> QED BY <1>3, <1>4, <1>5, <1>6 DEF IInv

LEMMA WriteSucceedsKeeps == ASSUME IInv, WriteSucceeds PROVE IInv'
<1>1. CallTypes
  BY DEF IInv
<1>2. chunk \notin failed
  <2>1. Size \in Nat \ {0}
    BY <1>1, SizesToTry DEF CallTypes, Size
  <2>2. chunk \in Nat
    BY <1>1, <2>1, ChunksCover DEF CallTypes
  <2> QED BY <1>1, <2>2 DEF CallTypes
<1>3. /\ at = "writing" /\ Chunk \cap poison = {} /\ Store(Chunk) /\ Settle(failed)
      /\ UNCHANGED <<reliable, poison>> /\ errors' \in Nat
  BY <1>1 DEF WriteSucceeds, CallTypes
<1>4. failed \in {failed, failed \cup {chunk}} /\ Chunk \in SUBSET Chunk
  OBVIOUS
<1> QED BY <1>2, <1>3, <1>4, Settling

LEMMA WriteTimesOutKeeps == ASSUME IInv, WriteTimesOut PROVE IInv'
<1>1. CallTypes
  BY DEF IInv
<1>2. at = "writing" /\ ~reliable /\ UNCHANGED <<reliable, poison>>
  BY DEF WriteTimesOut
<1>3. PICK S \in SUBSET Chunk : Store(S)
  <2>1. {} \in SUBSET Chunk /\ Chunk \ poison \in SUBSET Chunk
    OBVIOUS
  <2> QED BY <2>1 DEF WriteTimesOut
<1>4. CASE attempt < MaxRetries
  <2>1. /\ at' = "backoff" /\ attempt' = attempt + 1
        /\ UNCHANGED <<pass, chunk, failed, errors>>
    BY <1>4 DEF WriteTimesOut
  <2>2. attempt' \in Nat
    BY <1>1, <2>1 DEF CallTypes
  <2> QED BY <1>2, <1>3, <2>1, <2>2, WaitingKeeps
<1>5. CASE ~(attempt < MaxRetries)
  <2>1. errors' = errors + 1 /\ Settle(failed \cup {chunk})
    BY <1>5 DEF WriteTimesOut
  <2>2. errors' \in Nat
    BY <1>1, <2>1 DEF CallTypes
  <2>3. chunk \in failed \cup {chunk} /\ failed \cup {chunk} \in {failed, failed \cup {chunk}}
    OBVIOUS
  <2> QED BY <1>2, <1>3, <2>1, <2>2, <2>3, Settling
<1> QED BY <1>4, <1>5

LEMMA WriteRejectedKeeps == ASSUME IInv, WriteRejected PROVE IInv'
<1>1. CallTypes
  BY DEF IInv
<1>2. /\ at = "writing" /\ UNCHANGED <<reliable, poison>>
      /\ reliable => Chunk \cap poison # {}
      /\ errors' = errors + 1 /\ Settle(failed \cup {chunk})
  BY DEF WriteRejected
<1>3. PICK S \in SUBSET Chunk : Store(S)
  BY DEF WriteRejected
<1>4. errors' \in Nat
  BY <1>1, <1>2 DEF CallTypes
<1>5. chunk \in failed \cup {chunk} /\ failed \cup {chunk} \in {failed, failed \cup {chunk}}
  OBVIOUS
<1> QED BY <1>2, <1>3, <1>4, <1>5, Settling

\* The end of the backoff is the same place in the pass, and so is a stutter.
LEMMA RetryKeeps == ASSUME IInv, Retry \/ UNCHANGED vars PROVE IInv'
<1>1. /\ UNCHANGED <<reliable, poison, pass, chunk, attempt, failed, stored, errors>>
      /\ \/ at' = "writing" /\ at = "backoff"
         \/ at' = at
  BY DEF Retry, vars
<1>2. Working' <=> Working
  BY <1>1 DEF Working
<1>3. CallTypes'
  BY <1>1 DEF IInv, CallTypes, ProgressiveSizes, Point, Chunks, Size
<1>4. PassSettled'
  BY <1>1, <1>2 DEF IInv, PassSettled, ChunkOf, Size, Point
<1>5. ToCome' = ToCome /\ Tried' = Tried
  BY <1>1, <1>2 DEF ToCome, Tried, Size, ProgressiveSizes, Point
<1>6. OncePerPass' /\ OnceWithoutPoison'
  BY <1>1, <1>5 DEF IInv, OncePerPass, OnceWithoutPoison, Point
<1>7. ReturnedMeansStored' /\ PoisonIsolated'
  BY <1>1 DEF IInv, ReturnedMeansStored, PoisonIsolated, Ended, Point
<1> QED BY <1>3, <1>4, <1>6, <1>7 DEF IInv

-----------------------------------------------------------------------------
(* The theorems.                                                           *)

\* The inductive invariant of a call of writeBatchToInflux.
THEOREM InvariantHolds == Spec => []IInv
<1>1. IInv /\ [Next]_vars => IInv'
  BY WriteSucceedsKeeps, WriteTimesOutKeeps, WriteRejectedKeeps, RetryKeeps DEF Next
<1> QED BY InitHolds, <1>1, PTL DEF Spec

\* A call of writeBatchToInflux that returns has stored every point, however often
\* chunks failed, timed out or were rejected in part on the way.
THEOREM ReturnsOnlyWhenStored == Spec => []ReturnedMeansStored
<1>1. IInv => ReturnedMeansStored
  BY DEF IInv
<1> QED BY InvariantHolds, <1>1, PTL

\* Where only points that InfluxDB never accepts make it fail, all the others are
\* stored by the end, and the call throws exactly when there are such points.
THEOREM PoisonStaysIsolated == Spec => []PoisonIsolated
<1>1. IInv => PoisonIsolated
  BY DEF IInv
<1> QED BY InvariantHolds, <1>1, PTL

\* And then no point is written more than once for each size that is tried, or more
\* than once at all if no point is refused.
THEOREM DuplicatesStayBounded == Spec => []DuplicatesBounded
<1>1. IInv => DuplicatesBounded
  <2> SUFFICES ASSUME IInv, reliable, NEW p \in Point
               PROVE  stored[p] <= IF poison = {} THEN 1 ELSE Cardinality(ProgressiveSizes)
    BY DEF DuplicatesBounded
  <2>1. stored[p] \in Nat
    BY DEF IInv, CallTypes
  <2>2. CASE poison = {}
    <3>1. stored[p] <= (IF p \in ToCome THEN 0 ELSE 1)
      BY <2>2 DEF IInv, OnceWithoutPoison
    <3> QED BY <2>1, <2>2, <3>1
  <2>3. CASE poison # {}
    <3>1. stored[p] <= Cardinality(Tried) - (IF p \in ToCome THEN 1 ELSE 0)
      BY DEF IInv, OncePerPass
    <3>2. Tried \in SUBSET ProgressiveSizes
      BY DEF Tried
    <3>3. /\ Cardinality(Tried) <= Cardinality(ProgressiveSizes)
          /\ Cardinality(Tried) \in Nat /\ Cardinality(ProgressiveSizes) \in Nat
      BY <3>2, SizesToTry, FS_Subset, FS_CardinalityType
    <3> QED BY <2>1, <2>3, <3>1, <3>3
  <2> QED BY <2>2, <2>3
<1> QED BY InvariantHolds, <1>1, PTL
-----------------------------------------------------------------------------
(* Why every call ends.                                                    *)

\* The place of a call: its batch size, its chunk, its attempts at it, and whether it
\* is the wait before the next attempt that is over.
Advances ==
    /\ Working
    /\ Working' =>
          \/ pass < pass'
          \/ pass = pass' /\ chunk < chunk'
          \/ pass = pass' /\ chunk = chunk' /\ attempt < attempt'
          \/ pass = pass' /\ chunk = chunk' /\ attempt = attempt'
                /\ at = "backoff" /\ at' = "writing"

\* There are finitely many places.
InBounds ==
    /\ pass \in 1..Len(Sizes)
    /\ chunk \in 1..Points
    /\ attempt \in 0..MaxRetries

LEMMA SettleAdvances ==
    ASSUME CallTypes, NEW failures, Settle(failures), at = "writing"
    PROVE  Advances /\ attempt' = 0
<1>1. Working
  BY DEF Working
<1>2. pass \in Nat
  BY SizesToTry DEF CallTypes
<1>3. chunk \in Nat
  <2>1. Size \in Nat \ {0}
    BY SizesToTry DEF CallTypes, Size
  <2> QED BY <2>1, ChunksCover DEF CallTypes
<1>4. CASE NextChunk(failures)
  <2>1. pass' = pass /\ chunk < chunk'
    BY <1>3, <1>4 DEF NextChunk
  <2> QED BY <1>1, <2>1 DEF Advances, Settle
<1>5. CASE EndPass(failures)
  <2>1. at' \in {"returned", "threw"} \/ NextPass
    BY <1>5 DEF EndPass
  <2>2. CASE at' \in {"returned", "threw"}
    BY <1>1, <2>2 DEF Advances, Settle, Working
  <2>3. CASE NextPass
    BY <1>1, <2>3 DEF Advances, Settle, NextPass
  <2> QED BY <2>1, <2>2, <2>3
<1> QED BY <1>4, <1>5 DEF Settle

LEMMA NextAdvances ==
    ASSUME IInv, attempt \in 0..MaxRetries, Next
    PROVE  Advances /\ attempt' \in 0..MaxRetries
<1>1. CallTypes
  BY DEF IInv
<1>2. MaxRetries \in Nat /\ 0 \in 0..MaxRetries
  BY InfluxWriteAssumption
<1>3. CASE WriteSucceeds \/ WriteRejected
  <2>1. at = "writing" /\ \E failures \in {failed, failed \cup {chunk}} : Settle(failures)
    BY <1>3 DEF WriteSucceeds, WriteRejected
  <2> QED BY <1>1, <1>2, <2>1, SettleAdvances
<1>4. CASE WriteTimesOut /\ attempt < MaxRetries
  <2>1. /\ at = "writing" /\ at' = "backoff" /\ attempt' = attempt + 1
        /\ UNCHANGED <<pass, chunk>>
    BY <1>4 DEF WriteTimesOut
  <2>2. attempt < attempt' /\ attempt' \in 0..MaxRetries
    BY <1>2, <1>4, <2>1
  <2> QED BY <2>1, <2>2 DEF Advances, Working
<1>5. CASE WriteTimesOut /\ ~(attempt < MaxRetries)
  <2>1. at = "writing" /\ Settle(failed \cup {chunk})
    BY <1>5 DEF WriteTimesOut
  <2> QED BY <1>1, <1>2, <2>1, SettleAdvances
<1>6. CASE Retry
  <2>1. at = "backoff" /\ at' = "writing" /\ UNCHANGED <<pass, chunk, attempt>>
    BY <1>6 DEF Retry
  <2> QED BY <2>1 DEF Advances, Working
<1> QED BY <1>3, <1>4, <1>5, <1>6 DEF Next

LEMMA RetriesInvariant == Spec => [](IInv /\ attempt \in 0..MaxRetries)
<1>1. Init => attempt \in 0..MaxRetries
  BY InfluxWriteAssumption DEF Init
<1>2. IInv /\ attempt \in 0..MaxRetries /\ [Next]_vars => (attempt \in 0..MaxRetries)'
  BY NextAdvances DEF vars
<1> QED BY InvariantHolds, <1>1, <1>2, PTL DEF Spec

\* Every step of a call of writeBatchToInflux that has not ended gets further: to a
\* smaller size, the next chunk, the next attempt or out of its wait, and never back,
\* however InfluxDB behaves; once ended it takes no step.
THEOREM EveryStepAdvances == Spec => [][Advances]_vars
<1>1. IInv /\ attempt \in 0..MaxRetries /\ [Next]_vars => [Advances]_vars
  BY NextAdvances
<1> QED BY RetriesInvariant, <1>1, PTL DEF Spec

\* And there are only so many places to get to, so that a call has at most
\* 2 * (MaxRetries + 1) * Points * Len(Sizes) steps.
THEOREM PlacesAreBounded == Spec => []InBounds
<1>1. IInv /\ attempt \in 0..MaxRetries => InBounds
  <2> SUFFICES ASSUME IInv, attempt \in 0..MaxRetries
               PROVE  pass \in 1..Len(Sizes) /\ chunk \in 1..Points
    BY DEF InBounds
  <2>1. pass \in 1..Len(Sizes)
    <3>1. Sizes \in Seq(Nat \ {0})
      BY InfluxWriteAssumption DEF Sizes
    <3> QED BY <3>1 DEF IInv, CallTypes, ProgressiveSizes
  <2>2. Size \in Nat \ {0} /\ Points \in Nat \ {0}
    BY SizesToTry, InfluxWriteAssumption DEF IInv, CallTypes, Size
  <2>3. (Points + Size - 1) \div Size <= Points
    <3> DEFINE n == (Points + Size - 1) \div Size
    <3>1. n \in Nat /\ n * Size <= Points + Size - 1
      BY <2>2, Division
    <3> HIDE DEF n
    <3>2. SUFFICES ASSUME Points + 1 <= n PROVE FALSE
      BY <2>2, <3>1 DEF n
    <3>3. (Points + 1) * Size <= n * Size
      BY <2>2, <3>1, <3>2, SMT
    <3>4. (Points + 1) * Size = Points * Size + Size /\ Points <= Points * Size
      BY <2>2, SMT
    <3>5. Points * Size \in Int /\ n * Size \in Int
      BY <2>2, <3>1
    <3> QED BY <2>2, <3>1, <3>3, <3>4, <3>5
  <2>4. chunk \in Chunks(Size)
    BY DEF IInv, CallTypes
  <2>5. (Points + Size - 1) \div Size \in Int
    BY <2>2
  <2> QED BY <2>1, <2>2, <2>3, <2>4, <2>5 DEF Chunks
<1> QED BY RetriesInvariant, <1>1, PTL
=============================================================================
