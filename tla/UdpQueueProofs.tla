--------------------------- MODULE UdpQueueProofs ---------------------------
(***************************************************************************)
(* Proofs about UdpQueue for any set of messages and any configuration:    *)
(* types, exact counting across clears, the bound on the queue, the use of *)
(* p-queue's slots, the announcement of drops and the warnings before      *)
(* them, the steps of the refinement of BoundedIntake, and what the timer  *)
(* of QueueMetrics stores.                                                 *)
(***************************************************************************)
EXTENDS QueueMetrics, FiniteSetTheorems, SequenceTheorems, TLAPS

-----------------------------------------------------------------------------
(* Counting the messages of a stage when one of them moves.                *)

Weight(s, S) == IF s \in S THEN 1 ELSE 0

At(f, S) == {m \in Messages : f[m] \in S}

\* The messages in given stages are finitely many.
LEMMA AtFinite ==
    ASSUME NEW f, NEW S
    PROVE  IsFiniteSet(At(f, S)) /\ Cardinality(At(f, S)) \in Nat
<1>1. At(f, S) \in SUBSET Messages
    BY DEF At
<1>2. IsFiniteSet(At(f, S))
    BY <1>1, UdpQueueAssumption, FS_Subset DEF UdpQueueAssumption
<1>. QED  BY <1>2, FS_CardinalityType

\* When f and g differ at m alone, g has m where f had it not, and the reverse.
LEMMA MoveOne ==
    ASSUME NEW f, NEW g, NEW m \in Messages, NEW S,
           \A x \in Messages \ {m} : g[x] = f[x]
    PROVE  Cardinality(At(g, S))
             = Cardinality(At(f, S)) + Weight(g[m], S) - Weight(f[m], S)
<1>1. IsFiniteSet(At(f, S)) /\ Cardinality(At(f, S)) \in Nat
    BY AtFinite
<1>2. m \in At(f, S) <=> f[m] \in S
    BY DEF At
<1>3. CASE g[m] \in S
    <2>1. At(g, S) = At(f, S) \cup {m}
        BY <1>3 DEF At
    <2>2. Cardinality(At(f, S) \cup {m})
            = IF m \in At(f, S) THEN Cardinality(At(f, S)) ELSE Cardinality(At(f, S)) + 1
        BY <1>1, FS_AddElement
    <2>3. Cardinality(At(g, S))
            = IF f[m] \in S THEN Cardinality(At(f, S)) ELSE Cardinality(At(f, S)) + 1
        BY <1>2, <2>1, <2>2
    <2>. QED  BY <1>1, <1>3, <2>3 DEF Weight
<1>4. CASE g[m] \notin S
    <2>1. At(g, S) = At(f, S) \ {m}
        BY <1>4 DEF At
    <2>2. Cardinality(At(f, S) \ {m})
            = IF m \in At(f, S) THEN Cardinality(At(f, S)) - 1 ELSE Cardinality(At(f, S))
        BY <1>1, FS_RemoveElement
    <2>3. Cardinality(At(g, S))
            = IF f[m] \in S THEN Cardinality(At(f, S)) - 1 ELSE Cardinality(At(f, S))
        BY <1>2, <2>1, <2>2
    <2>. QED  BY <1>1, <1>4, <2>3 DEF Weight
<1>. QED  BY <1>3, <1>4

\* A step that moves m alone.
LEMMA StepOne ==
    ASSUME stage \in [Messages -> Stage], NEW m \in Messages, NEW s, NEW S, Goto(m, s)
    PROVE  /\ Cardinality(In(S)) \in Nat
           /\ Cardinality(In(S)')
                = Cardinality(In(S)) + Weight(s, S) - Weight(stage[m], S)
<1>1. In(S) = At(stage, S) /\ In(S)' = At(stage', S)
    BY DEF In, At
<1>2. stage'[m] = s /\ \A x \in Messages \ {m} : stage'[x] = stage[x]
    BY DEF Goto
<1>3. Cardinality(At(stage', S))
        = Cardinality(At(stage, S)) + Weight(stage'[m], S) - Weight(stage[m], S)
    BY <1>2, MoveOne
<1>. QED  BY <1>1, <1>2, <1>3, AtFinite

\* A step that moves m and starts another message h.
LEMMA StepTwo ==
    ASSUME NEW m \in Messages, NEW s, NEW h \in Messages, NEW t, NEW S,
           m # h, stage'[m] = s, stage'[h] = t,
           \A x \in Messages \ {m, h} : stage'[x] = stage[x]
    PROVE  /\ Cardinality(In(S)) \in Nat
           /\ Cardinality(In(S)')
                = Cardinality(In(S)) + Weight(s, S) - Weight(stage[m], S)
                                     + Weight(t, S) - Weight(stage[h], S)
<1>0. PICK f : f = [x \in Messages |-> IF x = m THEN s ELSE stage[x]]
    OBVIOUS
<1>1. f[m] = s /\ f[h] = stage[h] /\ stage'[h] = t
    BY <1>0
<1>a. \A x \in Messages \ {m} : f[x] = stage[x]
    BY <1>0
<1>b. \A x \in Messages \ {h} : stage'[x] = f[x]
    BY <1>0
<1>2. Cardinality(At(f, S))
        = Cardinality(At(stage, S)) + Weight(f[m], S) - Weight(stage[m], S)
    BY <1>a, MoveOne
<1>3. Cardinality(At(stage', S))
        = Cardinality(At(f, S)) + Weight(stage'[h], S) - Weight(f[h], S)
    BY <1>b, MoveOne
<1>4. In(S) = At(stage, S) /\ In(S)' = At(stage', S)
    BY DEF In, At
<1>5. Cardinality(At(stage, S)) \in Nat
    BY AtFinite
<1>. QED  BY <1>1, <1>2, <1>3, <1>4, <1>5 DEF Weight

-----------------------------------------------------------------------------
(* Types.                                                                  *)

\* A step to a known stage keeps the type of stage.
LEMMA GotoType ==
    ASSUME stage \in [Messages -> Stage], NEW m \in Messages, NEW s \in Stage, Goto(m, s)
    PROVE  stage' \in [Messages -> Stage]
BY DEF Goto

\* Counters stay natural numbers.
LEMMA BumpType ==
    ASSUME metrics \in [Counter -> Nat], NEW cs
    PROVE  Bump(cs) \in [Counter -> Nat]
BY DEF Bump

\* So do the counts of the drop log.
LEMMA DropLogType ==
    ASSUME TypeOK, CountAndLogDrop
    PROVE  dropLog' \in [since: Nat, last: Nat] /\ logged' \in Nat
<1>1. /\ dropLog \in [since: Nat, last: Nat]
      /\ now \in Nat
      /\ logged \in Nat
    BY DEF TypeOK
<1>2. CASE now - dropLog.last > Window
    BY <1>1, <1>2 DEF CountAndLogDrop
<1>3. CASE ~(now - dropLog.last > Window)
    BY <1>1, <1>3 DEF CountAndLogDrop
<1>. QED  BY <1>2, <1>3

\* checkLimit returns a limiter.
LEMMA LimiterType ==
    ASSUME limiter \in RL!Limiter, now \in Nat
    PROVE  RL!AfterCheck(limiter, now) \in RL!Limiter
<1>1. RL!Renewed(limiter, now) \in RL!Limiter
    BY DEF RL!Renewed, RL!NewLimiter, RL!Limiter
<1>. QED
    BY <1>1 DEF RL!AfterCheck, RL!Limiter

LEMMA TypeInit == Init => TypeOK
<1>. SUFFICES ASSUME Init  PROVE TypeOK
    OBVIOUS
<1>1. stage \in [Messages -> Stage] /\ queue \in Seq(Messages)
    BY DEF Init, Stage
<1>2. metrics \in [Counter -> Nat] /\ cleared \in [Counter -> Nat]
    BY DEF Init, Zero
<1>3. samples \in 0..BufferSize /\ now \in Nat /\ logged \in Nat
    BY UdpQueueAssumption DEF UdpQueueAssumption, Init
<1>4. limiter \in RL!Limiter /\ dropLog \in [since: Nat, last: Nat]
    BY DEF Init, RL!NewLimiter, RL!Limiter
<1>5. backpressureActive \in BOOLEAN
    BY DEF Init
<1>. QED  BY <1>1, <1>2, <1>3, <1>4, <1>5 DEF TypeOK

\* A step of one message's callback or job keeps the types.
LEMMA TypeMessageStep ==
    ASSUME TypeOK, NEW m \in Messages, MessageStep(m)
    PROVE  TypeOK'
<1>. USE DEF InFlight, Slot, Dropped, Finished
<1>1. CASE RejectSource(m)
    BY <1>1, GotoType DEF RejectSource, Receive, TypeOK, Stage
<1>2. CASE ReceiveOversize(m)
    BY <1>2, GotoType DEF ReceiveOversize, Receive, TypeOK, Stage
<1>3. CASE ReceiveInSize(m)
    <2>1. limiter' \in RL!Limiter
        BY <1>3, LimiterType DEF ReceiveInSize, Receive, TypeOK
    <2>2. stage' \in [Messages -> Stage]
        BY <1>3, GotoType DEF ReceiveInSize, TypeOK, Stage
    <2>. QED  BY <1>3, <2>1, <2>2 DEF ReceiveInSize, Receive, TypeOK
<1>4. CASE HandleSizeDrop(m)
    BY <1>4, GotoType, BumpType, DropLogType DEF HandleSizeDrop, TypeOK, Stage
<1>5. CASE HandleRateLimitDrop(m)
    BY <1>5, GotoType, BumpType, DropLogType DEF HandleRateLimitDrop, TypeOK, Stage
<1>6. CASE RefuseFull(m)
    BY <1>6, GotoType, BumpType, DropLogType DEF RefuseFull, TypeOK, Stage
<1>7. CASE Admit(m)
    <2>1. BackpressureAfter(Len(queue)) \in BOOLEAN
        BY DEF BackpressureAfter
    <2>. QED  BY <1>7, <2>1, GotoType, BumpType DEF Admit, TypeOK, Stage
<1>8. CASE Enqueue(m)
    <2>1. stage' \in [Messages -> Stage]
        BY <1>8, GotoType DEF Enqueue, TypeOK, Stage
    <2>2. queue' \in Seq(Messages)
        <3>1. queue \in Seq(Messages) /\ Append(queue, m) \in Seq(Messages)
            BY DEF TypeOK
        <3>2. queue' = queue \/ queue' = Append(queue, m)
            BY <1>8 DEF Enqueue
        <3>. QED  BY <3>1, <3>2
    <2>. QED  BY <1>8, <2>1, <2>2 DEF Enqueue, TypeOK
<1>9. CASE ProcessingSettles(m)
    BY <1>9, GotoType DEF ProcessingSettles, TypeOK, Stage
<1>10. CASE CountProcessed(m)
    <2>1. samples' \in 0..BufferSize
        BY <1>10, UdpQueueAssumption DEF UdpQueueAssumption, CountProcessed, TypeOK
    <2>. QED  BY <1>10, <2>1, GotoType, BumpType DEF CountProcessed, TypeOK, Stage
<1>11. CASE CountFailed(m)
    BY <1>11, GotoType, BumpType DEF CountFailed, TypeOK, Stage
<1>12. CASE FreeSlot(m)
    <2>1. queue # <<>> => /\ Head(queue) \in Messages
                           /\ Tail(queue) \in Seq(Messages)
        <3>1. queue \in Seq(Messages)
            BY DEF TypeOK
        <3>2. CASE queue # <<>>
            BY <3>1, <3>2, HeadTailProperties
        <3>3. CASE queue = <<>>
            BY <3>3
        <3>. QED  BY <3>2, <3>3
    <2>2. stage' \in [Messages -> Stage]
        BY <1>12, <2>1 DEF FreeSlot, Goto, TypeOK, Stage
    <2>3. queue' \in Seq(Messages)
        BY <1>12, <2>1 DEF FreeSlot, TypeOK
    <2>. QED  BY <1>12, <2>2, <2>3 DEF FreeSlot, TypeOK
<1>. QED
    BY <1>1, <1>2, <1>3, <1>4, <1>5, <1>6, <1>7, <1>8, <1>9, <1>10, <1>11, <1>12
    DEF MessageStep

LEMMA TypeNext == TypeOK /\ [Next]_vars => TypeOK'
<1>. SUFFICES ASSUME TypeOK, [Next]_vars  PROVE TypeOK'
    OBVIOUS
<1>1. CASE \E m \in Messages : MessageStep(m)
    BY <1>1, TypeMessageStep
<1>2. CASE Tick
    BY <1>2 DEF Tick, TypeOK
<1>3. CASE ClearMetrics
    BY <1>3, UdpQueueAssumption DEF UdpQueueAssumption, ClearMetrics, TypeOK, Zero
<1>4. CASE UNCHANGED vars
    BY <1>4 DEF vars, TypeOK
<1>. QED  BY <1>1, <1>2, <1>3, <1>4 DEF Next, QueueNext

\* The variables of the queue manager keep their types: in particular the
\* buffer of processing times never outgrows its capacity.
THEOREM TypeCorrect == Spec => []TypeOK
BY TypeInit, TypeNext, PTL DEF Spec

-----------------------------------------------------------------------------
(* The queue and the stages.                                               *)

\* The queue holds the waiting messages, each once.
QueueInv ==
    /\ \A i \in 1..Len(queue) : stage[queue[i]] = "waiting"
    /\ \A i, j \in 1..Len(queue) : queue[i] = queue[j] => i = j
    /\ \A x \in In({"waiting"}) : \E i \in 1..Len(queue) : queue[i] = x
    /\ Len(queue) = Cardinality(In({"waiting"}))

\* FreeSlot ends m and, when a message waits, starts the one that waited longest.
LEMMA FreeSlotMoves ==
    ASSUME TypeOK, QueueInv, NEW m \in Messages, FreeSlot(m)
    PROVE  \E s \in Finished :
             /\ stage[m] = "okCounted" => s = "processed"
             /\ stage[m] = "koCounted" => s = "failed"
             /\ stage[m] \in {"okCounted", "koCounted"}
             /\ \/ queue = <<>> /\ queue' = queue /\ Goto(m, s)
                \/ /\ queue # <<>> /\ queue' = Tail(queue)
                   /\ Head(queue) \in Messages /\ Head(queue) # m
                   /\ stage[Head(queue)] = "waiting"
                   /\ stage'[m] = s /\ stage'[Head(queue)] = "running"
                   /\ \A x \in Messages \ {m, Head(queue)} : stage'[x] = stage[x]
<1>. DEFINE s == IF stage[m] = "okCounted" THEN "processed" ELSE "failed"
<1>1. /\ stage \in [Messages -> Stage]
      /\ queue \in Seq(Messages)
      /\ stage[m] \in {"okCounted", "koCounted"}
    BY DEF FreeSlot, TypeOK
<1>2. CASE queue = <<>>
    BY <1>1, <1>2 DEF FreeSlot, Finished
<1>3. CASE queue # <<>>
    <2>1. Head(queue) \in Messages /\ Head(queue) = queue[1] /\ 1 \in 1..Len(queue)
        BY <1>1, <1>3, HeadTailProperties
    <2>2. stage[Head(queue)] = "waiting" /\ Head(queue) # m
        BY <1>1, <2>1 DEF QueueInv
    <2>3. /\ stage' = [stage EXCEPT ![m] = s, ![Head(queue)] = "running"]
          /\ queue' = Tail(queue)
        BY <1>3 DEF FreeSlot
    <2>4. /\ stage'[m] = s /\ stage'[Head(queue)] = "running"
          /\ \A x \in Messages \ {m, Head(queue)} : stage'[x] = stage[x]
        BY <1>1, <2>1, <2>2, <2>3
    <2>. QED  BY <1>1, <1>3, <2>1, <2>2, <2>3, <2>4 DEF Finished
<1>. QED  BY <1>2, <1>3

-----------------------------------------------------------------------------
(* Exact counting.                                                         *)

\* A step of one message keeps the counts exact when each counter grows by the
\* counted stages the message enters, less those it leaves.
LEMMA CountStep ==
    ASSUME TypeOK, CountsExact, NEW m \in Messages, NEW s, Goto(m, s),
           metrics' \in [Counter -> Nat], UNCHANGED cleared,
           \A c \in Counter :
               metrics'[c] = metrics[c] + Weight(s, CountedStages(c))
                                        - Weight(stage[m], CountedStages(c))
    PROVE  CountsExact'
<1>. SUFFICES ASSUME NEW c \in Counter
              PROVE  metrics'[c] + cleared'[c] = Cardinality(In(CountedStages(c))')
    BY DEF CountsExact, Counted
<1>1. Cardinality(In(CountedStages(c))')
        = Cardinality(In(CountedStages(c)))
             + Weight(s, CountedStages(c)) - Weight(stage[m], CountedStages(c))
    BY StepOne DEF TypeOK
<1>2. metrics[c] + cleared[c] = Cardinality(In(CountedStages(c)))
    BY DEF CountsExact, Counted
<1>3. metrics[c] \in Nat /\ cleared[c] \in Nat /\ metrics'[c] \in Nat
    BY DEF TypeOK
<1>. QED  BY <1>1, <1>2, <1>3 DEF Weight

\* What Bump adds.
LEMMA BumpBy ==
    ASSUME metrics \in [Counter -> Nat], NEW cs, metrics' = Bump(cs)
    PROVE  /\ metrics' \in [Counter -> Nat]
           /\ \A c \in Counter : metrics'[c] = metrics[c] + Weight(c, cs)
BY DEF Bump, Weight

\* The steps that count nothing move a message between stages that every
\* counter treats alike.
LEMMA QuietStep ==
    ASSUME TypeOK, CountsExact, NEW m \in Messages, NEW s, Goto(m, s),
           UNCHANGED <<metrics, cleared>>,
           \A c \in Counter : s \in CountedStages(c) <=> stage[m] \in CountedStages(c)
    PROVE  CountsExact'
<1>1. \A c \in Counter :
          metrics'[c] = metrics[c] + Weight(s, CountedStages(c))
                                   - Weight(stage[m], CountedStages(c))
    BY DEF Weight, TypeOK
<1>. QED  BY <1>1, CountStep DEF TypeOK

\* FreeSlot counts nothing: both messages it moves stay where every counter
\* has them.
LEMMA CountsFreeSlot ==
    ASSUME TypeOK, QueueInv, CountsExact, NEW m \in Messages, FreeSlot(m)
    PROVE  CountsExact'
<1>. USE DEF Counter, CountedStages, Slot, Dropped, Finished
<1>1. UNCHANGED <<metrics, cleared>> /\ stage \in [Messages -> Stage]
    BY DEF FreeSlot, TypeOK
<1>2. PICK s \in Finished :
             /\ stage[m] = "okCounted" => s = "processed"
             /\ stage[m] = "koCounted" => s = "failed"
             /\ stage[m] \in {"okCounted", "koCounted"}
             /\ \/ queue = <<>> /\ queue' = queue /\ Goto(m, s)
                \/ /\ queue # <<>> /\ queue' = Tail(queue)
                   /\ Head(queue) \in Messages /\ Head(queue) # m
                   /\ stage[Head(queue)] = "waiting"
                   /\ stage'[m] = s /\ stage'[Head(queue)] = "running"
                   /\ \A x \in Messages \ {m, Head(queue)} : stage'[x] = stage[x]
    BY FreeSlotMoves
<1>3. CASE Goto(m, s)
    BY <1>1, <1>2, <1>3, QuietStep
<1>4. CASE ~Goto(m, s)
    <2>. SUFFICES ASSUME NEW c \in Counter
                  PROVE  metrics[c] + cleared[c] = Cardinality(In(CountedStages(c))')
        BY <1>1 DEF CountsExact, Counted
    <2>. DEFINE S == CountedStages(c)
    <2>1. Cardinality(In(S)')
            = Cardinality(In(S)) + Weight(s, S) - Weight(stage[m], S)
                                 + Weight("running", S) - Weight(stage[Head(queue)], S)
        <3>. HIDE DEF S
        <3>. QED  BY <1>2, <1>4, StepTwo
    <2>2. Cardinality(In(S)) \in Nat
        <3>1. In(S) = At(stage, S)
            BY DEF In, At
        <3>. QED  BY <3>1, AtFinite
    <2>3. /\ Weight(s, S) = Weight(stage[m], S)
          /\ Weight("running", S) = Weight(stage[Head(queue)], S)
          /\ Weight(s, S) \in Nat /\ Weight("running", S) \in Nat
        BY <1>2, <1>4 DEF Weight
    <2>4. metrics[c] + cleared[c] = Cardinality(In(S))
        BY DEF CountsExact, Counted
    <2>. HIDE DEF S
    <2>5. Cardinality(In(S)') = Cardinality(In(S))
        BY <2>1, <2>2, <2>3
    <2>. QED  BY <2>4, <2>5 DEF S
<1>. QED  BY <1>3, <1>4

LEMMA CountsMessageStep ==
    ASSUME TypeOK, QueueInv, CountsExact, NEW m \in Messages, MessageStep(m)
    PROVE  CountsExact'
<1>. USE DEF Counter, CountedStages, Slot, Dropped, Finished
<1>1. CASE RejectSource(m)
    BY <1>1, QuietStep DEF RejectSource, Receive
<1>2. CASE ReceiveOversize(m)
    BY <1>2, QuietStep DEF ReceiveOversize, Receive
<1>3. CASE ReceiveInSize(m)
    <2>1. CASE Goto(m, "arrived")
        BY <1>3, <2>1, QuietStep DEF ReceiveInSize, Receive
    <2>2. CASE Goto(m, "limited")
        BY <1>3, <2>2, QuietStep DEF ReceiveInSize, Receive
    <2>. QED  BY <1>3, <2>1, <2>2 DEF ReceiveInSize
<1>4. CASE HandleSizeDrop(m)
    <2>1. /\ stage[m] = "oversize" /\ Goto(m, "dropSize") /\ UNCHANGED cleared
          /\ metrics' = Bump({"received", "dropped", "dropSize"})
        BY <1>4 DEF HandleSizeDrop
    <2>2. /\ metrics' \in [Counter -> Nat]
          /\ \A c \in Counter : metrics'[c] = metrics[c] + Weight(c, {"received", "dropped", "dropSize"})
        BY <2>1, BumpBy DEF TypeOK
    <2>3. \A c \in Counter : Weight(c, {"received", "dropped", "dropSize"})
             = Weight("dropSize", CountedStages(c)) - Weight("oversize", CountedStages(c))
        BY DEF Weight
    <2>. QED  BY <2>1, <2>2, <2>3, CountStep
<1>5. CASE HandleRateLimitDrop(m)
    <2>1. /\ stage[m] = "limited" /\ Goto(m, "dropRate") /\ UNCHANGED cleared
          /\ metrics' = Bump({"received", "dropped", "dropRate"})
        BY <1>5 DEF HandleRateLimitDrop
    <2>2. /\ metrics' \in [Counter -> Nat]
          /\ \A c \in Counter : metrics'[c] = metrics[c] + Weight(c, {"received", "dropped", "dropRate"})
        BY <2>1, BumpBy DEF TypeOK
    <2>3. \A c \in Counter : Weight(c, {"received", "dropped", "dropRate"})
             = Weight("dropRate", CountedStages(c)) - Weight("limited", CountedStages(c))
        BY DEF Weight
    <2>. QED  BY <2>1, <2>2, <2>3, CountStep
<1>6. CASE RefuseFull(m)
    <2>1. /\ stage[m] = "arrived" /\ Goto(m, "dropFull") /\ UNCHANGED cleared
          /\ metrics' = Bump({"received", "dropped", "dropFull"})
        BY <1>6 DEF RefuseFull
    <2>2. /\ metrics' \in [Counter -> Nat]
          /\ \A c \in Counter : metrics'[c] = metrics[c] + Weight(c, {"received", "dropped", "dropFull"})
        BY <2>1, BumpBy DEF TypeOK
    <2>3. \A c \in Counter : Weight(c, {"received", "dropped", "dropFull"})
             = Weight("dropFull", CountedStages(c)) - Weight("arrived", CountedStages(c))
        BY DEF Weight
    <2>. QED  BY <2>1, <2>2, <2>3, CountStep
<1>7. CASE Admit(m)
    <2>1. /\ stage[m] = "arrived" /\ Goto(m, "admitted") /\ UNCHANGED cleared
          /\ metrics' = Bump({"received", "queued"})
        BY <1>7 DEF Admit
    <2>2. /\ metrics' \in [Counter -> Nat]
          /\ \A c \in Counter : metrics'[c] = metrics[c] + Weight(c, {"received", "queued"})
        BY <2>1, BumpBy DEF TypeOK
    <2>3. \A c \in Counter : Weight(c, {"received", "queued"})
             = Weight("admitted", CountedStages(c)) - Weight("arrived", CountedStages(c))
        BY DEF Weight
    <2>. QED  BY <2>1, <2>2, <2>3, CountStep
<1>8. CASE Enqueue(m)
    <2>1. CASE Goto(m, "running")
        BY <1>8, <2>1, QuietStep DEF Enqueue
    <2>2. CASE Goto(m, "waiting")
        BY <1>8, <2>2, QuietStep DEF Enqueue
    <2>. QED  BY <1>8, <2>1, <2>2 DEF Enqueue
<1>9. CASE ProcessingSettles(m)
    <2>1. CASE Goto(m, "ok")
        BY <1>9, <2>1, QuietStep DEF ProcessingSettles
    <2>2. CASE Goto(m, "ko")
        BY <1>9, <2>2, QuietStep DEF ProcessingSettles
    <2>. QED  BY <1>9, <2>1, <2>2 DEF ProcessingSettles
<1>10. CASE CountProcessed(m)
    <2>1. /\ stage[m] = "ok" /\ Goto(m, "okCounted") /\ UNCHANGED cleared
          /\ metrics' = Bump({"processed"})
        BY <1>10 DEF CountProcessed
    <2>2. /\ metrics' \in [Counter -> Nat]
          /\ \A c \in Counter : metrics'[c] = metrics[c] + Weight(c, {"processed"})
        BY <2>1, BumpBy DEF TypeOK
    <2>3. \A c \in Counter : Weight(c, {"processed"})
             = Weight("okCounted", CountedStages(c)) - Weight("ok", CountedStages(c))
        BY DEF Weight
    <2>. QED  BY <2>1, <2>2, <2>3, CountStep
<1>11. CASE CountFailed(m)
    <2>1. /\ stage[m] = "ko" /\ Goto(m, "koCounted") /\ UNCHANGED cleared
          /\ metrics' = Bump({"failed"})
        BY <1>11 DEF CountFailed
    <2>2. /\ metrics' \in [Counter -> Nat]
          /\ \A c \in Counter : metrics'[c] = metrics[c] + Weight(c, {"failed"})
        BY <2>1, BumpBy DEF TypeOK
    <2>3. \A c \in Counter : Weight(c, {"failed"})
             = Weight("koCounted", CountedStages(c)) - Weight("ko", CountedStages(c))
        BY DEF Weight
    <2>. QED  BY <2>1, <2>2, <2>3, CountStep
<1>12. CASE FreeSlot(m)
    BY <1>12, CountsFreeSlot
<1>. QED
    BY <1>1, <1>2, <1>3, <1>4, <1>5, <1>6, <1>7, <1>8, <1>9, <1>10, <1>11, <1>12
    DEF MessageStep

-----------------------------------------------------------------------------
(* Queue, slots and the callbacks in flight.                               *)

InFlightBounded == Cardinality(In(InFlight)) <= MaxInFlight

\* The inductive invariant.  QueueInv says which job FreeSlot starts, and
\* InFlightBounded bounds the callers past the size check.
IInv == TypeOK /\ InFlightBounded /\ QueueInv /\ SlotsUsedWell /\ QueueBounded

\* A step that leaves the queue alone and moves no waiting message.
LEMMA QueueAlone ==
    ASSUME TypeOK, QueueInv, NEW m \in Messages, NEW s, Goto(m, s),
           s # "waiting", stage[m] # "waiting", UNCHANGED queue
    PROVE  QueueInv'
<1>1. stage \in [Messages -> Stage] /\ queue \in Seq(Messages)
    BY DEF TypeOK
<1>2. In({"waiting"})' = In({"waiting"})
    BY <1>1 DEF In, Goto
<1>3. \A i \in 1..Len(queue) : queue[i] \in Messages /\ queue[i] # m
    BY <1>1 DEF QueueInv
<1>4. \A i \in 1..Len(queue) : stage'[queue[i]] = "waiting"
    BY <1>1, <1>3 DEF QueueInv, Goto
<1>. QED  BY <1>2, <1>4 DEF QueueInv

\* Enqueue on a full set of slots appends the message that starts to wait.
LEMMA QueueAppend ==
    ASSUME TypeOK, QueueInv, NEW m \in Messages, Goto(m, "waiting"),
           stage[m] # "waiting", queue' = Append(queue, m)
    PROVE  QueueInv'
<1>1. stage \in [Messages -> Stage] /\ queue \in Seq(Messages)
    BY DEF TypeOK
<1>2. /\ Len(queue') = Len(queue) + 1
      /\ \A i \in 1..Len(queue) : queue'[i] = queue[i]
      /\ queue'[Len(queue) + 1] = m
      /\ Len(queue) \in Nat
    BY <1>1, AppendProperties
<1>3. \A i \in 1..Len(queue) : queue[i] \in Messages /\ queue[i] # m
    BY <1>1 DEF QueueInv
<1>4. \A i \in 1..Len(queue') : stage'[queue'[i]] = "waiting"
    BY <1>1, <1>2, <1>3 DEF QueueInv, Goto
<1>5. \A i, j \in 1..Len(queue') : queue'[i] = queue'[j] => i = j
    BY <1>2, <1>3 DEF QueueInv
<1>6. \A x \in In({"waiting"})' : \E i \in 1..Len(queue') : queue'[i] = x
    <2>1. In({"waiting"})' = In({"waiting"}) \cup {m}
        BY <1>1 DEF In, Goto
    <2>. QED  BY <1>2, <2>1 DEF QueueInv
<1>7. Len(queue') = Cardinality(In({"waiting"})')
    <2>1. Cardinality(In({"waiting"})') = Cardinality(In({"waiting"}))
             + Weight("waiting", {"waiting"}) - Weight(stage[m], {"waiting"})
        BY <1>1, StepOne
    <2>. QED  BY <1>2, <2>1 DEF QueueInv, Weight
<1>. QED  BY <1>4, <1>5, <1>6, <1>7 DEF QueueInv

\* FreeSlot takes the head off when it starts it.
LEMMA QueueTail ==
    ASSUME TypeOK, QueueInv, NEW m \in Messages, NEW s,
           queue # <<>>, queue' = Tail(queue), Head(queue) \in Messages, Head(queue) # m,
           stage[m] # "waiting", s # "waiting",
           stage'[m] = s, stage'[Head(queue)] = "running",
           \A x \in Messages \ {m, Head(queue)} : stage'[x] = stage[x]
    PROVE  QueueInv'
<1>1. stage \in [Messages -> Stage] /\ queue \in Seq(Messages)
    BY DEF TypeOK
<1>2. /\ Len(queue') = Len(queue) - 1
      /\ \A i \in 1..Len(queue') : queue'[i] = queue[i + 1]
      /\ Head(queue) = queue[1]
      /\ Len(queue) \in Nat \ {0}
    BY <1>1, HeadTailProperties
<1>3. \A i \in 1..Len(queue) : queue[i] \in Messages /\ queue[i] # m
    BY <1>1 DEF QueueInv
<1>4. \A i \in 1..Len(queue') : stage'[queue'[i]] = "waiting"
    <2>. SUFFICES ASSUME NEW i \in 1..Len(queue')
                  PROVE  stage'[queue[i + 1]] = "waiting"
        BY <1>2
    <2>1. i + 1 \in 1..Len(queue) /\ 1 \in 1..Len(queue) /\ i + 1 # 1
        BY <1>2
    <2>2. queue[i + 1] # queue[1]
        BY <2>1 DEF QueueInv
    <2>3. queue[i + 1] \in Messages \ {m, Head(queue)}
        BY <1>2, <1>3, <2>1, <2>2
    <2>. QED  BY <2>1, <2>3 DEF QueueInv
<1>5. \A i, j \in 1..Len(queue') : queue'[i] = queue'[j] => i = j
    <2>. SUFFICES ASSUME NEW i \in 1..Len(queue'), NEW j \in 1..Len(queue'),
                         queue'[i] = queue'[j]
                  PROVE  i = j
        OBVIOUS
    <2>1. i + 1 \in 1..Len(queue) /\ j + 1 \in 1..Len(queue) /\ queue[i + 1] = queue[j + 1]
        BY <1>2
    <2>2. i + 1 = j + 1
        BY <2>1 DEF QueueInv
    <2>. QED  BY <2>2
<1>6. In({"waiting"})' = In({"waiting"}) \ {Head(queue)}
    BY <1>1 DEF In
<1>7. \A x \in In({"waiting"})' : \E i \in 1..Len(queue') : queue'[i] = x
    <2>. SUFFICES ASSUME NEW x \in In({"waiting"}), x # Head(queue)
                  PROVE  \E i \in 1..Len(queue') : queue'[i] = x
        BY <1>6
    <2>1. PICK i \in 1..Len(queue) : queue[i] = x
        BY DEF QueueInv
    <2>2. i - 1 \in 1..Len(queue') /\ queue'[i - 1] = x
        BY <1>2, <2>1
    <2>. QED  BY <2>2
<1>8. Len(queue') = Cardinality(In({"waiting"})')
    <2>1. stage[Head(queue)] = "waiting"
        BY <1>2 DEF QueueInv
    <2>2. Cardinality(In({"waiting"})') = Cardinality(In({"waiting"}))
             + Weight(s, {"waiting"}) - Weight(stage[m], {"waiting"})
             + Weight("running", {"waiting"}) - Weight(stage[Head(queue)], {"waiting"})
        BY StepTwo
    <2>. QED  BY <1>2, <2>1, <2>2 DEF QueueInv, Weight
<1>. QED  BY <1>4, <1>5, <1>7, <1>8 DEF QueueInv

\* How the steps other than Enqueue and FreeSlot move their message.
PlainMove(m, s) ==
    /\ Goto(m, s)
    /\ UNCHANGED queue
    /\ \/ stage[m] = "unsent" /\ s = "rejected"
       \/ /\ stage[m] = "unsent" /\ s \in InFlight \ {"admitted"}
          /\ Cardinality(In(InFlight)) < MaxInFlight
       \/ stage[m] \in InFlight \ {"admitted"} /\ s \in Dropped
       \/ stage[m] = "arrived" /\ s = "admitted" /\ Len(queue) < MaxSize
       \/ stage[m] \in Slot /\ s \in Slot

LEMMA StepIsPlain ==
    ASSUME NEW m \in Messages, MessageStep(m), ~Enqueue(m), ~FreeSlot(m)
    PROVE  \E s : PlainMove(m, s)
<1>. USE DEF PlainMove, InFlight, Slot, Dropped
<1>1. CASE RejectSource(m)
    BY <1>1 DEF RejectSource, Receive
<1>2. CASE ReceiveOversize(m)
    BY <1>2 DEF ReceiveOversize, Receive
<1>3. CASE ReceiveInSize(m)
    <2>1. Goto(m, "arrived") \/ Goto(m, "limited")
        BY <1>3 DEF ReceiveInSize
    <2>. QED  BY <1>3, <2>1 DEF ReceiveInSize, Receive
<1>4. CASE HandleSizeDrop(m)
    BY <1>4 DEF HandleSizeDrop
<1>5. CASE HandleRateLimitDrop(m)
    BY <1>5 DEF HandleRateLimitDrop
<1>6. CASE RefuseFull(m)
    BY <1>6 DEF RefuseFull
<1>7. CASE Admit(m)
    BY <1>7 DEF Admit
<1>8. CASE ProcessingSettles(m)
    BY <1>8 DEF ProcessingSettles
<1>9. CASE CountProcessed(m)
    BY <1>9 DEF CountProcessed
<1>10. CASE CountFailed(m)
    BY <1>10 DEF CountFailed
<1>. QED
    BY <1>1, <1>2, <1>3, <1>4, <1>5, <1>6, <1>7, <1>8, <1>9, <1>10 DEF MessageStep

\* The three other moves: a job that starts at once, one that has to wait, and
\* the two forms of FreeSlot (FreeSlotMoves).
LEMMA EnqueueMoves ==
    ASSUME NEW m \in Messages, Enqueue(m)
    PROVE  /\ stage[m] = "admitted"
           /\ \/ /\ Cardinality(In(Slot)) < MaxConcurrent
                 /\ Goto(m, "running") /\ UNCHANGED queue
              \/ /\ ~(Cardinality(In(Slot)) < MaxConcurrent)
                 /\ Goto(m, "waiting") /\ queue' = Append(queue, m)
BY DEF Enqueue

LEMMA QueueMessageStep ==
    ASSUME TypeOK, QueueInv, NEW m \in Messages, MessageStep(m)
    PROVE  QueueInv'
<1>1. CASE Enqueue(m)
    BY <1>1, EnqueueMoves, QueueAlone, QueueAppend
<1>2. CASE FreeSlot(m)
    <2>1. CASE queue = <<>>
        BY <1>2, <2>1, FreeSlotMoves, QueueAlone DEF Finished
    <2>2. CASE queue # <<>>
        BY <1>2, <2>2, FreeSlotMoves, QueueTail DEF Finished
    <2>. QED  BY <2>1, <2>2
<1>3. CASE ~Enqueue(m) /\ ~FreeSlot(m)
    BY <1>3, StepIsPlain, QueueAlone DEF PlainMove, InFlight, Dropped, Slot
<1>. QED  BY <1>1, <1>2, <1>3

\* Callbacks in flight: only an arrival adds one, and its guard leaves room.
LEMMA InFlightMessageStep ==
    ASSUME TypeOK, QueueInv, InFlightBounded, NEW m \in Messages, MessageStep(m)
    PROVE  InFlightBounded'
<1>0. stage \in [Messages -> Stage]
    BY DEF TypeOK
<1>1. CASE Enqueue(m)
    <2>1. PICK s \in {"running", "waiting"} : Goto(m, s) /\ stage[m] = "admitted"
        BY <1>1, EnqueueMoves
    <2>2. Cardinality(In(InFlight)) \in Nat
          /\ Cardinality(In(InFlight)') = Cardinality(In(InFlight))
                + Weight(s, InFlight) - Weight(stage[m], InFlight)
        BY <1>0, <2>1, StepOne
    <2>3. Weight(s, InFlight) = 0 /\ Weight(stage[m], InFlight) = 1
        BY <2>1 DEF Weight, InFlight
    <2>. QED
        BY <2>2, <2>3, UdpQueueAssumption DEF InFlightBounded, UdpQueueAssumption
<1>2. CASE FreeSlot(m)
    <2>1. In(InFlight)' = In(InFlight)
        BY <1>0, <1>2, FreeSlotMoves DEF In, InFlight, Goto, Finished
    <2>. QED  BY <2>1 DEF InFlightBounded
<1>3. CASE ~Enqueue(m) /\ ~FreeSlot(m)
    <2>1. PICK s : PlainMove(m, s)
        BY <1>3, StepIsPlain
    <2>2. Cardinality(In(InFlight)) \in Nat
          /\ Cardinality(In(InFlight)') = Cardinality(In(InFlight))
                + Weight(s, InFlight) - Weight(stage[m], InFlight)
        BY <1>0, <2>1, StepOne DEF PlainMove
    <2>3. \/ Weight(s, InFlight) <= Weight(stage[m], InFlight)
          \/ /\ Weight(s, InFlight) = 1 /\ Weight(stage[m], InFlight) = 0
             /\ Cardinality(In(InFlight)) < MaxInFlight
        BY <2>1 DEF PlainMove, Weight, InFlight, Slot, Dropped
    <2>4. Weight(s, InFlight) \in Nat /\ Weight(stage[m], InFlight) \in Nat
        BY DEF Weight
    <2>. QED
        BY <2>2, <2>3, <2>4, UdpQueueAssumption DEF InFlightBounded, UdpQueueAssumption
<1>. QED  BY <1>1, <1>2, <1>3

\* Slots: a slot is taken only when one is free and handed on when freed.
LEMMA SlotsMessageStep ==
    ASSUME TypeOK, QueueInv, SlotsUsedWell, NEW m \in Messages, MessageStep(m)
    PROVE  SlotsUsedWell'
<1>0. stage \in [Messages -> Stage] /\ Cardinality(In(Slot)) \in Nat
    <2>1. In(Slot) = At(stage, Slot)
        BY DEF In, At
    <2>. QED  BY <2>1, AtFinite DEF TypeOK
<1>. USE UdpQueueAssumption DEF UdpQueueAssumption
<1>1. CASE Enqueue(m)
    <2>1. CASE Cardinality(In(Slot)) < MaxConcurrent
        <3>1. Goto(m, "running") /\ stage[m] = "admitted" /\ UNCHANGED queue
            BY <1>1, <2>1, EnqueueMoves
        <3>2. Cardinality(In(Slot)') = Cardinality(In(Slot))
                + Weight("running", Slot) - Weight(stage[m], Slot)
            BY <1>0, <3>1, StepOne
        <3>3. Weight("running", Slot) = 1 /\ Weight(stage[m], Slot) = 0
            BY <3>1 DEF Weight, Slot
        <3>4. queue = <<>>
            BY <1>0, <2>1 DEF SlotsUsedWell
        <3>. QED  BY <1>0, <2>1, <3>1, <3>2, <3>3, <3>4 DEF SlotsUsedWell
    <2>2. CASE ~(Cardinality(In(Slot)) < MaxConcurrent)
        <3>1. Goto(m, "waiting") /\ stage[m] = "admitted"
            BY <1>1, <2>2, EnqueueMoves
        <3>2. Cardinality(In(Slot)') = Cardinality(In(Slot))
                + Weight("waiting", Slot) - Weight(stage[m], Slot)
            BY <1>0, <3>1, StepOne
        <3>3. Weight("waiting", Slot) = 0 /\ Weight(stage[m], Slot) = 0
            BY <3>1 DEF Weight, Slot
        <3>. QED  BY <1>0, <2>2, <3>2, <3>3 DEF SlotsUsedWell
    <2>. QED  BY <2>1, <2>2
<1>2. CASE FreeSlot(m)
    <2>1. CASE queue = <<>>
        <3>1. PICK s \in Finished : Goto(m, s) /\ stage[m] \in Slot /\ queue' = <<>>
            BY <1>2, <2>1, FreeSlotMoves DEF Slot
        <3>2. Cardinality(In(Slot)') = Cardinality(In(Slot))
                + Weight(s, Slot) - Weight(stage[m], Slot)
            BY <1>0, <3>1, StepOne
        <3>3. Weight(s, Slot) = 0 /\ Weight(stage[m], Slot) = 1
            BY <3>1 DEF Weight, Slot, Finished
        <3>. QED  BY <1>0, <3>1, <3>2, <3>3 DEF SlotsUsedWell
    <2>2. CASE queue # <<>>
        <3>1. PICK s \in Finished :
                 /\ stage[m] \in Slot /\ Head(queue) \in Messages /\ Head(queue) # m
                 /\ stage[Head(queue)] = "waiting"
                 /\ stage'[m] = s /\ stage'[Head(queue)] = "running"
                 /\ \A x \in Messages \ {m, Head(queue)} : stage'[x] = stage[x]
            BY <1>2, <2>2, FreeSlotMoves DEF Slot
        <3>2. Cardinality(In(Slot)') = Cardinality(In(Slot))
                + Weight(s, Slot) - Weight(stage[m], Slot)
                + Weight("running", Slot) - Weight(stage[Head(queue)], Slot)
            BY <3>1, StepTwo
        <3>3. /\ Weight(s, Slot) = 0 /\ Weight(stage[m], Slot) = 1
              /\ Weight("running", Slot) = 1 /\ Weight(stage[Head(queue)], Slot) = 0
            BY <3>1 DEF Weight, Slot, Finished
        <3>. QED  BY <1>0, <2>2, <3>2, <3>3 DEF SlotsUsedWell
    <2>. QED  BY <2>1, <2>2
<1>3. CASE ~Enqueue(m) /\ ~FreeSlot(m)
    <2>1. PICK s : PlainMove(m, s)
        BY <1>3, StepIsPlain
    <2>2. Cardinality(In(Slot)') = Cardinality(In(Slot))
                + Weight(s, Slot) - Weight(stage[m], Slot)
        BY <1>0, <2>1, StepOne DEF PlainMove
    <2>3. /\ Weight(s, Slot) = Weight(stage[m], Slot)
          /\ Weight(s, Slot) \in Nat
          /\ UNCHANGED queue
        BY <2>1 DEF PlainMove, Weight, InFlight, Slot, Dropped
    <2>. QED  BY <1>0, <2>2, <2>3 DEF SlotsUsedWell
<1>. QED  BY <1>1, <1>2, <1>3

\* The queue with the callers past the size check.
Load == Len(queue) + Cardinality(In({"admitted"}))

\* Only Admit adds to the load, below MaxSize, when fewer than MaxInFlight others can
\* be under way.
LEMMA LoadMoves ==
    ASSUME TypeOK, QueueInv, InFlightBounded, NEW m \in Messages, MessageStep(m)
    PROVE  /\ Load \in Nat /\ Load' \in Nat /\ Len(queue) \in Nat
           /\ \/ stage'[m] # "admitted" /\ Load' <= Load
              \/ /\ stage'[m] = "admitted" /\ Len(queue) < MaxSize
                 /\ Load' <= Len(queue) + MaxInFlight
<1>. USE UdpQueueAssumption DEF UdpQueueAssumption
<1>. DEFINE A == {"admitted"}
<1>0. /\ stage \in [Messages -> Stage] /\ queue \in Seq(Messages)
      /\ Len(queue) \in Nat /\ Cardinality(In(A)) \in Nat /\ Cardinality(In(A)') \in Nat
    <2>1. In(A) = At(stage, A) /\ In(A)' = At(stage', A)
        BY DEF In, At
    <2>. QED  BY <2>1, AtFinite DEF TypeOK
<1>1. CASE Enqueue(m)
    <2>1. CASE Goto(m, "running") /\ UNCHANGED queue
        <3>1. Cardinality(In(A)') = Cardinality(In(A))
                + Weight("running", A) - Weight(stage[m], A)
            BY <1>0, <2>1, StepOne
        <3>2. stage[m] = "admitted" /\ stage'[m] = "running"
            BY <1>0, <1>1, <2>1, EnqueueMoves DEF Goto
        <3>. QED  BY <1>0, <2>1, <3>1, <3>2 DEF Load, Weight
    <2>2. CASE Goto(m, "waiting") /\ queue' = Append(queue, m)
        <3>1. Cardinality(In(A)') = Cardinality(In(A))
                + Weight("waiting", A) - Weight(stage[m], A)
            BY <1>0, <2>2, StepOne
        <3>2. Len(queue') = Len(queue) + 1
            BY <1>0, <2>2, AppendProperties
        <3>3. stage[m] = "admitted" /\ stage'[m] = "waiting"
            BY <1>0, <1>1, <2>2, EnqueueMoves DEF Goto
        <3>. QED  BY <1>0, <3>1, <3>2, <3>3 DEF Load, Weight
    <2>. QED  BY <1>1, <2>1, <2>2, EnqueueMoves
<1>2. CASE FreeSlot(m)
    <2>1. In(A)' = In(A)
        BY <1>0, <1>2, FreeSlotMoves DEF In, Goto, Finished
    <2>2. Len(queue') \in Nat /\ Len(queue') <= Len(queue)
        <3>1. CASE queue # <<>>
            BY <1>0, <1>2, <3>1, FreeSlotMoves, HeadTailProperties
        <3>2. CASE queue = <<>>
            BY <1>0, <1>2, <3>2, FreeSlotMoves
        <3>. QED  BY <3>1, <3>2
    <2>3. stage'[m] # "admitted"
        BY <1>0, <1>2, FreeSlotMoves DEF Goto, Finished
    <2>. QED  BY <1>0, <2>1, <2>2, <2>3 DEF Load
<1>3. CASE ~Enqueue(m) /\ ~FreeSlot(m)
    <2>1. PICK s : PlainMove(m, s)
        BY <1>3, StepIsPlain
    <2>0. stage'[m] = s
        BY <1>0, <2>1 DEF PlainMove, Goto
    <2>2. Cardinality(In(A)') = Cardinality(In(A)) + Weight(s, A) - Weight(stage[m], A)
        BY <1>0, <2>1, StepOne DEF PlainMove
    <2>3. CASE s = "admitted"
        <3>1. Len(queue) < MaxSize /\ UNCHANGED queue
            BY <2>1, <2>3 DEF PlainMove, InFlight, Slot, Dropped
        <3>2. Cardinality(In(A)') <= MaxInFlight /\ Cardinality(In(A)') \in Nat
            <4>1. In(A)' = At(stage', A) /\ In(InFlight)' = At(stage', InFlight)
                BY DEF In, At
            <4>2. At(stage', A) \in SUBSET At(stage', InFlight)
                BY DEF At, InFlight
            <4>3. Cardinality(At(stage', A)) <= Cardinality(At(stage', InFlight))
                BY <4>2, AtFinite, FS_Subset
            <4>4. Cardinality(In(InFlight)') <= MaxInFlight
                BY InFlightMessageStep DEF InFlightBounded
            <4>. QED  BY <4>1, <4>3, <4>4, AtFinite
        <3>. QED  BY <1>0, <2>0, <2>3, <3>1, <3>2 DEF Load
    <2>4. CASE s # "admitted"
        <3>1. Weight(s, A) = 0 /\ Weight(stage[m], A) \in Nat /\ UNCHANGED queue
            BY <2>1, <2>4 DEF Weight, PlainMove
        <3>. QED  BY <1>0, <2>0, <2>2, <2>4, <3>1 DEF Load
    <2>. QED  BY <2>3, <2>4
<1>. QED  BY <1>1, <1>2, <1>3

LEMMA BoundMessageStep ==
    ASSUME TypeOK, QueueInv, InFlightBounded, QueueBounded,
           NEW m \in Messages, MessageStep(m)
    PROVE  QueueBounded'
BY LoadMoves, UdpQueueAssumption DEF UdpQueueAssumption, QueueBounded, Load

-----------------------------------------------------------------------------
(* The theorems.                                                           *)

LEMMA InitEmpty ==
    ASSUME Init, NEW S, "unsent" \notin S
    PROVE  In(S) = {} /\ Cardinality(In(S)) = 0
<1>1. In(S) = {}
    BY DEF Init, In
<1>. QED  BY <1>1, FS_EmptySet

LEMMA IInvInit == Init => IInv
<1>. SUFFICES ASSUME Init  PROVE IInv
    OBVIOUS
<1>. USE UdpQueueAssumption DEF UdpQueueAssumption
<1>1. TypeOK
    BY TypeInit
<1>2. InFlightBounded
    BY InitEmpty DEF InFlightBounded, InFlight
<1>3. queue = <<>> /\ Len(queue) = 0
    BY DEF Init
<1>4. QueueInv
    BY <1>3, InitEmpty DEF QueueInv
<1>5. SlotsUsedWell
    BY <1>3, InitEmpty DEF SlotsUsedWell, Slot
<1>6. QueueBounded
    BY <1>3, InitEmpty DEF QueueBounded
<1>. QED  BY <1>1, <1>2, <1>4, <1>5, <1>6 DEF IInv

\* The steps that touch neither the messages nor the queue.
LEMMA IdleStep ==
    ASSUME UNCHANGED <<stage, queue>>
    PROVE  \A S : In(S)' = In(S)
BY DEF In

LEMMA IInvNext == IInv /\ [Next]_vars => IInv'
<1>. SUFFICES ASSUME IInv, [Next]_vars  PROVE IInv'
    OBVIOUS
<1>1. TypeOK'
    BY TypeNext DEF IInv
<1>2. CASE \E m \in Messages : MessageStep(m)
    BY <1>1, <1>2, InFlightMessageStep, QueueMessageStep, SlotsMessageStep,
       BoundMessageStep DEF IInv
<1>3. CASE UNCHANGED <<stage, queue>>
    BY <1>1, <1>3, IdleStep DEF IInv, InFlightBounded, QueueInv, SlotsUsedWell, QueueBounded
<1>. QED  BY <1>2, <1>3 DEF Next, QueueNext, Tick, ClearMetrics, vars

THEOREM InvariantHolds == Spec => []IInv
BY IInvInit, IInvNext, PTL DEF Spec

\* The queue never holds more than MaxSize + MaxInFlight - 1 messages, counting
\* those admitted and not yet added: exactly MaxSize when callbacks do not overlap.
THEOREM QueueStaysBounded == Spec => []QueueBounded
<1>1. IInv => QueueBounded
    BY DEF IInv
<1>. QED  BY <1>1, InvariantHolds, PTL

\* At most maxConcurrent jobs run, and none waits while a slot is free.
THEOREM SlotsStayUsedWell == Spec => []SlotsUsedWell
<1>1. IInv => SlotsUsedWell
    BY DEF IInv
<1>. QED  BY <1>1, InvariantHolds, PTL

\* Both together: p-queue's capacity is neither overdrawn nor left unused.
THEOREM CapacityIsRespected == Spec => []CapacityRespected
BY QueueStaysBounded, SlotsStayUsedWell, PTL DEF CapacityRespected

\* The jobs in p-queue are the messages that wait, each once.
THEOREM QueueAlwaysMatchesStages == Spec => []QueueMatchesStages
<1>1. IInv => QueueMatchesStages
    <2>. SUFFICES ASSUME IInv  PROVE QueueMatchesStages
        OBVIOUS
    <2>1. queue \in Seq(Messages) /\ DOMAIN queue = 1..Len(queue)
        BY DEF IInv, TypeOK
    <2>. QED  BY <2>1 DEF IInv, QueueInv, QueueMatchesStages, In
<1>. QED  BY <1>1, InvariantHolds, PTL

LEMMA CountsInit == Init => CountsExact
<1>. SUFFICES ASSUME Init, NEW c \in Counter
              PROVE  metrics[c] + cleared[c] = Cardinality(Counted(c))
    BY DEF CountsExact
<1>1. "unsent" \notin CountedStages(c)
    BY DEF CountedStages, Counter, Slot, Dropped, Finished
<1>2. Cardinality(In(CountedStages(c))) = 0
    BY <1>1, InitEmpty
<1>3. metrics[c] = 0 /\ cleared[c] = 0
    BY DEF Init, Zero
<1>. QED  BY <1>2, <1>3 DEF Counted

LEMMA CountsNext == IInv /\ CountsExact /\ [Next]_vars => CountsExact'
<1>. SUFFICES ASSUME IInv, CountsExact, [Next]_vars  PROVE CountsExact'
    OBVIOUS
<1>0. TypeOK /\ QueueInv
    BY DEF IInv
<1>1. CASE \E m \in Messages : MessageStep(m)
    BY <1>0, <1>1, CountsMessageStep
<1>2. CASE UNCHANGED <<stage, queue, metrics, cleared>>
    BY <1>2, IdleStep DEF CountsExact, Counted
<1>3. CASE ClearMetrics
    <2>1. \A c \in Counter : metrics'[c] + cleared'[c] = metrics[c] + cleared[c]
        BY <1>0, <1>3 DEF ClearMetrics, Zero, TypeOK
    <2>2. \A c \in Counter : Counted(c)' = Counted(c)
        BY <1>3, IdleStep DEF ClearMetrics, Counted
    <2>. QED  BY <2>1, <2>2 DEF CountsExact
<1>. QED  BY <1>1, <1>2, <1>3 DEF Next, QueueNext, Tick, vars

\* No counter ever loses or repeats a message, however callbacks, jobs and
\* clears interleave.
THEOREM CountsStayExact == Spec => []CountsExact
BY InvariantHolds, CountsInit, CountsNext, PTL DEF Spec

\* Only a full queue refuses a message.
LEMMA RefusedByGuard ==
    ASSUME TypeOK, QueueInv, NEW m \in Messages, MessageStep(m),
           NEW x \in Messages, stage[x] # "dropFull", stage'[x] = "dropFull"
    PROVE  RefuseFull(x)
<1>1. stage \in [Messages -> Stage]
    BY DEF TypeOK
<1>2. CASE Enqueue(m)
    BY <1>1, <1>2, EnqueueMoves DEF Goto
<1>3. CASE FreeSlot(m)
    BY <1>1, <1>3, FreeSlotMoves DEF Goto, Finished
<1>4. CASE RefuseFull(m)
    BY <1>1, <1>4 DEF RefuseFull, Goto
<1>5. CASE ~Enqueue(m) /\ ~FreeSlot(m) /\ ~RefuseFull(m)
    BY <1>1, <1>5 DEF MessageStep, RejectSource, ReceiveOversize,
       ReceiveInSize, HandleSizeDrop, HandleRateLimitDrop, Admit,
       ProcessingSettles, CountProcessed, CountFailed, Goto
<1>. QED  BY <1>2, <1>3, <1>4, <1>5

\* A message is refused only while every slot is busy and MaxSize jobs wait.
THEOREM RefusalsAreJustified == Spec => RefusedOnlyWhenBusy
<1>. DEFINE Justified ==
        \A m \in Messages : stage[m] # "dropFull" /\ stage'[m] = "dropFull" =>
             /\ Cardinality(In(Slot)) = MaxConcurrent
             /\ Cardinality(In({"waiting"})) >= MaxSize
<1>1. IInv /\ [Next]_vars => [Justified]_vars
    <2>. SUFFICES ASSUME IInv, Next, NEW x \in Messages,
                         stage[x] # "dropFull", stage'[x] = "dropFull"
                  PROVE  /\ Cardinality(In(Slot)) = MaxConcurrent
                         /\ Cardinality(In({"waiting"})) >= MaxSize
        OBVIOUS
    <2>1. PICK m \in Messages : MessageStep(m)
        BY DEF Next, QueueNext, Tick, ClearMetrics
    <2>2. RefuseFull(x)
        BY <2>1, RefusedByGuard DEF IInv
    <2>3. Len(queue) >= MaxSize /\ Len(queue) \in Nat /\ queue # <<>>
        BY <2>2, UdpQueueAssumption DEF RefuseFull, IInv, TypeOK, UdpQueueAssumption
    <2>. QED  BY <2>3 DEF IInv, SlotsUsedWell, QueueInv
<1>. QED  BY <1>1, InvariantHolds, PTL DEF Spec, RefusedOnlyWhenBusy

-----------------------------------------------------------------------------
(* Drops and warnings.                                                     *)

\* One more drop: it is in the log line or in the count for the next one.
LEMMA LoggedOrCounted ==
    ASSUME TypeOK, CountAndLogDrop
    PROVE  logged' + dropLog'.since = logged + dropLog.since + 1
<1>1. dropLog \in [since: Nat, last: Nat] /\ now \in Nat /\ logged \in Nat
    BY DEF TypeOK
<1>2. CASE now - dropLog.last > Window
    BY <1>1, <1>2 DEF CountAndLogDrop
<1>3. CASE ~(now - dropLog.last > Window)
    BY <1>1, <1>3 DEF CountAndLogDrop
<1>. QED  BY <1>2, <1>3

LEMMA DropsNext == IInv /\ DropsAnnounced /\ [Next]_vars => DropsAnnounced'
<1>. SUFFICES ASSUME IInv, DropsAnnounced, [Next]_vars  PROVE DropsAnnounced'
    OBVIOUS
<1>0. /\ TypeOK /\ QueueInv /\ stage \in [Messages -> Stage]
      /\ dropLog \in [since: Nat, last: Nat] /\ logged \in Nat
    BY DEF IInv, TypeOK
<1>1. CASE \E m \in Messages : MessageStep(m)
    <2>1. PICK m \in Messages : MessageStep(m)
        BY <1>1
    <2>2. CASE HandleSizeDrop(m) \/ HandleRateLimitDrop(m) \/ RefuseFull(m)
        <3>1. PICK s \in Dropped : Goto(m, s) /\ stage[m] \notin Dropped
            BY <2>2 DEF HandleSizeDrop, HandleRateLimitDrop, RefuseFull, Dropped
        <3>2. CountAndLogDrop
            BY <2>2 DEF HandleSizeDrop, HandleRateLimitDrop, RefuseFull
        <3>3. Cardinality(In(Dropped)) \in Nat
              /\ Cardinality(In(Dropped)') = Cardinality(In(Dropped)) + 1
            BY <1>0, <3>1, StepOne DEF Weight
        <3>. QED  BY <1>0, <3>2, <3>3, LoggedOrCounted DEF DropsAnnounced
    <2>3. CASE FreeSlot(m)
        <3>1. UNCHANGED <<dropLog, logged>>
            BY <2>3 DEF FreeSlot
        <3>2. In(Dropped)' = In(Dropped)
            BY <1>0, <2>3, FreeSlotMoves DEF In, Dropped, Goto, Finished
        <3>. QED  BY <3>1, <3>2 DEF DropsAnnounced
    <2>4. CASE ~(HandleSizeDrop(m) \/ HandleRateLimitDrop(m) \/ RefuseFull(m) \/ FreeSlot(m))
        <3>1. UNCHANGED <<dropLog, logged>>
              /\ \E s \in Stage \ Dropped : Goto(m, s) /\ stage[m] \notin Dropped
            <4>. USE DEF Stage, Dropped, InFlight, Slot, Finished
            <4>1. CASE RejectSource(m) \/ ReceiveOversize(m) \/ ReceiveInSize(m)
                BY <4>1 DEF RejectSource, ReceiveOversize, ReceiveInSize, Receive
            <4>2. CASE Admit(m) \/ Enqueue(m)
                BY <4>2 DEF Admit, Enqueue
            <4>3. CASE ProcessingSettles(m) \/ CountProcessed(m) \/ CountFailed(m)
                BY <4>3 DEF ProcessingSettles, CountProcessed, CountFailed
            <4>. QED  BY <2>1, <2>4, <4>1, <4>2, <4>3 DEF MessageStep
        <3>2. In(Dropped)' = In(Dropped)
            BY <1>0, <3>1 DEF In, Goto
        <3>. QED  BY <3>1, <3>2 DEF DropsAnnounced
    <2>. QED  BY <2>2, <2>3, <2>4
<1>2. CASE UNCHANGED <<stage, dropLog, logged>>
    BY <1>2 DEF DropsAnnounced, In
<1>. QED  BY <1>1, <1>2 DEF Next, QueueNext, Tick, ClearMetrics, vars

\* No drop is left out of the log or announced twice: the lines written and the
\* count kept for the next one add up to the drops there were.
THEOREM DropsAreAnnounced == Spec => []DropsAnnounced
<1>1. Init => DropsAnnounced
    <2>. SUFFICES ASSUME Init  PROVE DropsAnnounced
        OBVIOUS
    <2>1. Cardinality(In(Dropped)) = 0
        BY InitEmpty DEF Dropped
    <2>. QED  BY <2>1 DEF Init, DropsAnnounced
<1>. QED  BY <1>1, InvariantHolds, DropsNext, PTL DEF Spec

\* Whether the backpressure threshold leaves room for the callers that may be past the
\* size check at once: 100 * MaxInFlight messages below MaxSize it can still be reached.
WarningHasRoom == 100 * (MaxSize - MaxInFlight) >= BackpressureThreshold * MaxSize

\* The load cannot be MaxInFlight past the threshold without a warning: the message
\* that took it there was admitted at the threshold or above, and checked there.
WarnedAtThreshold ==
    100 * (Load - MaxInFlight) >= BackpressureThreshold * MaxSize => backpressureActive

\* Below the threshold less MaxInFlight the warning may be taken back: only then is it.
LEMMA WarningKept ==
    ASSUME NEW k \in Nat, 100 * k >= BackpressureThreshold * MaxSize
    PROVE  BackpressureAfter(k)
<1>1. BackpressureThreshold * MaxSize \in Nat
      /\ 4 * BackpressureThreshold * MaxSize = 4 * (BackpressureThreshold * MaxSize)
    BY UdpQueueAssumption DEF UdpQueueAssumption
<1>2. ~BelowClearLevel(k)
    <2>. DEFINE level == BackpressureThreshold * MaxSize
    <2>. HIDE DEF level
    <2>1. level \in Nat /\ 100 * k >= level => ~(500 * k < 4 * level)
        OBVIOUS
    <2>. QED  BY <1>1, <2>1 DEF BelowClearLevel, level
<1>. QED  BY <1>2 DEF BackpressureAfter

\* What reaches a level still does when it grows.
LEMMA Reaches ==
    ASSUME NEW level \in Nat, NEW a \in Nat, NEW b \in Nat, NEW f \in Nat, 100 * (a - f) >= level
    PROVE  /\ a <= b => 100 * (b - f) >= level
           /\ a <= b + f => 100 * b >= level
OBVIOUS

LEMMA WarnedNext == IInv /\ WarnedAtThreshold /\ [Next]_vars => WarnedAtThreshold'
<1>. SUFFICES ASSUME IInv, WarnedAtThreshold, [Next]_vars,
                     100 * (Load' - MaxInFlight) >= BackpressureThreshold * MaxSize
              PROVE  backpressureActive'
    BY DEF WarnedAtThreshold
<1>0. TypeOK /\ QueueInv /\ InFlightBounded /\ stage \in [Messages -> Stage]
      /\ MaxInFlight \in Nat /\ BackpressureThreshold * MaxSize \in Nat
    BY UdpQueueAssumption DEF IInv, TypeOK, UdpQueueAssumption
<1>. DEFINE level == BackpressureThreshold * MaxSize
<1>. HIDE DEF level
<1>1. CASE \E m \in Messages : MessageStep(m)
    <2>1. PICK m \in Messages : MessageStep(m)
        BY <1>1
    <2>2. /\ Load \in Nat /\ Load' \in Nat /\ Len(queue) \in Nat
          /\ \/ stage'[m] # "admitted" /\ Load' <= Load
             \/ stage'[m] = "admitted" /\ Load' <= Len(queue) + MaxInFlight
        BY <1>0, <2>1, LoadMoves
    <2>3. CASE Admit(m)
        <3>1. stage'[m] = "admitted" /\ backpressureActive' = BackpressureAfter(Len(queue))
            BY <1>0, <2>3 DEF Admit, Goto
        <3>2. 100 * Len(queue) >= level
            <4>1. level \in Nat /\ 100 * (Load' - MaxInFlight) >= level
                BY <1>0 DEF level
            <4>2. Load' <= Len(queue) + MaxInFlight
                BY <2>2, <3>1
            <4>. QED  BY <1>0, <2>2, <4>1, <4>2, Reaches
        <3>. QED  BY <2>2, <3>1, <3>2, WarningKept DEF level
    <2>4. CASE ~Admit(m)
        <3>1. UNCHANGED backpressureActive
            BY <2>1, <2>4 DEF MessageStep, RejectSource, ReceiveOversize, ReceiveInSize,
               Receive, HandleSizeDrop, HandleRateLimitDrop, RefuseFull, Enqueue,
               ProcessingSettles, CountProcessed, CountFailed, FreeSlot
        <3>2. stage'[m] # "admitted"
            <4>1. CASE Enqueue(m)
                BY <1>0, <4>1, EnqueueMoves DEF Goto
            <4>2. CASE FreeSlot(m)
                BY <1>0, <4>2, FreeSlotMoves DEF Goto, Finished
            <4>3. CASE ~Enqueue(m) /\ ~FreeSlot(m)
                BY <1>0, <2>1, <2>4, <4>3 DEF MessageStep, RejectSource, ReceiveOversize,
                   ReceiveInSize, HandleSizeDrop, HandleRateLimitDrop, RefuseFull,
                   ProcessingSettles, CountProcessed, CountFailed, Goto
            <4>. QED  BY <4>1, <4>2, <4>3
        <3>3. 100 * (Load - MaxInFlight) >= level
            <4>1. level \in Nat /\ 100 * (Load' - MaxInFlight) >= level
                BY <1>0 DEF level
            <4>2. Load' <= Load
                BY <2>2, <3>2
            <4>. QED  BY <1>0, <2>2, <4>1, <4>2, Reaches
        <3>. QED  BY <3>1, <3>3 DEF WarnedAtThreshold, level
    <2>. QED  BY <2>3, <2>4
<1>2. CASE UNCHANGED <<stage, queue, backpressureActive>>
    BY <1>2 DEF WarnedAtThreshold, Load, In
<1>. QED  BY <1>1, <1>2 DEF Next, QueueNext, Tick, ClearMetrics, vars

\* With a threshold that leaves room for the callers in flight (the defaults, 80% of
\* 200, leave room for 40 of them) no message is refused for lack of room unless
\* backpressure has been signalled.
THEOREM WarningsComeFirst == WarningHasRoom => (Spec => WarnedBeforeRefusing)
<1>. DEFINE Warned ==
        \A m \in Messages : stage[m] # "dropFull" /\ stage'[m] = "dropFull" => backpressureActive
<1>. SUFFICES ASSUME WarningHasRoom  PROVE Spec => WarnedBeforeRefusing
    OBVIOUS
<1>0. MaxInFlight \in Nat /\ MaxSize \in Nat /\ BackpressureThreshold * MaxSize \in Nat
    BY UdpQueueAssumption DEF UdpQueueAssumption
<1>. DEFINE level == BackpressureThreshold * MaxSize
<1>1. Init => WarnedAtThreshold
    <2>. SUFFICES ASSUME Init, 100 * (Load - MaxInFlight) >= level  PROVE FALSE
        BY DEF WarnedAtThreshold
    <2>1. Load = 0
        <3>1. Cardinality(In({"admitted"})) = 0
            BY InitEmpty
        <3>. QED  BY <3>1 DEF Init, Load
    <2>2. MaxInFlight > 0 /\ level \in Nat
        BY UdpQueueAssumption DEF UdpQueueAssumption
    <2>. HIDE DEF level
    <2>. QED  BY <1>0, <2>1, <2>2
<1>2. IInv /\ WarnedAtThreshold /\ [Next]_vars => [Warned]_vars
    <2>. SUFFICES ASSUME IInv, WarnedAtThreshold, Next, NEW x \in Messages,
                         stage[x] # "dropFull", stage'[x] = "dropFull"
                  PROVE  backpressureActive
        OBVIOUS
    <2>1. PICK m \in Messages : MessageStep(m)
        BY DEF Next, QueueNext, Tick, ClearMetrics
    <2>2. Len(queue) >= MaxSize
        BY <2>1, RefusedByGuard DEF IInv, RefuseFull
    <2>3. Load \in Nat /\ Len(queue) \in Nat /\ Load >= Len(queue)
        <3>1. In({"admitted"}) = At(stage, {"admitted"})
            BY DEF In, At
        <3>. QED  BY <3>1, AtFinite DEF IInv, TypeOK, Load
    <2>4. level \in Nat /\ 100 * (MaxSize - MaxInFlight) >= level
        BY <1>0 DEF WarningHasRoom
    <2>5. 100 * (Load - MaxInFlight) >= level
        <3>. HIDE DEF level
        <3>. QED  BY <1>0, <2>2, <2>3, <2>4
    <2>. QED  BY <2>5 DEF WarnedAtThreshold
<1>. QED  BY <1>1, <1>2, InvariantHolds, WarnedNext, PTL DEF Spec, WarnedBeforeRefusing

-----------------------------------------------------------------------------
(* The refinement of BoundedIntake.                                        *)

\* Messages in two disjoint sets of stages.
LEMMA InUnion ==
    ASSUME NEW S, NEW T, S \cap T = {}
    PROVE  /\ Cardinality(In(S)) \in Nat /\ Cardinality(In(T)) \in Nat
           /\ Cardinality(In(S \cup T)) = Cardinality(In(S)) + Cardinality(In(T))
<1>1. \A U : In(U) = At(stage, U)
    BY DEF In, At
<1>2. /\ IsFiniteSet(In(S)) /\ IsFiniteSet(In(T))
      /\ Cardinality(In(S)) \in Nat /\ Cardinality(In(T)) \in Nat
    BY <1>1, AtFinite
<1>3. In(S \cup T) = In(S) \cup In(T) /\ In(S) \cap In(T) = {}
    BY DEF In
<1>4. Cardinality(In(S) \cap In(T)) = 0
    BY <1>3, FS_EmptySet
<1>5. Cardinality(In(S) \cup In(T))
        = Cardinality(In(S)) + Cardinality(In(T)) - Cardinality(In(S) \cap In(T))
    BY <1>2, FS_Union
<1>6. Cardinality(In(S \cup T)) = Cardinality(In(S)) + Cardinality(In(T)) - 0
    BY <1>3, <1>4, <1>5
<1>. QED  BY <1>2, <1>6

\* What the intake takes for accepted: the messages past the size check that are not
\* finished.
LEMMA AcceptedCount ==
    /\ Cardinality(In({"admitted"})) \in Nat
    /\ Cardinality(In({"waiting"})) \in Nat
    /\ Cardinality(In(Slot)) \in Nat
    /\ Cardinality(Intake!Accepted) =
          Cardinality(In({"admitted"})) + Cardinality(In({"waiting"})) + Cardinality(In(Slot))
<1>1. Intake!Accepted = In(({"admitted"} \cup {"waiting"}) \cup Slot)
    BY DEF Intake!Accepted, In, FateOf, Slot, Finished
<1>2. {"admitted"} \cap {"waiting"} = {} /\ ({"admitted"} \cup {"waiting"}) \cap Slot = {}
    BY DEF Slot
<1>3. /\ Cardinality(In({"admitted"})) \in Nat /\ Cardinality(In({"waiting"})) \in Nat
      /\ Cardinality(In({"admitted"} \cup {"waiting"}))
           = Cardinality(In({"admitted"})) + Cardinality(In({"waiting"}))
    BY <1>2, InUnion
<1>4. /\ Cardinality(In(Slot)) \in Nat
      /\ Cardinality(In(({"admitted"} \cup {"waiting"}) \cup Slot))
           = Cardinality(In({"admitted"} \cup {"waiting"})) + Cardinality(In(Slot))
    BY <1>2, InUnion
<1>. QED  BY <1>1, <1>3, <1>4

\* The intake counts as this module does.
LEMMA IntakeCounts == \A S : Intake!Cardinality(S) = Cardinality(S)
BY Zenon DEF Intake!Cardinality, Cardinality

\* The fates as the intake sees them.
Fates == [m \in Messages |-> FateOf(stage[m])]

\* A message that goes to another stage changes its fate and no other's.
LEMMA FateMoves ==
    ASSUME stage \in [Messages -> Stage], NEW m \in Messages, NEW s, Goto(m, s)
    PROVE  Fates' = [Fates EXCEPT ![m] = FateOf(s)]
BY DEF Fates, Goto

LEMMA IntakeMessageStep ==
    ASSUME IInv, NEW m \in Messages, MessageStep(m)
    PROVE  Intake!IntakeNext \/ UNCHANGED Fates
<1>0. TypeOK /\ QueueInv /\ InFlightBounded /\ SlotsUsedWell /\ stage \in [Messages -> Stage]
    BY DEF IInv, TypeOK
<1>. USE DEF FateOf, Slot, Finished
<1>1. CASE RejectSource(m) \/ HandleSizeDrop(m) \/ HandleRateLimitDrop(m)
    <2>1. PICK s \in {"rejected", "dropSize", "dropRate"} :
              Goto(m, s) /\ stage[m] \in {"unsent", "oversize", "limited"}
        BY <1>1 DEF RejectSource, Receive, HandleSizeDrop, HandleRateLimitDrop
    <2>2. Fates[m] = "new" /\ Fates' = [Fates EXCEPT ![m] = "discarded"]
        BY <1>0, <2>1, FateMoves DEF Fates
    <2>. QED  BY <2>2 DEF Intake!IntakeNext, Intake!Discard, Intake!Meets, Fates
<1>2. CASE RefuseFull(m)
    <2>1. Goto(m, "dropFull") /\ stage[m] = "arrived" /\ Len(queue) >= MaxSize
        BY <1>2 DEF RefuseFull
    <2>2. Fates[m] = "new" /\ Fates' = [Fates EXCEPT ![m] = "refused"]
        BY <1>0, <2>1, FateMoves DEF Fates
    <2>3. Cardinality(In(Slot)) = MaxConcurrent /\ Cardinality(In({"waiting"})) >= MaxSize
        <3>1. queue # <<>>
            BY <2>1, UdpQueueAssumption DEF UdpQueueAssumption
        <3>. QED  BY <1>0, <2>1, <3>1 DEF SlotsUsedWell, QueueInv
    <2>4. Cardinality(Intake!Accepted) >= MaxSize + MaxConcurrent
        BY <2>3, AcceptedCount, UdpQueueAssumption DEF UdpQueueAssumption
    <2>5. Intake!Refuse(m)
        <3>. HIDE DEF FateOf, Slot, Finished
        <3>. QED  BY <2>2, <2>4, IntakeCounts DEF Intake!Refuse, Intake!Meets, Fates
    <2>. QED  BY <2>5 DEF Intake!IntakeNext
<1>3. CASE Admit(m)
    <2>1. Goto(m, "admitted") /\ stage[m] = "arrived" /\ Len(queue) < MaxSize /\ UNCHANGED queue
        BY <1>3 DEF Admit
    <2>2. Fates[m] = "new" /\ Fates' = [Fates EXCEPT ![m] = "accepted"]
        BY <1>0, <2>1, FateMoves DEF Fates
    <2>3. Load' <= Len(queue) + MaxInFlight
        <3>1. stage'[m] = "admitted"
            BY <1>0, <2>1 DEF Goto
        <3>. QED  BY <1>0, <3>1, LoadMoves
    <2>4. Cardinality(In({"admitted"})') = Cardinality(In({"admitted"})) + 1
        <3>1. Cardinality(In({"admitted"})) \in Nat
              /\ Cardinality(In({"admitted"})')
                   = Cardinality(In({"admitted"})) + Weight("admitted", {"admitted"})
                                                  - Weight(stage[m], {"admitted"})
            BY <1>0, <2>1, StepOne
        <3>2. Weight("admitted", {"admitted"}) = 1 /\ Weight(stage[m], {"admitted"}) = 0
            BY <2>1 DEF Weight
        <3>. QED  BY <3>1, <3>2
    <2>5. Cardinality(In({"waiting"})) = Len(queue) /\ Cardinality(In(Slot)) <= MaxConcurrent
        BY <1>0 DEF QueueInv, SlotsUsedWell
    <2>6. Cardinality(In({"admitted"})) + 1 <= MaxInFlight
        <3>1. Load' = Len(queue) + Cardinality(In({"admitted"})')
            BY <2>1 DEF Load
        <3>. QED  BY <2>3, <2>4, <2>5, <3>1, AcceptedCount, UdpQueueAssumption
                  DEF UdpQueueAssumption
    <2>7. Cardinality(Intake!Accepted) < (MaxSize + MaxConcurrent) + (MaxInFlight - 1)
        BY <2>1, <2>5, <2>6, AcceptedCount, UdpQueueAssumption DEF UdpQueueAssumption
    <2>8. Intake!Accept(m)
        <3>. HIDE DEF FateOf, Slot, Finished
        <3>. QED  BY <2>2, <2>7, IntakeCounts DEF Intake!Accept, Intake!Meets, Fates
    <2>. QED  BY <2>8 DEF Intake!IntakeNext
<1>4. CASE FreeSlot(m)
    <2>1. Fates[m] = "accepted"
        BY <1>0, <1>4, FreeSlotMoves DEF Fates
    <2>2. Fates' = [Fates EXCEPT ![m] = "finished"]
        BY <1>0, <1>4, FreeSlotMoves DEF Fates, Goto
    <2>. QED  BY <2>1, <2>2 DEF Intake!IntakeNext, Intake!Finish, Intake!Meets, Fates
<1>5. CASE ReceiveOversize(m) \/ ReceiveInSize(m) \/ Enqueue(m)
           \/ ProcessingSettles(m) \/ CountProcessed(m) \/ CountFailed(m)
    <2>1. PICK s : Goto(m, s) /\ FateOf(s) = FateOf(stage[m])
        BY <1>5 DEF Stage, InFlight, Dropped, ReceiveOversize, ReceiveInSize, Receive, Enqueue,
                    ProcessingSettles, CountProcessed, CountFailed
    <2>2. Fates' = [Fates EXCEPT ![m] = FateOf(s)] /\ Fates[m] = FateOf(s)
        <3>. HIDE DEF FateOf, Slot, Finished
        <3>. QED  BY <1>0, <2>1, FateMoves DEF Fates
    <2>. HIDE DEF FateOf, Slot, Finished
    <2>. QED  BY <2>2 DEF Fates
<1>. QED  BY <1>1, <1>2, <1>3, <1>4, <1>5 DEF MessageStep

\* The queue manager is a bounded intake: whatever p-queue, the mutex and the limits do
\* inside, a message meets one fate only, it is refused only with MaxSize + MaxConcurrent
\* others taken care of, and never are more than MaxInFlight - 1 above that taken care of.
THEOREM IntakeIsKept == Spec => Intake!IntakeSafety
<1>1. Init => Intake!IntakeInit
    BY DEF Init, Intake!IntakeInit, FateOf, Slot, Finished
<1>2. IInv /\ [Next]_vars => [Intake!IntakeNext]_Fates
    <2>. SUFFICES ASSUME IInv, [Next]_vars  PROVE Intake!IntakeNext \/ UNCHANGED Fates
        OBVIOUS
    <2>1. CASE \E m \in Messages : MessageStep(m)
        BY <2>1, IntakeMessageStep
    <2>2. CASE UNCHANGED stage
        BY <2>2 DEF Fates
    <2>. QED  BY <2>1, <2>2 DEF Next, QueueNext, Tick, ClearMetrics, vars
<1>. QED  BY <1>1, <1>2, InvariantHolds, PTL DEF Spec, Intake!IntakeSafety, Fates

-----------------------------------------------------------------------------
(* The timer that stores the metrics (QueueMetrics).                       *)

\* The timer does to the queue only what Spec allows.
LEMMA QueueUnderTimer == MSpec => Spec
<1>1. MInit => Init
    BY DEF MInit
<1>2. [MNext]_mvars => [Next]_vars
    BY DEF MNext, Next, FiringStep, GetMetrics, WriteSucceeds, WriteFails, ClearAfterWrite, mvars
<1>. QED  BY <1>1, <1>2, PTL DEF MSpec, Spec

\* Counters that are a consistent cut: what was received was queued or dropped, and
\* every drop has its reason.
AddsUp(c) ==
    /\ c \in [Counter -> Nat]
    /\ c["received"] = c["queued"] + c["dropped"]
    /\ c["dropped"] = c["dropSize"] + c["dropRate"] + c["dropFull"]

\* The inductive invariant: not only what is stored adds up, but also the counters
\* themselves, at any moment they may be read, and what each firing has read.
CutsAddUp ==
    /\ AddsUp(metrics)
    /\ AddsUp(stored)
    /\ snapshot \in [Firings -> [Counter -> Nat]]
    /\ \A f \in Firings : AddsUp(snapshot[f])

\* Every section that counts a message counts it for a sum and for one of its parts.
LEMMA MetricsAddUp ==
    ASSUME AddsUp(metrics), Next
    PROVE  AddsUp(metrics')
<1>. USE DEF AddsUp, Counter
<1>1. CASE ClearMetrics
    BY <1>1 DEF ClearMetrics, Zero
<1>2. CASE Tick
    BY <1>2 DEF Tick
<1>3. ASSUME NEW m \in Messages, MessageStep(m)
      PROVE  AddsUp(metrics')
    <2>1. \/ UNCHANGED metrics
          \/ metrics' = Bump({"received", "queued"})
          \/ metrics' = Bump({"received", "dropped", "dropSize"})
          \/ metrics' = Bump({"received", "dropped", "dropRate"})
          \/ metrics' = Bump({"received", "dropped", "dropFull"})
          \/ metrics' = Bump({"processed"})
          \/ metrics' = Bump({"failed"})
        <3>1. CASE RejectSource(m) \/ ReceiveOversize(m) \/ ReceiveInSize(m) \/ Enqueue(m)
                   \/ ProcessingSettles(m) \/ FreeSlot(m)
            BY <3>1 DEF RejectSource, ReceiveOversize, ReceiveInSize, Receive, Enqueue,
                        ProcessingSettles, FreeSlot
        <3>2. CASE HandleSizeDrop(m) \/ HandleRateLimitDrop(m) \/ RefuseFull(m)
            BY <3>2 DEF HandleSizeDrop, HandleRateLimitDrop, RefuseFull
        <3>3. CASE Admit(m) \/ CountProcessed(m) \/ CountFailed(m)
            BY <3>3 DEF Admit, CountProcessed, CountFailed
        <3>. QED  BY <1>3, <3>1, <3>2, <3>3 DEF MessageStep
    <2>. QED  BY <2>1 DEF Bump
<1>. QED  BY <1>1, <1>2, <1>3 DEF Next, QueueNext

\* Sums of cuts are cuts.
LEMMA SumAddsUp ==
    ASSUME NEW a, NEW b, AddsUp(a), AddsUp(b)
    PROVE  AddsUp([c \in Counter |-> a[c] + b[c]])
BY DEF AddsUp, Counter

LEMMA CutsNext == CutsAddUp /\ [MNext]_mvars => CutsAddUp'
<1>. SUFFICES ASSUME CutsAddUp, [MNext]_mvars  PROVE CutsAddUp'
    OBVIOUS
<1>1. CASE QueueNext /\ UNCHANGED <<firing, snapshot, stored>>
    <2>1. AddsUp(metrics')
        BY <1>1, MetricsAddUp DEF CutsAddUp, Next
    <2>. QED  BY <1>1, <2>1 DEF CutsAddUp
<1>2. ASSUME NEW f \in Firings, FiringStep(f)
      PROVE  CutsAddUp'
    <2>1. CASE GetMetrics(f)
        <3>1. AddsUp(metrics') /\ AddsUp(stored')
            BY <2>1 DEF GetMetrics, CutsAddUp, vars
        <3>2. snapshot' = [snapshot EXCEPT ![f] = metrics]
            BY <2>1 DEF GetMetrics
        <3>. QED  BY <3>1, <3>2 DEF CutsAddUp, AddsUp
    <2>2. CASE WriteSucceeds(f)
        <3>1. AddsUp(stored')
            BY <2>2, SumAddsUp DEF WriteSucceeds, CutsAddUp
        <3>. QED  BY <2>2, <3>1 DEF WriteSucceeds, CutsAddUp, vars
    <2>3. CASE WriteFails(f)
        BY <2>3 DEF WriteFails, CutsAddUp, vars
    <2>4. CASE ClearAfterWrite(f)
        <3>1. ClearMetrics /\ UNCHANGED <<snapshot, stored>>
            BY <2>4 DEF ClearAfterWrite
        <3>2. AddsUp(metrics')
            BY <3>1, MetricsAddUp DEF CutsAddUp, Next
        <3>. QED  BY <3>1, <3>2 DEF CutsAddUp
    <2>. QED  BY <1>2, <2>1, <2>2, <2>3, <2>4 DEF FiringStep
<1>3. CASE UNCHANGED mvars
    BY <1>3 DEF mvars, vars, CutsAddUp
<1>. QED  BY <1>1, <1>2, <1>3 DEF MNext

\* Every point the timer stores is a consistent cut, although messages are counted
\* between the read, the write and the clear, firings overlap and writes fail.
THEOREM StoredPointsAddUp == MSpec => []PointsAddUp
<1>1. MInit => CutsAddUp
    BY DEF MInit, Init, Zero, CutsAddUp, AddsUp, Counter
<1>2. CutsAddUp => PointsAddUp
    BY DEF CutsAddUp, AddsUp, PointsAddUp
<1>. QED  BY <1>1, <1>2, CutsNext, PTL DEF MSpec

\* Under the timer the counters stay exact, cleared ones included.
THEOREM CountsStayExactUnderTimer == MSpec => []CountsExact
BY QueueUnderTimer, CountsStayExact
=============================================================================
