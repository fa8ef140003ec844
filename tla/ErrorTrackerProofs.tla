------------------------- MODULE ErrorTrackerProofs -------------------------
(***************************************************************************)
(* Proofs about ErrorTracker, for any types of errors, any number of days  *)
(* and however late the timer of a midnight runs: what the counters hold,  *)
(* and which days got their summary.                                       *)
(***************************************************************************)
EXTENDS ErrorTracker, TLAPS

\* Types of the variables the counters depend on.
CounterTypes ==
    /\ today \in Days /\ lastResetDate \in Days /\ timerDate \in Days
    /\ errorCounts \in [Types -> Nat]
    /\ errors \in [Days -> [Types -> Nat]]
    /\ early \in [Days -> [Types -> Nat]]

\* The counters are reset no later than the timer notes the day, and a day has no
\* errors before the counters are of that day.
DatesInOrder ==
    /\ timerDate <= lastResetDate /\ lastResetDate <= today
    /\ \A d \in Days : lastResetDate < d => errors[d] = None

\* Until the timer has run on a day, all its errors are early.
EarlyUntilTimer == \A d \in Days : timerDate < d => early[d] = errors[d]

\* Counters of a day the timer has not run on were reset by an early error.
EarlyResets == timerDate < lastResetDate => early[lastResetDate] # None

\* Early errors of the day the timer has run on were in the summary it logged.
EarlySummarised == early[timerDate] # None => timerDate \in summarised

\* The inductive invariant.
IInv ==
    /\ CounterTypes
    /\ DatesInOrder
    /\ CountsAreOfOneDay
    /\ EarlyUntilTimer
    /\ EarlyResets
    /\ EarlySummarised
    /\ DaysSummarised

-----------------------------------------------------------------------------
(* The steps.                                                              *)

LEMMA IInvInit == Init => IInv
<1>. SUFFICES ASSUME Init  PROVE IInv
    OBVIOUS
<1>. USE ErrorTrackerAssumption DEF ErrorTrackerAssumption, Init, Days, None
<1>1. CounterTypes /\ DatesInOrder
    BY DEF CounterTypes, DatesInOrder
<1>2. CountsAreOfOneDay
    <2>. SUFFICES ASSUME NEW t \in Types
                  PROVE  errorCounts[t] = errors[lastResetDate][t]
                            - (IF timerDate = lastResetDate THEN early[lastResetDate][t] ELSE 0)
        BY DEF CountsAreOfOneDay
    <2>1. errorCounts[t] = 0 /\ errors[lastResetDate][t] = 0 /\ early[lastResetDate][t] = 0
        OBVIOUS
    <2>. QED  BY <2>1
<1>3. EarlyUntilTimer /\ EarlyResets /\ EarlySummarised
    BY DEF EarlyUntilTimer, EarlyResets, EarlySummarised
<1>4. DaysSummarised
    BY DEF DaysSummarised
<1>. QED  BY <1>1, <1>2, <1>3, <1>4 DEF IInv

\* incrementError, wherever it is called from.
LEMMA IncrementKeeps ==
    ASSUME IInv, NEW t \in Types, NEW writing, IncrementError(t, writing),
           UNCHANGED <<today, timerDate, summarised>>
    PROVE  IInv'
<1>. USE DEF None
<1>0. CounterTypes /\ DatesInOrder /\ Days \subseteq Nat
    BY DEF IInv, Days
<1>1. /\ lastResetDate' = today
      /\ errorCounts' = [(IF lastResetDate = today THEN errorCounts ELSE None)
                            EXCEPT ![t] = @ + 1]
      /\ errors' = [errors EXCEPT ![today][t] = @ + 1]
      /\ early' = IF timerDate < today THEN [early EXCEPT ![today][t] = @ + 1] ELSE early
    BY DEF IncrementError
<1>2. CounterTypes'
    BY <1>0, <1>1 DEF CounterTypes
<1>3. DatesInOrder'
    BY <1>0, <1>1 DEF CounterTypes, DatesInOrder
<1>4. CountsAreOfOneDay'
    <2>. SUFFICES ASSUME NEW u \in Types
                  PROVE  errorCounts'[u] = errors'[today][u]
                            - (IF timerDate = today THEN early'[today][u] ELSE 0)
        BY <1>1 DEF CountsAreOfOneDay
    <2>1. errorCounts[u] = errors[lastResetDate][u]
              - (IF timerDate = lastResetDate THEN early[lastResetDate][u] ELSE 0)
        BY DEF IInv, CountsAreOfOneDay
    <2>2. CASE lastResetDate = today
        BY <1>0, <1>1, <2>1, <2>2 DEF CounterTypes, DatesInOrder
    <2>3. CASE lastResetDate # today
        <3>1. errors[today] = None /\ timerDate # today
            BY <1>0, <2>3 DEF CounterTypes, DatesInOrder
        <3>. QED  BY <1>0, <1>1, <2>3, <3>1 DEF CounterTypes
    <2>. QED  BY <2>2, <2>3
<1>5. EarlyUntilTimer'
    BY <1>0, <1>1 DEF IInv, EarlyUntilTimer, CounterTypes
<1>6. EarlyResets'
    BY <1>0, <1>1 DEF CounterTypes, EarlyResets
<1>7. EarlySummarised'
    BY <1>0, <1>1 DEF IInv, EarlySummarised, CounterTypes
<1>8. DaysSummarised'
    <2>. SUFFICES ASSUME NEW d \in Days, d < timerDate, errors'[d] # None
                  PROVE  d \in summarised \/ \E e \in (d + 1)..timerDate : early'[e] # None
        BY DEF DaysSummarised
    <2>1. errors[d] # None
        BY <1>0, <1>1 DEF CounterTypes, DatesInOrder
    <2>2. d \in summarised \/ \E e \in (d + 1)..timerDate : early[e] # None
        BY <2>1 DEF IInv, DaysSummarised
    <2>3. ASSUME NEW e \in (d + 1)..timerDate, early[e] # None
          PROVE  early'[e] # None
        BY <1>0, <1>1, <2>3 DEF CounterTypes, DatesInOrder
    <2>. QED  BY <2>2, <2>3
<1>. QED  BY <1>2, <1>3, <1>4, <1>5, <1>6, <1>7, <1>8 DEF IInv

\* The timer: whatever the counters hold is in the summary.
LEMMA MidnightKeeps ==
    ASSUME IInv, MidnightReset
    PROVE  IInv'
<1>. USE DEF None
<1>0. CounterTypes /\ DatesInOrder /\ Days \subseteq Nat
    BY DEF IInv, Days
<1>1. /\ timerDate < today /\ lastResetDate' = today /\ timerDate' = today
      /\ errorCounts' = None
      /\ summarised' = IF errorCounts # None THEN summarised \cup {lastResetDate}
                                             ELSE summarised
      /\ UNCHANGED <<today, errors, early>>
    BY DEF MidnightReset
<1>2. CounterTypes'
    BY <1>0, <1>1 DEF CounterTypes
<1>3. DatesInOrder'
    BY <1>0, <1>1 DEF CounterTypes, DatesInOrder
<1>4. early[today] = errors[today]
    BY <1>0, <1>1 DEF IInv, EarlyUntilTimer, CounterTypes
<1>5. CountsAreOfOneDay'
    BY <1>0, <1>1, <1>4 DEF CountsAreOfOneDay, CounterTypes
<1>6. EarlyUntilTimer'
    BY <1>0, <1>1 DEF IInv, EarlyUntilTimer, CounterTypes
<1>7. EarlyResets'
    BY <1>0, <1>1 DEF EarlyResets, CounterTypes
<1>8. EarlySummarised'
    <2>. SUFFICES ASSUME early[today] # None  PROVE today \in summarised'
        BY <1>1 DEF EarlySummarised
    <2>1. lastResetDate = today
        BY <1>0, <1>4 DEF CounterTypes, DatesInOrder
    <2>2. \A t \in Types : errorCounts[t] = errors[today][t]
        BY <1>0, <1>1, <2>1 DEF IInv, CountsAreOfOneDay, CounterTypes
    <2>3. errorCounts # None
        BY <1>0, <1>4, <2>2 DEF CounterTypes
    <2>. QED  BY <1>1, <2>1, <2>3
<1>9. DaysSummarised'
    <2>. SUFFICES ASSUME NEW d \in Days, d < today, errors[d] # None
                  PROVE  d \in summarised' \/ \E e \in (d + 1)..today : early[e] # None
        BY <1>1 DEF DaysSummarised
    <2>1. d <= lastResetDate
        BY <1>0 DEF CounterTypes, DatesInOrder
    <2>2. CASE d < timerDate
        <3>1. d \in summarised \/ \E e \in (d + 1)..timerDate : early[e] # None
            BY <2>2 DEF IInv, DaysSummarised
        <3>. QED  BY <1>0, <1>1, <3>1 DEF CounterTypes
    <2>3. CASE timerDate <= d /\ d < lastResetDate
        <3>1. early[lastResetDate] # None
            BY <1>0, <2>3 DEF IInv, EarlyResets, CounterTypes
        <3>. QED  BY <1>0, <2>3, <3>1 DEF CounterTypes, DatesInOrder
    <2>4. CASE d = lastResetDate /\ timerDate < d
        <3>1. \A t \in Types : errorCounts[t] = errors[d][t]
            <4>. SUFFICES ASSUME NEW t \in Types  PROVE errorCounts[t] = errors[d][t]
                OBVIOUS
            <4>1. timerDate # lastResetDate
                BY <1>0, <2>4 DEF CounterTypes
            <4>2. errorCounts[t] = errors[d][t] - 0
                BY <2>4, <4>1 DEF IInv, CountsAreOfOneDay
            <4>3. errors[d][t] \in Nat
                BY <1>0 DEF CounterTypes
            <4>. QED  BY <4>2, <4>3
        <3>2. errorCounts # None
            BY <1>0, <3>1 DEF CounterTypes
        <3>. QED  BY <1>1, <2>4, <3>2
    <2>5. CASE d = lastResetDate /\ timerDate = d
        <3>1. CASE early[d] # None
            BY <1>1, <2>5, <3>1 DEF IInv, EarlySummarised
        <3>2. CASE early[d] = None
            <4>1. \A t \in Types : errorCounts[t] = errors[d][t] - None[t]
                BY <2>5, <3>2 DEF IInv, CountsAreOfOneDay
            <4>2. errorCounts # None
                BY <1>0, <4>1 DEF CounterTypes
            <4>. QED  BY <1>1, <2>5, <4>2
        <3>. QED  BY <3>1, <3>2
    <2>. QED
        BY <1>0, <2>1, <2>2, <2>3, <2>4, <2>5 DEF CounterTypes
<1>. QED  BY <1>2, <1>3, <1>5, <1>6, <1>7, <1>8, <1>9 DEF IInv

LEMMA NewDayKeeps ==
    ASSUME IInv, NewDay
    PROVE  IInv'
<1>0. /\ CounterTypes /\ DatesInOrder /\ MaxDay \in Nat
      /\ today < MaxDay /\ today' = today + 1
      /\ UNCHANGED <<errorCounts, lastResetDate, errors, early, timerDate, summarised>>
    BY ErrorTrackerAssumption DEF IInv, NewDay, counterVars, ErrorTrackerAssumption
<1>1. CounterTypes' /\ DatesInOrder'
    BY <1>0 DEF CounterTypes, DatesInOrder, Days, None
<1>2. /\ CountsAreOfOneDay' /\ EarlyUntilTimer' /\ EarlyResets' /\ EarlySummarised'
      /\ DaysSummarised'
    BY <1>0 DEF IInv, CountsAreOfOneDay, EarlyUntilTimer, EarlyResets, EarlySummarised,
                DaysSummarised, Days, None
<1>. QED  BY <1>1, <1>2 DEF IInv

LEMMA IInvNext == IInv /\ [Next]_vars => IInv'
<1>. SUFFICES ASSUME IInv, [Next]_vars  PROVE IInv'
    OBVIOUS
<1>1. ASSUME NEW t \in Types, ErrorOccurs(t)  PROVE IInv'
    BY <1>1, IncrementKeeps DEF ErrorOccurs
<1>2. ASSUME NEW n \in 1..Sizes, EventFails(n)  PROVE IInv'
    BY <1>2, IncrementKeeps, ErrorTrackerAssumption DEF EventFails, ErrorTrackerAssumption
<1>3. CASE UNCHANGED <<today, counterVars, timerDate, summarised>>
    BY <1>3 DEF counterVars, IInv, CounterTypes, DatesInOrder, CountsAreOfOneDay,
                EarlyUntilTimer, EarlyResets, EarlySummarised, DaysSummarised, Days, None
<1>4. ASSUME NEW n \in 1..Sizes, EventStored(n)  PROVE IInv'
    BY <1>3, <1>4 DEF EventStored
<1>5. CASE InfluxChanges \/ UNCHANGED vars
    BY <1>3, <1>5 DEF InfluxChanges, vars
<1>6. CASE MidnightReset
    BY <1>6, MidnightKeeps
<1>7. CASE NewDay
    BY <1>7, NewDayKeeps
<1>. QED  BY <1>1, <1>2, <1>4, <1>5, <1>6, <1>7 DEF Next

-----------------------------------------------------------------------------
(* The theorems.                                                           *)

THEOREM InvariantHolds == Spec => []IInv
BY IInvInit, IInvNext, PTL DEF Spec

\* The counters always hold the errors of one day, that of lastResetDate, however
\* increments and the late timer interleave around midnight.
THEOREM CountsStayOfOneDay == Spec => []CountsAreOfOneDay
<1>1. IInv => CountsAreOfOneDay
    BY DEF IInv
<1>. QED  BY <1>1, InvariantHolds, PTL

\* A day with errors has had its summary once the timer has run after it, except where
\* errors between a later midnight and its timer took the counters.
THEOREM DaysAreSummarised == Spec => []DaysSummarised
<1>1. IInv => DaysSummarised
    BY DEF IInv
<1>. QED  BY <1>1, InvariantHolds, PTL
=============================================================================
