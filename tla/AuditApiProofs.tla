--------------------------- MODULE AuditApiProofs ---------------------------
(***************************************************************************)
(* Proofs about AuditApi, for any requests, any settings they are posted   *)
(* under and any limits: how much the rate limiter lets through in any     *)
(* span of time, and how often a source is warned about.                   *)
(***************************************************************************)
EXTENDS AuditApi, FiniteSetTheorems, SequenceTheorems, WellFoundedInduction, TLAPS

-----------------------------------------------------------------------------
(* The rate limiter, as operators on its state: rl is the state, p the     *)
(* times at which messages were let through, t the time it is.             *)

Within(p, a, b) == {i \in DOMAIN p : a <= p[i] /\ p[i] < b}

\* The current window: it has begun, it counts what it let through, and nothing was let
\* through after its time.
CurrentWindow(rl, p, t) ==
    /\ rl \in Limiter /\ p \in Seq(Nat) /\ t \in Nat
    /\ rl.start <= t
    /\ rl.count <= MaxMessagesPerMinute
    /\ \A i \in DOMAIN p : p[i] < rl.start + Window
    /\ Cardinality(Within(p, rl.start, rl.start + Window)) <= rl.count

\* A span that reaches back into the window before meets no other, and every span keeps
\* to twice the limit.
EarlierWindows(rl, p) ==
    /\ \A a \in Int : a > rl.start - Window =>
          Cardinality(Within(p, a, rl.start)) <= MaxMessagesPerMinute
    /\ \A a \in Int : Cardinality(Within(p, a, a + Window)) <= 2 * MaxMessagesPerMinute

WindowsFit(rl, p, t) == CurrentWindow(rl, p, t) /\ EarlierWindows(rl, p)

\* Spans are finite, and a wider one holds no less.
LEMMA WithinFinite ==
    ASSUME NEW p \in Seq(Nat), NEW a \in Int, NEW b \in Int
    PROVE  /\ IsFiniteSet(Within(p, a, b)) /\ Cardinality(Within(p, a, b)) \in Nat
           /\ \A S \in SUBSET Within(p, a, b) :
                 IsFiniteSet(S) /\ Cardinality(S) \in Nat /\ Cardinality(S) <= Cardinality(Within(p, a, b))
<1>1. IsFiniteSet(DOMAIN p)
  <2>1. DOMAIN p = 1..Len(p) /\ Len(p) \in Int /\ 1 \in Int
    OBVIOUS
  <2> QED BY <2>1, FS_Interval
<1>2. Within(p, a, b) \in SUBSET DOMAIN p
  BY DEF Within
<1>3. IsFiniteSet(Within(p, a, b))
  BY <1>1, <1>2, FS_Subset
<1> QED BY <1>3, FS_Subset, FS_CardinalityType

\* A window that is over is replaced by one opened now, and the spans keep to the limit.
LEMMA RenewingFits ==
    ASSUME NEW rl, NEW p, NEW t, WindowsFit(rl, p, t)
    PROVE  WindowsFit(Renewed(rl, t), p, t) /\ t < Renewed(rl, t).start + Window
<1>1. /\ rl \in Limiter /\ p \in Seq(Nat) /\ t \in Nat
      /\ rl.start \in Nat /\ rl.count \in Nat /\ Window \in Nat \ {0}
      /\ MaxMessagesPerMinute \in Nat
  BY RateLimiterAssumption DEF WindowsFit, CurrentWindow, Limiter
<1>2. CASE ~(t - rl.start >= Window)
  BY <1>1, <1>2 DEF Renewed
<1>3. CASE t - rl.start >= Window
  <2> DEFINE new == NewLimiter(t)
  <2>1. /\ Renewed(rl, t) = new /\ new \in Limiter /\ new.start = t /\ new.count = 0
        /\ rl.start + Window <= t
    BY <1>1, <1>3 DEF Renewed, NewLimiter, Limiter
  <2>2. \A i \in DOMAIN p : p[i] < rl.start + Window /\ p[i] \in Nat
    BY <1>1 DEF WindowsFit, CurrentWindow
  <2>3. Within(p, new.start, new.start + Window) = {}
    BY <1>1, <2>1, <2>2 DEF Within
  <2>4. CurrentWindow(new, p, t)
    <3>1. Cardinality(Within(p, new.start, new.start + Window)) = 0
      BY <2>3, FS_EmptySet
    <3>2. /\ \A i \in DOMAIN p : p[i] < t + Window
          /\ t <= t /\ 0 <= 0 /\ 0 <= MaxMessagesPerMinute
      BY <1>1, <2>1, <2>2
    <3> HIDE DEF new
    <3> QED BY <1>1, <2>1, <3>1, <3>2 DEF CurrentWindow
  <2>5. ASSUME NEW a \in Int, a > new.start - Window
        PROVE  Cardinality(Within(p, a, new.start)) <= MaxMessagesPerMinute
    <3>1. Within(p, a, new.start) \in SUBSET Within(p, rl.start, rl.start + Window)
      BY <1>1, <2>1, <2>2, <2>5 DEF Within
    <3>2. rl.start + Window \in Int
      BY <1>1
    <3>3. /\ Cardinality(Within(p, a, new.start))
                <= Cardinality(Within(p, rl.start, rl.start + Window))
          /\ Cardinality(Within(p, a, new.start)) \in Nat
          /\ Cardinality(Within(p, rl.start, rl.start + Window)) \in Nat
      BY <1>1, <3>1, <3>2, WithinFinite
    <3>4. Cardinality(Within(p, rl.start, rl.start + Window)) <= MaxMessagesPerMinute
      BY <1>1, <3>3 DEF WindowsFit, CurrentWindow
    <3> QED BY <1>1, <3>3, <3>4
  <2>6. EarlierWindows(new, p)
    BY <2>5 DEF WindowsFit, EarlierWindows
  <2> QED BY <1>1, <2>1, <2>4, <2>6 DEF WindowsFit
<1> QED BY <1>2, <1>3

\* A message let through in a window that is not over and has room for it.
LEMMA PassingFits ==
    ASSUME NEW rl, NEW p, NEW t, WindowsFit(rl, p, t), t < rl.start + Window,
           rl.count < MaxMessagesPerMinute
    PROVE  WindowsFit([rl EXCEPT !.count = @ + 1], Append(p, t), t)
<1> DEFINE q == Append(p, t)
           new == [rl EXCEPT !.count = @ + 1]
           last == Len(p) + 1
<1>1. /\ rl \in Limiter /\ p \in Seq(Nat) /\ t \in Nat
      /\ rl.start \in Nat /\ rl.count \in Nat /\ Window \in Nat \ {0}
      /\ MaxMessagesPerMinute \in Nat /\ rl.start <= t
  BY RateLimiterAssumption DEF WindowsFit, CurrentWindow, Limiter
<1>2. new \in Limiter /\ new.start = rl.start /\ new.count = rl.count + 1
  BY <1>1 DEF Limiter
<1>3. /\ q \in Seq(Nat) /\ DOMAIN q = DOMAIN p \cup {last} /\ last \notin DOMAIN p
      /\ q[last] = t /\ \A i \in DOMAIN p : q[i] = p[i] /\ p[i] \in Nat
  BY <1>1
<1> HIDE DEF q, new, last
\* The new message is in the spans that hold the present, and changes no other.
<1>4. ASSUME NEW a \in Int, NEW b \in Int
      PROVE  Within(q, a, b) = IF a <= t /\ t < b THEN Within(p, a, b) \cup {last}
                                                  ELSE Within(p, a, b)
  BY <1>3 DEF Within
<1>5. ASSUME NEW a \in Int, NEW b \in Int
      PROVE  Cardinality(Within(q, a, b)) = IF a <= t /\ t < b THEN Cardinality(Within(p, a, b)) + 1
                                                               ELSE Cardinality(Within(p, a, b))
  <2>1. last \notin Within(p, a, b) /\ IsFiniteSet(Within(p, a, b))
    BY <1>1, <1>3, WithinFinite DEF Within
  <2> QED BY <1>4, <2>1, FS_AddElement
<1>6. Cardinality(Within(p, rl.start, rl.start + Window)) <= rl.count
  BY DEF WindowsFit, CurrentWindow
<1>7. CurrentWindow(new, q, t)
  <2>1. rl.start + Window \in Int /\ rl.start \in Int
    BY <1>1
  <2>2. Cardinality(Within(q, rl.start, rl.start + Window)) <= rl.count + 1
    <3>1. Cardinality(Within(p, rl.start, rl.start + Window)) \in Nat
      BY <1>1, <2>1, WithinFinite
    <3> QED BY <1>1, <1>5, <1>6, <2>1, <3>1
  <2>3. \A i \in DOMAIN q : q[i] < rl.start + Window
    BY <1>3 DEF WindowsFit, CurrentWindow
  <2>4. rl.count + 1 <= MaxMessagesPerMinute
    BY <1>1
  <2> QED BY <1>1, <1>2, <1>3, <2>2, <2>3, <2>4 DEF CurrentWindow
<1>8. ASSUME NEW a \in Int, a > new.start - Window
      PROVE  Cardinality(Within(q, a, new.start)) <= MaxMessagesPerMinute
  <2>1. Cardinality(Within(q, a, rl.start)) = Cardinality(Within(p, a, rl.start))
    BY <1>1, <1>5
  <2> QED BY <1>2, <1>8, <2>1 DEF WindowsFit, EarlierWindows
<1>9. ASSUME NEW a \in Int
      PROVE  Cardinality(Within(q, a, a + Window)) <= 2 * MaxMessagesPerMinute
  <2>1. a + Window \in Int
    BY <1>1
  <2>2. CASE ~(a <= t /\ t < a + Window)
    BY <1>5, <2>1, <2>2 DEF WindowsFit, EarlierWindows
  <2>3. CASE a <= t /\ t < a + Window
    <3>1. Cardinality(Within(q, a, a + Window)) = Cardinality(Within(p, a, a + Window)) + 1
      BY <1>5, <2>1, <2>3
    <3>2. Within(p, a, a + Window) \in
              SUBSET (Within(p, a, rl.start) \cup Within(p, rl.start, rl.start + Window))
      BY <1>1, <1>3 DEF Within, WindowsFit, CurrentWindow
    <3>3. /\ IsFiniteSet(Within(p, a, rl.start)) /\ Cardinality(Within(p, a, rl.start)) \in Nat
          /\ IsFiniteSet(Within(p, rl.start, rl.start + Window))
          /\ Cardinality(Within(p, rl.start, rl.start + Window)) \in Nat
          /\ Cardinality(Within(p, a, a + Window)) \in Nat
      BY <1>1, <2>1, WithinFinite
    <3>4. Cardinality(Within(p, a, a + Window)) <=
              Cardinality(Within(p, a, rl.start)) + Cardinality(Within(p, rl.start, rl.start + Window))
      <4> DEFINE S == Within(p, a, rl.start)
                 T == Within(p, rl.start, rl.start + Window)
      <4> HIDE DEF S, T
      <4>1. IsFiniteSet(S) /\ IsFiniteSet(T) /\ Cardinality(S) \in Nat /\ Cardinality(T) \in Nat
        BY <3>3 DEF S, T
      <4>2. /\ IsFiniteSet(S \cup T)
            /\ Cardinality(S \cup T) = Cardinality(S) + Cardinality(T) - Cardinality(S \cap T)
        BY <4>1, FS_Union
      <4>3. Cardinality(S \cap T) \in Nat
        BY <4>1, FS_Intersection, FS_CardinalityType
      <4>4. Cardinality(Within(p, a, a + Window)) <= Cardinality(S \cup T)
        BY <3>2, <4>2, FS_Subset DEF S, T
      <4>5. Cardinality(Within(p, a, a + Window)) <= Cardinality(S) + Cardinality(T)
        BY <3>3, <4>1, <4>2, <4>3, <4>4
      <4> QED BY <4>5 DEF S, T
    <3>5. Cardinality(Within(p, a, rl.start)) <= MaxMessagesPerMinute
      <4>1. a > rl.start - Window
        BY <1>1, <2>3
      <4> QED BY <4>1 DEF WindowsFit, EarlierWindows
    <3> QED BY <1>1, <1>6, <3>1, <3>3, <3>4, <3>5
  <2> QED BY <2>2, <2>3
<1>10. EarlierWindows(new, q)
  BY <1>8, <1>9 DEF EarlierWindows
<1> QED BY <1>7, <1>10 DEF WindowsFit, new, q
-----------------------------------------------------------------------------
(* The rate limiter against the clock.                                     *)

WindowInv == WindowsFit(limiter, passed, now)

\* What the steps of the API do to the rate limiter and the clock.
LEMMA WindowSteps ==
    ASSUME [Next]_vars
    PROVE  CheckLimit \/ Tick(settings.clock) \/ UNCHANGED windowVars
<1>1. CASE UNCHANGED vars
  BY <1>1 DEF vars
<1>2. ASSUME NEW r \in Posted, Turned(r) PROVE UNCHANGED windowVars
  BY <1>2 DEF Turned
<1>3. ASSUME NEW r \in Posted, Taken(r) PROVE CheckLimit \/ UNCHANGED windowVars
  BY <1>3, Zenon DEF Taken
<1>4. ASSUME NEW r \in Posted, Works(r) PROVE Unmoved
  BY <1>4, Zenon DEF Works, Admit, Enqueue, Download, StoreEvent, EndJob
<1>5. ASSUME NEW f \in Flushes, FlushWorks(f) PROVE Unmoved
  BY <1>5 DEF FlushWorks
<1>6. ASSUME TimerFires \/ SessionStep PROVE Unmoved
  BY <1>6 DEF TimerFires, SessionStep
<1>7. ASSUME ClockTick PROVE Tick(settings.clock)
  BY <1>7 DEF ClockTick
<1>8. Unmoved => UNCHANGED windowVars
  BY DEF Unmoved
<1> QED BY <1>1, <1>2, <1>3, <1>4, <1>5, <1>6, <1>7, <1>8 DEF Next, Post

LEMMA WindowInvariant == Spec => []WindowInv
<1>1. Init => WindowInv
  <2> SUFFICES ASSUME Init PROVE WindowInv
    OBVIOUS
  <2>1. /\ limiter = NewLimiter(0) /\ now = 0 /\ passed = <<>>
        /\ limiter.start = 0 /\ limiter.count = 0 /\ limiter \in Limiter
        /\ Window \in Nat \ {0} /\ MaxMessagesPerMinute \in Nat
    BY RateLimiterAssumption DEF Init, WindowInit, NewLimiter, Limiter
  <2>2. passed \in Seq(Nat) /\ DOMAIN passed = {}
    BY <2>1
  <2>3. \A a, b : Within(passed, a, b) = {}
    BY <2>2 DEF Within
  <2>4. \A a, b : Cardinality(Within(passed, a, b)) = 0
    BY <2>3, FS_EmptySet
  <2>5. CurrentWindow(limiter, passed, now)
    BY <2>1, <2>2, <2>4 DEF CurrentWindow
  <2>6. 0 <= 2 * MaxMessagesPerMinute /\ 0 <= MaxMessagesPerMinute
    BY <2>1
  <2>7. EarlierWindows(limiter, passed)
    BY <2>4, <2>6 DEF EarlierWindows
  <2> QED BY <2>5, <2>7 DEF WindowInv, WindowsFit
<1>2. WindowInv /\ [Next]_vars => WindowInv'
  <2> SUFFICES ASSUME WindowInv, [Next]_vars PROVE WindowInv'
    OBVIOUS
  <2>1. CASE CheckLimit
    <3> DEFINE rl == Renewed(limiter, now)
    <3>1. WindowsFit(rl, passed, now) /\ now < rl.start + Window
      BY RenewingFits DEF WindowInv
    <3>2. CASE Allows(limiter, now)
      <4>1. rl.count < MaxMessagesPerMinute
        BY <3>2 DEF Allows
      <4>2. /\ limiter' = [rl EXCEPT !.count = @ + 1]
            /\ passed' = Append(passed, now) /\ now' = now
        BY <2>1, <3>2 DEF CheckLimit, AfterCheck
      <4> HIDE DEF rl
      <4>3. WindowsFit(limiter', passed', now')
        BY <3>1, <4>1, <4>2, PassingFits
      <4> QED BY <4>3 DEF WindowInv, WindowsFit, CurrentWindow, EarlierWindows, Within
    <3>3. CASE ~Allows(limiter, now)
      <4>1. limiter' = rl /\ passed' = passed /\ now' = now
        BY <2>1, <3>3 DEF CheckLimit, AfterCheck
      <4>2. WindowsFit(limiter', passed', now')
        BY <3>1, <4>1
      <4> QED BY <4>2 DEF WindowInv, WindowsFit, CurrentWindow, EarlierWindows, Within
    <3> QED BY <3>2, <3>3
  <2>2. CASE Tick(settings.clock)
    <3>1. now' = now + 1 /\ UNCHANGED <<limiter, passed>>
      BY <2>2 DEF Tick
    <3>2. CurrentWindow(limiter, passed, now + 1)
      BY DEF WindowInv, WindowsFit, CurrentWindow, Limiter
    <3>3. WindowsFit(limiter', passed', now')
      BY <3>1, <3>2 DEF WindowInv, WindowsFit
    <3> QED BY <3>3 DEF WindowInv, WindowsFit, CurrentWindow, EarlierWindows, Within
  <2>3. CASE UNCHANGED windowVars
    <3>1. limiter' = limiter /\ now' = now /\ passed' = passed
      BY <2>3 DEF windowVars
    <3>2. WindowsFit(limiter', passed', now')
      BY <3>1 DEF WindowInv
    <3> QED BY <3>2 DEF WindowInv, WindowsFit, CurrentWindow, EarlierWindows, Within
  <2> QED BY <2>1, <2>2, <2>3, WindowSteps
<1> QED BY <1>1, <1>2, PTL DEF Spec

\* However requests come, and wherever a span of one window's length begins, the rate
\* limiter lets at most twice the configured number through in it.
THEOREM SpansStayBounded == Spec => []AnySpanBounded
<1>1. WindowInv => AnySpanBounded
  <2> SUFFICES ASSUME WindowInv, NEW t \in 0..now
               PROVE  Cardinality(PassedIn(t, t + Window)) <= 2 * MaxMessagesPerMinute
    BY DEF AnySpanBounded
  <2>1. t \in Int
    OBVIOUS
  <2> QED BY <2>1 DEF WindowInv, WindowsFit, EarlierWindows, Within, PassedIn
<1> QED BY WindowInvariant, <1>1, PTL
-----------------------------------------------------------------------------
(* The warnings about a source.                                            *)

Source == UNION {{st.events[r].source : r \in DOMAIN st.events} : st \in SettingsSet}
Note == [kind: Kinds, source: Source, at: Nat]

ThrottleTypes ==
    /\ settings \in SettingsSet
    /\ DOMAIN throttle = Kinds
    /\ \A k \in Kinds : \A s \in DOMAIN throttle[k] :
          /\ throttle[k][s] \in [last: Nat, warnedAt: Nat]
          /\ throttle[k][s].warnedAt <= throttle[k][s].last /\ throttle[k][s].last <= now
    /\ warned \in Seq(Note)
    /\ \A i \in DOMAIN warned : warned[i].at <= now

Concerns(i, k, s) == warned[i].kind = k /\ warned[i].source = s

\* What is kept of a source is when it was last warned about.
KeptIsLastWarning ==
    \A k \in Kinds : \A s \in DOMAIN throttle[k] :
        /\ \E i \in DOMAIN warned : Concerns(i, k, s) /\ warned[i].at = throttle[k][s].warnedAt
        /\ \A i \in DOMAIN warned : Concerns(i, k, s) => warned[i].at <= throttle[k][s].warnedAt

\* A source is forgotten only when its warnings are older than the state is kept.
ForgottenIsOld ==
    \A k \in Kinds, i \in DOMAIN warned :
        warned[i].kind = k /\ warned[i].source \notin DOMAIN throttle[k] =>
            warned[i].at + StateTTL < now

ThrottleInv == ThrottleTypes /\ KeptIsLastWarning /\ ForgottenIsOld /\ WarnedOncePerWindow

\* The cleanup forgets none but those whose last violation is older than that.
LEMMA KeptStates ==
    ASSUME ThrottleTypes, NEW k \in Kinds, now \in Nat
    PROVE  /\ DOMAIN Kept(k) \in SUBSET DOMAIN throttle[k]
           /\ \A s \in DOMAIN Kept(k) : Kept(k)[s] = throttle[k][s]
           /\ \A s \in DOMAIN throttle[k] :
                 s \notin DOMAIN Kept(k) => throttle[k][s].last + StateTTL < now
<1> DEFINE recent == {s \in DOMAIN throttle[k] : now - throttle[k][s].last <= StateTTL}
           swept == [s \in recent |-> throttle[k][s]]
<1>1. CASE now - cleanedAt[k] < CleanupInterval
  BY <1>1 DEF Kept
<1>2. CASE ~(now - cleanedAt[k] < CleanupInterval)
  <2>1. Kept(k) = swept
    BY <1>2 DEF Kept
  <2>2. DOMAIN swept = recent /\ \A s \in recent : swept[s] = throttle[k][s]
    OBVIOUS
  <2>3. \A s \in DOMAIN throttle[k] : s \notin recent => throttle[k][s].last + StateTTL < now
    <3> SUFFICES ASSUME NEW s \in DOMAIN throttle[k], ~(now - throttle[k][s].last <= StateTTL)
                 PROVE  throttle[k][s].last + StateTTL < now
      OBVIOUS
    <3>1. throttle[k][s].last \in Nat /\ StateTTL \in Nat
      BY AuditApiAssumption DEF ThrottleTypes
    <3> QED BY <3>1
  <2> QED BY <2>1, <2>2, <2>3
<1> QED BY <1>1, <1>2

\* A violation is warned about unless its source was within the last window.
LEMMA NoticeKeeps ==
    ASSUME ThrottleInv, now \in Nat, now' = now, settings' = settings,
           NEW kind \in Kinds, NEW s \in Source, Notice(kind, s)
    PROVE  ThrottleInv'
<1> DEFINE kept == Kept(kind)
           warnedAt == IF s \in DOMAIN kept THEN kept[s].warnedAt ELSE LongAgo
           warns == now - warnedAt >= Window
           note == [kind |-> kind, source |-> s, at |-> now]
           state == [last |-> now, warnedAt |-> IF warns THEN now ELSE warnedAt]
<1>0. PICK last : last = Len(warned) + 1
  OBVIOUS
<1>1. /\ throttle' = [throttle EXCEPT ![kind] = [x \in {s} \cup DOMAIN kept |-> IF x = s THEN state ELSE kept[x]]]
      /\ noticed' = noticed \cup {note}
      /\ warned' = IF warns THEN Append(warned, note) ELSE warned
  BY DEF Notice
<1>2. /\ ThrottleTypes
      /\ DOMAIN throttle = Kinds
      /\ warned \in Seq(Note)
      /\ Window \in Nat \ {0} /\ StateTTL \in Nat /\ StateTTL > Window /\ CleanupInterval \in Nat
  BY RateLimiterAssumption, AuditApiAssumption DEF ThrottleInv, ThrottleTypes
<1>3. /\ DOMAIN kept \in SUBSET DOMAIN throttle[kind]
      /\ \A x \in DOMAIN kept : kept[x] = throttle[kind][x]
      /\ \A x \in DOMAIN throttle[kind] :
            x \notin DOMAIN kept => throttle[kind][x].last + StateTTL < now
  BY <1>2, KeptStates
<1>4. s \in DOMAIN kept => warnedAt \in Nat /\ warnedAt <= now /\ warnedAt = throttle[kind][s].warnedAt
  <2> SUFFICES ASSUME s \in DOMAIN kept
               PROVE  warnedAt \in Nat /\ warnedAt <= now /\ warnedAt = throttle[kind][s].warnedAt
    OBVIOUS
  <2>1. warnedAt = throttle[kind][s].warnedAt
    BY <1>3
  <2>2. /\ throttle[kind][s] \in [last: Nat, warnedAt: Nat]
        /\ throttle[kind][s].warnedAt <= throttle[kind][s].last /\ throttle[kind][s].last <= now
    BY <1>2, <1>3 DEF ThrottleTypes
  <2> QED BY <2>1, <2>2
<1>5. s \notin DOMAIN kept => warns
  BY <1>2 DEF LongAgo
<1> HIDE DEF kept
<1>6. /\ DOMAIN throttle' = Kinds
      /\ \A k \in Kinds : k # kind => throttle'[k] = throttle[k]
      /\ DOMAIN throttle'[kind] = {s} \cup DOMAIN kept
      /\ throttle'[kind][s] = state
      /\ \A x \in DOMAIN kept : x # s => throttle'[kind][x] = throttle[kind][x]
  <2>1. /\ DOMAIN throttle' = Kinds
        /\ \A k \in Kinds : k # kind => throttle'[k] = throttle[k]
        /\ throttle'[kind] = [x \in {s} \cup DOMAIN kept |-> IF x = s THEN state ELSE kept[x]]
    BY <1>1, <1>2
  <2> DEFINE new == [x \in {s} \cup DOMAIN kept |-> IF x = s THEN state ELSE kept[x]]
  <2>2. /\ DOMAIN new = {s} \cup DOMAIN kept
        /\ new[s] = state
        /\ \A x \in DOMAIN kept : x # s => new[x] = kept[x]
    <3> HIDE DEF state
    <3> QED OBVIOUS
  <2> QED BY <1>3, <2>1, <2>2
<1> DEFINE at == IF warns THEN now ELSE warnedAt
<1>7. state.last = now /\ state.warnedAt = at /\ at \in Nat /\ at <= now
      /\ state \in [last: Nat, warnedAt: Nat]
  BY <1>4, <1>5
\* Every warning about the source is at least as old as what is kept or forgotten says.
<1>8. \A i \in DOMAIN warned : Concerns(i, kind, s) =>
          warned[i].at \in Nat /\ warned[i].at <= now /\ (warns => now - warned[i].at >= Window)
  <2> SUFFICES ASSUME NEW i \in DOMAIN warned, Concerns(i, kind, s)
               PROVE  /\ warned[i].at \in Nat /\ warned[i].at <= now
                      /\ warns => now - warned[i].at >= Window
    OBVIOUS
  <2>1. warned[i].at \in Nat /\ warned[i].at <= now
    <3>1. warned[i] \in Note /\ warned[i].at <= now
      BY <1>2 DEF ThrottleTypes
    <3> QED BY <3>1 DEF Note
  <2>2. CASE s \in DOMAIN kept
    <3>1. warned[i].at <= warnedAt
      BY <1>3, <1>4, <2>2 DEF ThrottleInv, KeptIsLastWarning
    <3> QED BY <1>2, <1>4, <2>1, <2>2, <3>1
  <2>3. CASE s \notin DOMAIN kept /\ s \in DOMAIN throttle[kind]
    <3>1. throttle[kind][s].last + StateTTL < now
      BY <1>3, <2>3
    <3>2. warned[i].at <= throttle[kind][s].warnedAt
      BY <2>3 DEF ThrottleInv, KeptIsLastWarning
    <3>3. /\ throttle[kind][s].warnedAt <= throttle[kind][s].last
          /\ throttle[kind][s].warnedAt \in Nat /\ throttle[kind][s].last \in Nat
      BY <1>2, <2>3 DEF ThrottleTypes
    <3> QED BY <1>2, <2>1, <3>1, <3>2, <3>3
  <2>4. CASE s \notin DOMAIN throttle[kind]
    <3>1. warned[i].at + StateTTL < now
      BY <2>4 DEF ThrottleInv, ForgottenIsOld, Concerns
    <3> QED BY <1>2, <2>1, <3>1
  <2> QED BY <2>2, <2>3, <2>4
<1> HIDE DEF warnedAt, warns, state
<1>9. /\ warned' \in Seq(Note)
      /\ DOMAIN warned \in SUBSET DOMAIN warned'
      /\ \A i \in DOMAIN warned : warned'[i] = warned[i] /\ i \in Nat /\ i < last
      /\ warns => DOMAIN warned' = DOMAIN warned \cup {last} /\ warned'[last] = note
      /\ ~warns => warned' = warned
  <2>1. note \in Note
    BY DEF Note
  <2>2. CASE warns
    BY <1>0, <1>1, <1>2, <2>1, <2>2
  <2>3. CASE ~warns
    BY <1>0, <1>1, <1>2, <2>3
  <2> QED BY <2>2, <2>3
<1>10. note.kind = kind /\ note.source = s /\ note.at = now
  OBVIOUS
<1> HIDE DEF note
<1>11. ThrottleTypes'
  <2>1. ASSUME NEW k \in Kinds, NEW x \in DOMAIN throttle'[k]
        PROVE  /\ throttle'[k][x] \in [last: Nat, warnedAt: Nat]
               /\ throttle'[k][x].warnedAt <= throttle'[k][x].last /\ throttle'[k][x].last <= now
    <3>1. CASE k = kind /\ x = s
      BY <1>6, <1>7, <3>1
    <3>2. CASE ~(k = kind /\ x = s)
      <4>1. x \in DOMAIN throttle[k] /\ throttle'[k][x] = throttle[k][x]
        BY <1>3, <1>6, <2>1, <3>2
      <4> QED BY <1>2, <4>1 DEF ThrottleTypes
    <3> QED BY <3>1, <3>2
  <2>2. ASSUME NEW i \in DOMAIN warned' PROVE warned'[i].at <= now
    BY <1>2, <1>9, <1>10, <2>2 DEF ThrottleTypes
  <2>3. settings' \in SettingsSet
    BY <1>2 DEF ThrottleTypes
  <2> QED BY <1>6, <1>9, <2>1, <2>2, <2>3 DEF ThrottleTypes
<1>12. KeptIsLastWarning'
  <2> SUFFICES ASSUME NEW k \in Kinds, NEW x \in DOMAIN throttle'[k]
               PROVE  /\ \E i \in DOMAIN warned' :
                            Concerns(i, k, x)' /\ warned'[i].at = throttle'[k][x].warnedAt
                      /\ \A i \in DOMAIN warned' :
                            Concerns(i, k, x)' => warned'[i].at <= throttle'[k][x].warnedAt
    BY DEF KeptIsLastWarning
  <2>1. \A i \in DOMAIN warned : Concerns(i, k, x)' <=> Concerns(i, k, x)
    BY <1>9 DEF Concerns
  <2>2. CASE k = kind /\ x = s
    <3>1. throttle'[k][x].warnedAt = at
      BY <1>6, <1>7, <2>2
    <3>2. CASE warns
      <4>1. last \in DOMAIN warned' /\ Concerns(last, k, x)' /\ warned'[last].at = at /\ at = now
        BY <1>9, <1>10, <2>2, <3>2 DEF Concerns
      <4>2. \A i \in DOMAIN warned' : Concerns(i, k, x)' => warned'[i].at <= at
        BY <1>8, <1>9, <2>1, <2>2, <3>2, <4>1
      <4> QED BY <3>1, <4>1, <4>2
    <3>3. CASE ~warns
      <4>1. s \in DOMAIN kept /\ at = throttle[kind][s].warnedAt /\ s \in DOMAIN throttle[kind]
        BY <1>3, <1>4, <1>5, <3>3
      <4>2. /\ \E i \in DOMAIN warned : Concerns(i, kind, s) /\ warned[i].at = at
            /\ \A i \in DOMAIN warned : Concerns(i, kind, s) => warned[i].at <= at
        BY <4>1 DEF ThrottleInv, KeptIsLastWarning
      <4> QED BY <1>9, <2>1, <2>2, <3>1, <3>3, <4>2
    <3> QED BY <3>2, <3>3
  <2>3. CASE ~(k = kind /\ x = s)
    <3>1. x \in DOMAIN throttle[k] /\ throttle'[k][x] = throttle[k][x]
      BY <1>3, <1>6, <2>3
    <3>2. warns => ~Concerns(last, k, x)'
      BY <1>9, <1>10, <2>3 DEF Concerns
    <3>3. /\ \E i \in DOMAIN warned : Concerns(i, k, x) /\ warned[i].at = throttle[k][x].warnedAt
          /\ \A i \in DOMAIN warned : Concerns(i, k, x) => warned[i].at <= throttle[k][x].warnedAt
      BY <3>1 DEF ThrottleInv, KeptIsLastWarning
    <3> QED BY <1>9, <2>1, <3>1, <3>2, <3>3
  <2> QED BY <2>2, <2>3
<1>13. ForgottenIsOld'
  <2> SUFFICES ASSUME NEW k \in Kinds, NEW i \in DOMAIN warned',
                      warned'[i].kind = k, warned'[i].source \notin DOMAIN throttle'[k]
               PROVE  warned'[i].at + StateTTL < now
    BY DEF ForgottenIsOld
  <2>1. i \in DOMAIN warned /\ warned'[i] = warned[i]
    BY <1>6, <1>9, <1>10
  <2> DEFINE x == warned[i].source
  <2>2. CASE x \notin DOMAIN throttle[k]
    BY <2>1, <2>2 DEF ThrottleInv, ForgottenIsOld
  <2>3. CASE x \in DOMAIN throttle[k]
    <3>1. k = kind /\ x \notin DOMAIN kept
      BY <1>6, <2>1, <2>3
    <3>2. throttle[kind][x].last + StateTTL < now
      BY <1>3, <2>3, <3>1
    <3>3. warned[i].at <= throttle[kind][x].warnedAt
      BY <2>1, <2>3, <3>1 DEF ThrottleInv, KeptIsLastWarning, Concerns
    <3>4. /\ throttle[kind][x].warnedAt <= throttle[kind][x].last
          /\ throttle[kind][x].warnedAt \in Nat /\ throttle[kind][x].last \in Nat
      BY <1>2, <2>3, <3>1 DEF ThrottleTypes
    <3>5. warned[i] \in Note
      BY <1>2, <2>1
    <3>6. warned[i].at \in Nat
      BY <3>5 DEF Note
    <3> QED BY <1>2, <2>1, <3>2, <3>3, <3>4, <3>6
  <2> QED BY <2>2, <2>3
<1>14. WarnedOncePerWindow'
  <2>1. ASSUME NEW n \in noticed'
        PROVE  \E i \in DOMAIN warned' :
                  /\ warned'[i].kind = n.kind /\ warned'[i].source = n.source
                  /\ n.at - Window < warned'[i].at /\ warned'[i].at <= n.at
    <3>1. CASE n = note
      <4>1. at > now - Window
        BY <1>2, <1>4, <1>5 DEF warns
      <4>2. s \in DOMAIN throttle'[kind] /\ throttle'[kind][s].warnedAt = at
        BY <1>6, <1>7
      <4>3. PICK i \in DOMAIN warned' :
                Concerns(i, kind, s)' /\ warned'[i].at = throttle'[kind][s].warnedAt
        BY <1>12, <4>2 DEF KeptIsLastWarning
      <4> QED BY <1>7, <1>10, <3>1, <4>1, <4>2, <4>3 DEF Concerns
    <3>2. CASE n \in noticed
      BY <1>9, <3>2 DEF ThrottleInv, WarnedOncePerWindow
    <3> QED BY <1>1, <2>1, <3>1, <3>2
  <2>2. ASSUME NEW i \in DOMAIN warned', NEW j \in DOMAIN warned', i < j,
               warned'[i].kind = warned'[j].kind, warned'[i].source = warned'[j].source
        PROVE  warned'[j].at - warned'[i].at >= Window
    <3>1. i \in DOMAIN warned
      BY <1>9, <2>2
    <3>2. CASE j \in DOMAIN warned
      BY <1>9, <2>2, <3>1, <3>2 DEF ThrottleInv, WarnedOncePerWindow
    <3>3. CASE j \notin DOMAIN warned
      <4>1. warns /\ j = last /\ warned'[j] = note
        BY <1>9, <3>3
      <4>2. Concerns(i, kind, s) /\ warned'[i] = warned[i]
        BY <1>9, <1>10, <2>2, <3>1, <4>1 DEF Concerns
      <4> QED BY <1>8, <1>10, <3>1, <4>1, <4>2
    <3> QED BY <3>2, <3>3
  <2> QED BY <2>1, <2>2 DEF WarnedOncePerWindow
<1> QED BY <1>11, <1>12, <1>13, <1>14 DEF ThrottleInv
\* What the steps of the API do to the warnings.
LEMMA ThrottleSteps ==
    ASSUME [Next]_vars, settings \in SettingsSet, now \in Nat
    PROVE  \/ /\ \E k \in Kinds, s \in Source : Notice(k, s)
              /\ now' = now /\ settings' = settings
           \/ UNCHANGED <<settings, throttleVars>> /\ now' \in {now, now + 1}
<1> DEFINE Warns == \E k \in Kinds, s \in Source : Notice(k, s)
           Silent == UNCHANGED <<settings, throttleVars>> /\ now' \in {now, now + 1}
<1>1. CASE UNCHANGED vars
  BY <1>1 DEF vars, windowVars
<1>2. ASSUME NEW r \in Posted, Post(r)
      PROVE  Noticed(r) /\ now' = now /\ settings' = settings
  <2>1. CASE Turned(r)
    BY <2>1 DEF Turned, windowVars
  <2>2. CASE Taken(r)
    <3>1. Noticed(r) /\ settings' = settings
      BY <2>2 DEF Taken
    <3>2. UNCHANGED windowVars \/ CheckLimit
      BY <2>2, Zenon DEF Taken
    <3> QED BY <3>1, <3>2 DEF CheckLimit, windowVars
  <2> QED BY <1>2, <2>1, <2>2 DEF Post
<1>3. ASSUME NEW r \in Posted, Noticed(r) PROVE Warns \/ UNCHANGED throttleVars
  <2>1. settings.events[r].source \in Source
    BY DEF Posted, Source
  <2> QED BY <1>3, <2>1 DEF Noticed, Kinds
<1>4. ASSUME NEW r \in Posted, Works(r) PROVE Unmoved
  BY <1>4, Zenon DEF Works, Admit, Enqueue, Download, StoreEvent, EndJob
<1>5. ASSUME NEW f \in Flushes, FlushWorks(f) PROVE Unmoved
  BY <1>5 DEF FlushWorks
<1>6. ASSUME TimerFires \/ SessionStep PROVE Unmoved
  BY <1>6 DEF TimerFires, SessionStep
<1>7. ASSUME ClockTick PROVE Silent
  BY <1>7 DEF ClockTick, Tick
<1>8. Unmoved => Silent
  BY DEF Unmoved, windowVars
<1>9. ASSUME NEW r \in Posted, Post(r)
      PROVE  (Warns /\ now' = now /\ settings' = settings) \/ Silent
  BY <1>2, <1>3, <1>9
<1> QED BY <1>1, <1>4, <1>5, <1>6, <1>7, <1>8, <1>9 DEF Next

\* As time goes by warnings only grow older.
LEMMA SilenceKeeps ==
    ASSUME ThrottleInv, now \in Nat,
           UNCHANGED <<settings, throttleVars>>, now' \in {now, now + 1}
    PROVE  ThrottleInv'
<1>1. UNCHANGED <<settings, throttle, noticed, warned>> /\ now' \in Nat /\ now <= now'
  BY DEF throttleVars
<1>2. ThrottleTypes'
  <2>1. ASSUME NEW k \in Kinds, NEW s \in DOMAIN throttle[k]
        PROVE  throttle[k][s].last <= now'
    <3>1. throttle[k][s].last \in Nat /\ throttle[k][s].last <= now
      BY DEF ThrottleInv, ThrottleTypes
    <3> QED BY <1>1, <3>1
  <2>2. ASSUME NEW i \in DOMAIN warned PROVE warned[i].at <= now'
    <3>1. warned[i] \in Note /\ warned[i].at <= now
      BY DEF ThrottleInv, ThrottleTypes
    <3>2. warned[i].at \in Nat
      BY <3>1 DEF Note
    <3> QED BY <1>1, <3>1, <3>2
  <2> QED BY <1>1, <2>1, <2>2 DEF ThrottleInv, ThrottleTypes
<1>3. KeptIsLastWarning'
  BY <1>1 DEF ThrottleInv, KeptIsLastWarning, Concerns
<1>4. ForgottenIsOld'
  <2> SUFFICES ASSUME NEW k \in Kinds, NEW i \in DOMAIN warned,
                      warned[i].kind = k, warned[i].source \notin DOMAIN throttle[k]
               PROVE  warned[i].at + StateTTL < now'
    BY <1>1 DEF ForgottenIsOld
  <2>1. warned[i].at + StateTTL < now
    BY DEF ThrottleInv, ForgottenIsOld
  <2>2. warned[i] \in Note
    BY DEF ThrottleInv, ThrottleTypes
  <2>3. warned[i].at \in Nat /\ StateTTL \in Nat
    BY <2>2, AuditApiAssumption DEF Note
  <2> QED BY <1>1, <2>1, <2>3
<1>5. WarnedOncePerWindow'
  BY <1>1 DEF ThrottleInv, WarnedOncePerWindow
<1> QED BY <1>2, <1>3, <1>4, <1>5 DEF ThrottleInv

LEMMA ThrottleInvariant == Spec => []ThrottleInv
<1>1. Init => ThrottleInv
  <2> SUFFICES ASSUME Init PROVE ThrottleInv
    OBVIOUS
  <2>1. /\ settings \in SettingsSet /\ warned = <<>> /\ noticed = {}
        /\ throttle = [k \in Kinds |-> <<>>]
    BY DEF Init, JobsInit
  <2>2. DOMAIN warned = {} /\ warned \in Seq(Note) /\ \A k \in Kinds : DOMAIN throttle[k] = {}
    BY <2>1
  <2>3. ThrottleTypes
    BY <2>1, <2>2 DEF ThrottleTypes
  <2>4. KeptIsLastWarning /\ ForgottenIsOld /\ WarnedOncePerWindow
    BY <2>1, <2>2 DEF KeptIsLastWarning, ForgottenIsOld, WarnedOncePerWindow
  <2> QED BY <2>3, <2>4 DEF ThrottleInv
<1>2. WindowInv => now \in Nat
  BY DEF WindowInv, WindowsFit, CurrentWindow
<1>3. ThrottleInv /\ WindowInv /\ [Next]_vars => ThrottleInv'
  <2> SUFFICES ASSUME ThrottleInv, WindowInv, [Next]_vars PROVE ThrottleInv'
    OBVIOUS
  <2>1. settings \in SettingsSet
    BY DEF ThrottleInv, ThrottleTypes
  <2> QED BY <1>2, <2>1, ThrottleSteps, NoticeKeeps, SilenceKeeps
<1> QED BY <1>1, <1>3, WindowInvariant, PTL DEF Spec

\* Whatever there is to warn about, its source was warned about within the last window;
\* and no source is warned about twice in a window, although its state is thrown away
\* when it has been quiet for long.
THEOREM WarningsStayRare == Spec => []WarnedOncePerWindow
<1>1. ThrottleInv => WarnedOncePerWindow
  BY DEF ThrottleInv
<1> QED BY ThrottleInvariant, <1>1, PTL
-----------------------------------------------------------------------------
(* The jobs and the queue.                                                 *)

RequestStages == {"new", "adding", "admitted", "waiting", "running", "handled", "done", "answered"}
FlushStages == {"idle", "adding", "waiting", "running", "writing"}
StagesOf(j) == IF j \in Requests THEN RequestStages ELSE FlushStages

\* The queue holds jobs that wait, each once.
JobInv ==
    /\ settings \in SettingsSet
    /\ DOMAIN stage = Jobs
    /\ \A j \in Jobs : stage[j] \in StagesOf(j)
    /\ queue \in Seq(Jobs)
    /\ \A i \in DOMAIN queue : stage[queue[i]] = "waiting"
    /\ \A i, j \in DOMAIN queue : queue[i] = queue[j] => i = j

\* A job stays where it is, or is given the slot it has waited for.
Stays(j) == stage'[j] = stage[j] \/ (stage[j] = "waiting" /\ stage'[j] = "running")

LEMMA MovesKeep ==
    ASSUME JobInv, NEW j \in Jobs, stage[j] # "waiting", NEW to \in StagesOf(j), to # "waiting",
           Moves(j, to), UNCHANGED <<settings, queue>>
    PROVE  JobInv' /\ stage'[j] = to /\ \A i \in Jobs : i # j => stage'[i] = stage[i]
<1>1. /\ DOMAIN stage' = Jobs /\ stage'[j] = to
      /\ \A i \in Jobs : i # j => stage'[i] = stage[i]
  BY DEF JobInv, Moves
<1>2. \A i \in Jobs : stage'[i] \in StagesOf(i)
  BY <1>1 DEF JobInv
<1>3. \A i \in DOMAIN queue : stage'[queue[i]] = "waiting"
  <2> TAKE i \in DOMAIN queue
  <2>1. queue[i] \in Jobs /\ stage[queue[i]] = "waiting"
    BY DEF JobInv
  <2> QED BY <1>1, <2>1
<1> QED BY <1>1, <1>2, <1>3 DEF JobInv, StagesOf, Jobs

LEMMA EnqueuedKeeps ==
    ASSUME JobInv, NEW j \in Jobs, stage[j] # "waiting", Enqueued(j), UNCHANGED settings
    PROVE  JobInv' /\ stage'[j] \in {"waiting", "running"}
                   /\ \A i \in Jobs : i # j => stage'[i] = stage[i]
<1>1. {"running", "waiting"} \in SUBSET StagesOf(j)
  BY DEF StagesOf, RequestStages, FlushStages
<1>2. CASE Cardinality(Busy) < settings.maxConcurrent
  <2>1. Moves(j, "running") /\ UNCHANGED <<settings, queue>>
    BY <1>2 DEF Enqueued
  <2> QED BY <1>1, <2>1, MovesKeep
<1>3. CASE ~(Cardinality(Busy) < settings.maxConcurrent)
  <2>1. /\ stage' = [stage EXCEPT ![j] = "waiting"]
        /\ queue' = Append(queue, j)
    BY <1>3 DEF Enqueued, Moves
  <2>2. /\ DOMAIN stage' = Jobs /\ stage'[j] = "waiting"
        /\ \A i \in Jobs : i # j => stage'[i] = stage[i]
    BY <2>1 DEF JobInv
  <2>3. /\ queue' \in Seq(Jobs) /\ DOMAIN queue' = DOMAIN queue \cup {Len(queue) + 1}
        /\ \A i \in DOMAIN queue : queue'[i] = queue[i] /\ queue[i] \in Jobs
        /\ queue'[Len(queue) + 1] = j
    BY <2>1 DEF JobInv
  <2>4. \A i \in DOMAIN queue : queue[i] # j
    BY DEF JobInv
  <2>5. \A i \in DOMAIN queue' : stage'[queue'[i]] = "waiting"
    BY <2>2, <2>3 DEF JobInv
  <2>6. \A i, k \in DOMAIN queue' : queue'[i] = queue'[k] => i = k
    BY <2>3, <2>4 DEF JobInv
  <2>7. \A i \in Jobs : stage'[i] \in StagesOf(i)
    BY <1>1, <2>2 DEF JobInv
  <2> QED BY <2>2, <2>3, <2>5, <2>6, <2>7 DEF JobInv, StagesOf, Jobs
<1> QED BY <1>2, <1>3

\* The slot of a job that ends goes to the first in the queue.
LEMMA EndedKeeps ==
    ASSUME JobInv, NEW j \in Jobs, stage[j] # "waiting", NEW out \in StagesOf(j), out # "waiting",
           Ended(j, out), UNCHANGED settings
    PROVE  JobInv' /\ stage'[j] = out /\ \A i \in Jobs : i # j => Stays(i)
<1>1. CASE settings.manager /\ queue # <<>>
  <2> DEFINE h == Head(queue)
  <2>1. stage' = [stage EXCEPT ![j] = out, ![h] = "running"] /\ queue' = Tail(queue)
    BY <1>1 DEF Ended
  <2>2. h \in Jobs /\ h = queue[1] /\ stage[h] = "waiting" /\ h # j
    BY <1>1 DEF JobInv
  <2> HIDE DEF h
  <2>3. /\ DOMAIN stage' = Jobs /\ stage'[j] = out /\ stage'[h] = "running"
        /\ \A i \in Jobs : i # j /\ i # h => stage'[i] = stage[i]
    BY <2>1, <2>2 DEF JobInv
  <2>4. /\ queue' \in Seq(Jobs) /\ DOMAIN queue' = 1..(Len(queue) - 1)
        /\ DOMAIN queue = 1..Len(queue) /\ Len(queue) \in Nat
        /\ \A i \in DOMAIN queue' : queue'[i] = queue[i + 1] /\ i + 1 \in DOMAIN queue /\ i + 1 # 1
    BY <1>1, <2>1 DEF JobInv
  <2>5. ASSUME NEW i \in DOMAIN queue'
        PROVE  stage'[queue'[i]] = "waiting"
    <3>1. queue'[i] = queue[i + 1] /\ i + 1 \in DOMAIN queue /\ 1 \in DOMAIN queue /\ i + 1 # 1
      BY <2>4, <2>5
    <3>2. queue[i + 1] \in Jobs /\ stage[queue[i + 1]] = "waiting" /\ queue[i + 1] # h
      BY <2>2, <3>1 DEF JobInv
    <3> QED BY <2>3, <3>1, <3>2
  <2>6. \A i, k \in DOMAIN queue' : queue'[i] = queue'[k] => i = k
    <3> SUFFICES ASSUME NEW i \in DOMAIN queue', NEW k \in DOMAIN queue', queue'[i] = queue'[k]
                 PROVE  i = k
      OBVIOUS
    <3>1. i + 1 = k + 1
      BY <2>4 DEF JobInv
    <3>2. i \in Int /\ k \in Int
      BY <2>4
    <3> QED BY <3>1, <3>2
  <2>7. "running" \in StagesOf(h)
    BY DEF StagesOf, RequestStages, FlushStages
  <2>8. \A i \in Jobs : stage'[i] \in StagesOf(i)
    BY <2>3, <2>7 DEF JobInv
  <2>9. \A i \in Jobs : i # j => Stays(i)
    BY <2>2, <2>3 DEF Stays
  <2> QED BY <2>3, <2>4, <2>5, <2>6, <2>8, <2>9 DEF JobInv, StagesOf, Jobs
<1>2. CASE ~(settings.manager /\ queue # <<>>)
  <2>1. Moves(j, out) /\ UNCHANGED <<settings, queue>>
    BY <1>2 DEF Ended
  <2> QED BY <2>1, MovesKeep DEF Stays
<1> QED BY <1>1, <1>2

\* A flush is requested by giving a job to a flush that has none, or not at all.
LEMMA RequestFlushStages ==
    ASSUME NEW st, DOMAIN st = Jobs, RequestFlush(st)
    PROVE  \/ stage' = st
           \/ \E f \in Flushes : \E to \in {"adding", "running"} :
                 stage[f] = "idle" /\ stage' = [st EXCEPT ![f] = to]
<1>1. CASE flushQueued
  BY <1>1 DEF RequestFlush
<1>2. CASE ~flushQueued
  <2> DEFINE f == CHOOSE f \in IdleFlushes : TRUE
  <2>1. f \in IdleFlushes
    BY <1>2 DEF RequestFlush
  <2>2. stage' = [st EXCEPT ![f] = IF settings.manager THEN "adding" ELSE "running"]
    BY <1>2 DEF RequestFlush
  <2>3. f \in Flushes /\ stage[f] = "idle"
    BY <2>1 DEF IdleFlushes
  <2> HIDE DEF f
  <2> QED BY <2>2, <2>3
<1> QED BY <1>1, <1>2

\* The stage a flush is given, when another job may have moved at the same time.
LEMMA RequestFlushKeeps ==
    ASSUME JobInv, NEW st, DOMAIN st = Jobs, RequestFlush(st), UNCHANGED <<settings, queue>>,
           \A j \in Jobs : st[j] \in StagesOf(j),
           \A j \in Jobs : stage[j] = "waiting" => st[j] = "waiting",
           \A f \in Flushes : st[f] = stage[f]
    PROVE  /\ JobInv'
           /\ \A r \in Requests : stage'[r] = st[r]
           /\ \A f \in Flushes : \/ stage'[f] = stage[f]
                                 \/ stage[f] = "idle" /\ stage'[f] \in {"adding", "running"}
<1>1. \A i \in DOMAIN queue : queue[i] \in Jobs /\ st[queue[i]] = "waiting"
  BY DEF JobInv
<1>2. CASE stage' = st
  <2>1. \A j \in Jobs : stage'[j] \in StagesOf(j)
    BY <1>2
  <2>2. \A i \in DOMAIN queue : stage'[queue[i]] = "waiting"
    BY <1>1, <1>2
  <2>3. JobInv'
    BY <1>2, <2>1, <2>2 DEF JobInv, StagesOf, Jobs
  <2>4. \A r \in Requests : stage'[r] = st[r]
    BY <1>2
  <2>5. ASSUME NEW f \in Flushes PROVE stage'[f] = stage[f]
    BY <1>2
  <2> QED BY <2>3, <2>4, <2>5
<1>3. CASE \E f \in Flushes : \E to \in {"adding", "running"} :
                 stage[f] = "idle" /\ stage' = [st EXCEPT ![f] = to]
  <2>1. PICK f \in Flushes, to \in {"adding", "running"} :
                 stage[f] = "idle" /\ stage' = [st EXCEPT ![f] = to]
    BY <1>3
  <2>2. f \in Jobs /\ f \notin Requests /\ to \in StagesOf(f)
    BY AuditJobsAssumption DEF Jobs, StagesOf, FlushStages
  <2>3. /\ DOMAIN stage' = Jobs /\ stage'[f] = to
        /\ \A i \in Jobs : i # f => stage'[i] = st[i]
    BY <2>1, <2>2
  <2>4. \A i \in DOMAIN queue : stage'[queue[i]] = "waiting"
    <3>1. st[f] = "idle"
      BY <2>1
    <3> QED BY <1>1, <2>3, <3>1
  <2>5. \A j \in Jobs : stage'[j] \in StagesOf(j)
    BY <2>2, <2>3
  <2>6. JobInv'
    BY <2>3, <2>4, <2>5 DEF JobInv, StagesOf, Jobs
  <2>7. \A r \in Requests : stage'[r] = st[r]
    BY <2>2, <2>3 DEF Jobs
  <2>8. \A g \in Flushes : g \in Jobs
    BY DEF Jobs
  <2>9. ASSUME NEW g \in Flushes
        PROVE  \/ stage'[g] = stage[g]
               \/ stage[g] = "idle" /\ stage'[g] \in {"adding", "running"}
    <3>1. CASE g = f
      BY <2>1, <2>3, <3>1
    <3>2. CASE g # f
      <4>1. stage'[g] = st[g] /\ st[g] = stage[g]
        BY <2>3, <2>8, <3>2
      <4> QED BY <4>1
    <3> QED BY <3>1, <3>2
  <2> QED BY <2>6, <2>7, <2>9
<1> QED BY <1>2, <1>3, RequestFlushStages
-----------------------------------------------------------------------------
(* The session cache.                                                      *)

Key == {"fixed"} \cup UNION {{st.events[r].user : r \in DOMAIN st.events} : st \in SettingsSet}
Entry == [key: Key, session: Nat]

\* No session and no key is in the cache twice.
Unique(c) ==
    \A i, j \in DOMAIN c : (c[i].session = c[j].session \/ c[i].key = c[j].key) => i = j

\* An entry is taken out of the cache: the others stay, in their order.
LEMMA Removed ==
    ASSUME NEW c \in Seq(Entry), Unique(c), NEW p \in DOMAIN c
    PROVE  /\ RemoveAt(c, p) \in Seq(Entry) /\ Unique(RemoveAt(c, p))
           /\ ToSet(RemoveAt(c, p)) = ToSet(c) \ {c[p]}
<1> DEFINE w == RemoveAt(c, p)
<1>1. /\ DOMAIN c = 1..Len(c) /\ Len(c) \in Nat /\ p \in 1..Len(c)
  OBVIOUS
<1>2. /\ SubSeq(c, 1, p - 1) \in Seq(Entry) /\ SubSeq(c, p + 1, Len(c)) \in Seq(Entry)
      /\ Len(SubSeq(c, 1, p - 1)) = p - 1 /\ Len(SubSeq(c, p + 1, Len(c))) = Len(c) - p
      /\ \A j \in 1..(p - 1) : SubSeq(c, 1, p - 1)[j] = c[j]
      /\ \A j \in 1..(Len(c) - p) : SubSeq(c, p + 1, Len(c))[j] = c[j + p]
  BY <1>1
<1>3. /\ w \in Seq(Entry) /\ DOMAIN w = 1..(Len(c) - 1)
      /\ \A j \in DOMAIN w : w[j] = IF j < p THEN c[j] ELSE c[j + 1]
  <2> DEFINE a == SubSeq(c, 1, p - 1)
             b == SubSeq(c, p + 1, Len(c))
  <2>1. w = a \o b
    BY DEF RemoveAt
  <2>2. /\ a \in Seq(Entry) /\ Len(a) = p - 1 /\ \A j \in 1..(p - 1) : a[j] = c[j]
        /\ b \in Seq(Entry) /\ Len(b) = Len(c) - p /\ \A j \in 1..(Len(c) - p) : b[j] = c[j + p]
    BY <1>2
  <2> HIDE DEF a, b, w
  <2>3. /\ w \in Seq(Entry) /\ Len(w) = Len(a) + Len(b)
        /\ \A j \in 1..(Len(a) + Len(b)) : w[j] = IF j <= Len(a) THEN a[j] ELSE b[j - Len(a)]
    BY <2>1, <2>2, ConcatProperties
  <2>4. ASSUME NEW j \in 1..(Len(c) - 1) PROVE w[j] = IF j < p THEN c[j] ELSE c[j + 1]
    <3>1. CASE j < p
      BY <1>1, <2>2, <2>3, <3>1
    <3>2. CASE ~(j < p)
      <4>1. w[j] = b[j - (p - 1)]
        BY <1>1, <2>2, <2>3, <3>2
      <4>2. b[j - (p - 1)] = c[(j - (p - 1)) + p] /\ (j - (p - 1)) + p = j + 1
        BY <1>1, <2>2, <3>2
      <4> QED BY <3>2, <4>1, <4>2
    <3> QED BY <3>1, <3>2
  <2>5. DOMAIN w = 1..(Len(c) - 1)
    BY <1>1, <2>2, <2>3
  <2> QED BY <2>3, <2>4, <2>5
<1> HIDE DEF w
<1> DEFINE from(j) == IF j < p THEN j ELSE j + 1
<1>4. \A j \in DOMAIN w : from(j) \in DOMAIN c /\ from(j) # p /\ w[j] = c[from(j)]
  BY <1>1, <1>3
<1>5. \A i \in DOMAIN c : i # p => \E j \in DOMAIN w : from(j) = i
  <2> SUFFICES ASSUME NEW i \in DOMAIN c, i # p PROVE \E j \in DOMAIN w : from(j) = i
    OBVIOUS
  <2>1. CASE i < p
    <3>1. i \in DOMAIN w /\ from(i) = i
      BY <1>1, <1>3, <2>1
    <3> QED BY <3>1
  <2>2. CASE ~(i < p)
    <3>1. i - 1 \in DOMAIN w /\ from(i - 1) = i
      BY <1>1, <1>3, <2>2
    <3> QED BY <3>1
  <2> QED BY <2>1, <2>2
<1>6. \A i, j \in DOMAIN w : from(i) = from(j) => i = j
  BY <1>1, <1>3
<1> HIDE DEF from
<1>7. Unique(w)
  BY <1>4, <1>6 DEF Unique
<1>8. \A i \in DOMAIN c : c[i] = c[p] => i = p
  BY DEF Unique
<1>9. ToSet(w) = ToSet(c) \ {c[p]}
  <2>1. ASSUME NEW e \in ToSet(w) PROVE e \in ToSet(c) \ {c[p]}
    BY <1>4, <1>8, <2>1 DEF ToSet
  <2>2. ASSUME NEW e \in ToSet(c), e # c[p] PROVE e \in ToSet(w)
    BY <1>4, <1>5, <2>2 DEF ToSet
  <2> QED BY <2>1, <2>2
<1> QED BY <1>3, <1>7, <1>9 DEF w

\* An entry is put at the end of the cache.
LEMMA Appended ==
    ASSUME NEW c \in Seq(Entry), Unique(c), NEW e \in Entry,
           \A f \in ToSet(c) : f.key # e.key /\ f.session # e.session
    PROVE  /\ Append(c, e) \in Seq(Entry) /\ Unique(Append(c, e))
           /\ ToSet(Append(c, e)) = ToSet(c) \cup {e}
<1> DEFINE w == Append(c, e)
           last == Len(c) + 1
<1>1. /\ w \in Seq(Entry) /\ DOMAIN w = DOMAIN c \cup {last} /\ last \notin DOMAIN c
      /\ w[last] = e /\ \A i \in DOMAIN c : w[i] = c[i] /\ c[i] \in ToSet(c)
  BY DEF ToSet
<1> HIDE DEF w, last
<1>2. Unique(w)
  BY <1>1 DEF Unique
<1>3. ToSet(w) = ToSet(c) \cup {e}
  BY <1>1 DEF ToSet
<1> QED BY <1>1, <1>2, <1>3 DEF w

\* The cache without the entry of a key.
LEMMA WithoutKey ==
    ASSUME NEW c \in Seq(Entry), Unique(c), NEW key
    PROVE  /\ Without(c, key) \in Seq(Entry) /\ Unique(Without(c, key))
           /\ ToSet(Without(c, key)) = {e \in ToSet(c) : e.key # key}
<1>1. CASE Places(c, key) = {}
  <2>1. Without(c, key) = c
    BY <1>1 DEF Without
  <2>2. \A e \in ToSet(c) : e.key # key
    BY <1>1 DEF Places, ToSet
  <2> QED BY <2>1, <2>2
<1>2. CASE Places(c, key) # {}
  <2> DEFINE p == Place(c, key)
  <2>1. p \in DOMAIN c /\ c[p].key = key
    BY <1>2 DEF Place, Places
  <2>2. Without(c, key) = RemoveAt(c, p)
    BY <1>2 DEF Without
  <2> HIDE DEF p
  <2>3. ToSet(c) \ {c[p]} = {e \in ToSet(c) : e.key # key}
    BY <2>1 DEF ToSet, Unique
  <2> QED BY <2>1, <2>2, <2>3, Removed
<1> QED BY <1>1, <1>2

\* A hit only changes the order.
LEMMA TouchedKey ==
    ASSUME NEW c \in Seq(Entry), Unique(c), NEW key
    PROVE  /\ Touched(c, key) \in Seq(Entry) /\ Unique(Touched(c, key))
           /\ ToSet(Touched(c, key)) = ToSet(c)
<1>1. CASE Places(c, key) = {}
  BY <1>1 DEF Touched
<1>2. CASE Places(c, key) # {}
  <2> DEFINE p == Place(c, key)
             w == Without(c, key)
  <2>1. p \in DOMAIN c /\ c[p].key = key /\ c[p] \in ToSet(c) /\ c[p] \in Entry
    <3>1. p \in DOMAIN c /\ c[p].key = key
      BY <1>2 DEF Place, Places
    <3> HIDE DEF p
    <3> QED BY <3>1 DEF ToSet
  <2>2. Touched(c, key) = Append(w, c[p])
    BY <1>2 DEF Touched
  <2>3. w \in Seq(Entry) /\ Unique(w) /\ ToSet(w) = {e \in ToSet(c) : e.key # key}
    BY WithoutKey
  <2> HIDE DEF p, w
  <2>4. \A e \in ToSet(c) : e.key = c[p].key \/ e.session = c[p].session => e = c[p]
    BY <2>1 DEF ToSet, Unique
  <2>5. \A e \in ToSet(w) : e.key # c[p].key /\ e.session # c[p].session
    BY <2>1, <2>3, <2>4
  <2>6. /\ Append(w, c[p]) \in Seq(Entry) /\ Unique(Append(w, c[p]))
        /\ ToSet(Append(w, c[p])) = ToSet(w) \cup {c[p]}
    BY <2>1, <2>3, <2>5, Appended
  <2>7. ToSet(w) \cup {c[p]} = ToSet(c)
    BY <2>1, <2>3, <2>4
  <2> QED BY <2>2, <2>6, <2>7
<1> QED BY <1>1, <1>2

\* What a session that is looked up for a key is.
LEMMA CachedSession ==
    ASSUME NEW c \in Seq(Entry), NEW key
    PROVE  \/ Cached(c, key) = NoSession
           \/ CacheOn /\ \E e \in ToSet(c) : e.key = key /\ e.session = Cached(c, key)
<1>1. CASE CacheOn /\ Places(c, key) # {}
  <2> DEFINE p == Place(c, key)
  <2>1. p \in DOMAIN c /\ c[p].key = key
    BY <1>1 DEF Place, Places
  <2>2. Cached(c, key) = c[p].session
    BY <1>1 DEF Cached
  <2> HIDE DEF p
  <2> QED BY <1>1, <2>1, <2>2 DEF ToSet
<1>2. CASE ~(CacheOn /\ Places(c, key) # {})
  BY <1>2 DEF Cached
<1> QED BY <1>1, <1>2
-----------------------------------------------------------------------------
(* The downloads and their sessions: c is the cache, a the sessions Qlik   *)
(* was asked to delete, n the number of sessions it has opened.            *)

Phases == {"idle", "ticket", "get", "write", "pause", "cleanup", "done"}
File == [event: Requests, target: Int]
DownloadState == [phase: Phases, attempt: Nat, hops: Nat, used: Nat, cookie: Nat, kept: BOOLEAN,
              left: Int, saved: SUBSET File, rejected: SUBSET Nat, then: {"end", "again"}]

CacheFits(c, a, n) ==
    /\ c \in Seq(Entry) /\ Unique(c)
    /\ \A s \in a : s \in 1..n
    /\ \A x \in ToSet(c) : x.session \in 1..n /\ x.session \notin a

\* A download that has yet to decide about the session that was opened for it.
Held(d) == d.cookie # NoSession /\ ~d.kept /\ d.phase \in {"get", "write", "pause"}
Own(d) == {s \in {d.cookie} : Held(d)}

DownloadFits(r, d, c, a, n) ==
    /\ d \in DownloadState
    /\ d.cookie # NoSession => /\ d.phase \in {"get", "write", "pause", "cleanup"}
                               /\ d.used = NoSession /\ TicketMode /\ d.cookie \in 1..n
    /\ d.phase \in {"ticket", "get"} => ~d.kept
    /\ d.phase = "ticket" => d.used = NoSession
    /\ Held(d) => d.cookie \notin a /\ \A x \in ToSet(c) : x.session # d.cookie
    /\ d.used # NoSession => \/ d.used \in a
                             \/ \E x \in ToSet(c) : x.session = d.used /\ x.key = CacheKey(r)
    /\ d.rejected \in SUBSET a
    /\ d.phase = "get" => d.used \notin d.rejected

SessionsFit(dl, c, a, n) ==
    /\ dl \in [Requests -> DownloadState]
    /\ CacheFits(c, a, n)
    /\ \A r \in Requests : DownloadFits(r, dl[r], c, a, n)
    /\ \A r, q \in Requests : Own(dl[r]) \cap Own(dl[q]) # {} => r = q
    /\ \A s \in 1..n : \/ s \in Sessions(c) \/ s \in a
                       \/ \E r \in Requests : s \in Own(dl[r])

SessionInv ==
    /\ settings \in SettingsSet
    /\ qlik \in Seq({"open", "closed"})
    /\ SessionsFit(downloads, cache, asked, Len(qlik))

\* What a step does to the cache and to the sessions that are asked for, when own are
\* the sessions of the download that takes it: whatever leaves the cache is asked for.
Passes(own) ==
    /\ asked \in SUBSET asked'
    /\ \A s \in asked' : s \in asked \/ s \in own \/ s \in Sessions(cache)
    /\ \A x \in ToSet(cache) : x \in ToSet(cache') \/ x.session \in asked'
    /\ \A x \in ToSet(cache') : x \in ToSet(cache) \/ x.session \in own

\* What a step leaves behind that takes the download of r from d to e: what d held is
\* cached, asked for or held by e.
Leaves(r, d, e, n) ==
    /\ downloads' = [downloads EXCEPT ![r] = e]
    /\ CacheFits(cache', asked', n)
    /\ DownloadFits(r, e, cache', asked', n)
    /\ Passes(Own(d))
    /\ \A s \in Own(d) : s \in asked' \/ s \in Sessions(cache') \/ s \in Own(e)
    /\ Own(e) \in SUBSET Own(d)
    /\ e.saved \in SUBSET d.saved

LEMMA IdleState == Idle \in DownloadState
BY DEF Idle, DownloadState, Phases, NoSession

\* The states an attempt, and the end of the download, lead to.
AttemptOf(d, phase, hit, left) ==
    [d EXCEPT !.phase = phase, !.hops = 0, !.used = hit, !.cookie = 0,
              !.kept = FALSE, !.left = left, !.saved = {}]

LEMMA AttemptedState ==
    ASSUME NEW d \in DownloadState, NEW phase \in Phases, NEW hit \in Nat, NEW left \in Int
    PROVE  AttemptOf(d, phase, hit, left) \in DownloadState
BY DEF AttemptOf, DownloadState

LEMMA DoneState ==
    ASSUME NEW saved \in SUBSET File, NEW e,
           e = [Idle EXCEPT !.phase = "done", !.saved = saved]
    PROVE  /\ e \in DownloadState
           /\ e.phase = "done" /\ e.used = NoSession /\ e.cookie = NoSession /\ e.kept = FALSE
           /\ e.saved = saved /\ e.rejected = {}
<1>1. ASSUME NEW d \in DownloadState, e = [d EXCEPT !.phase = "done", !.saved = saved]
      PROVE  e \in DownloadState
  BY <1>1 DEF DownloadState, Phases
<1>2. e \in DownloadState
  BY <1>1, IdleState
<1> QED BY <1>2 DEF Idle

LEMMA SessionsOf == \A c : Sessions(c) = {x.session : x \in ToSet(c)}
BY DEF Sessions, ToSet

\* An attempt presents what the cache has for it, which nobody has asked to delete and
\* which therefore was not rejected.
LEMMA AttemptFits ==
    ASSUME NEW r, NEW d \in DownloadState, NEW c, NEW a, NEW n \in Nat,
           CacheFits(c, a, n), d.rejected \in SUBSET a, settings.targets \in Nat,
           NEW e, e = Attempted(r, d, c),
           NEW w, w = IF CacheOn THEN Touched(c, CacheKey(r)) ELSE c
    PROVE  /\ CacheFits(w, a, n) /\ ToSet(w) = ToSet(c)
           /\ DownloadFits(r, e, w, a, n)
           /\ Own(e) = {} /\ e.saved = {}
<1> DEFINE hit == Cached(c, CacheKey(r))
<1>1. w \in Seq(Entry) /\ Unique(w) /\ ToSet(w) = ToSet(c)
  <2>1. c \in Seq(Entry) /\ Unique(c)
    BY DEF CacheFits
  <2> QED BY <2>1, TouchedKey
<1>2. CacheFits(w, a, n)
  BY <1>1 DEF CacheFits
<1>3. \/ hit = NoSession
      \/ CacheOn /\ \E x \in ToSet(c) : x.key = CacheKey(r) /\ x.session = hit
  <2>1. c \in Seq(Entry)
    BY DEF CacheFits
  <2> QED BY <2>1, CachedSession
<1>4. hit \in Nat /\ hit \notin a
  <2>1. CASE hit = NoSession
    BY <2>1 DEF CacheFits, NoSession
  <2>2. CASE hit # NoSession
    <3>1. hit \in 1..n /\ hit \notin a
      BY <1>3, <2>2 DEF CacheFits
    <3> QED BY <3>1
  <2> QED BY <2>1, <2>2
<1>5. /\ e.phase = IF hit # NoSession \/ ~TicketMode THEN "get" ELSE "ticket"
      /\ e.used = hit /\ e.cookie = NoSession /\ e.kept = FALSE
      /\ e.saved = {} /\ e.rejected = d.rejected
      /\ e \in DownloadState
  <2> DEFINE phase == IF hit # NoSession \/ ~TicketMode THEN "get" ELSE "ticket"
  <2>1. e = [d EXCEPT !.phase = phase, !.hops = 0, !.used = hit, !.cookie = NoSession,
                      !.kept = FALSE, !.left = settings.targets, !.saved = {}]
    BY DEF Attempted
  <2>2. phase \in {"get", "ticket"} /\ phase \in Phases
    BY DEF Phases
  <2>3. hit \in Nat /\ NoSession \in Nat /\ settings.targets \in Int /\ {} \in SUBSET File
    BY <1>4 DEF NoSession
  <2> HIDE DEF hit, phase
  <2>4. e = AttemptOf(d, phase, hit, settings.targets)
    BY <2>1 DEF AttemptOf, NoSession
  <2>5. /\ e \in DownloadState
        /\ e.phase = phase /\ e.used = hit /\ e.cookie = 0 /\ e.kept = FALSE
        /\ e.saved = {} /\ e.rejected = d.rejected
    <3>1. e \in DownloadState
      BY <2>2, <2>3, <2>4, AttemptedState
    <3> QED BY <2>4, <3>1 DEF AttemptOf, DownloadState
  <2> QED BY <2>5 DEF phase, NoSession
<1> HIDE DEF hit
<1>6. Own(e) = {}
  BY <1>5 DEF Own, Held
<1>7. DownloadFits(r, e, w, a, n)
  BY <1>1, <1>3, <1>4, <1>5 DEF DownloadFits, Held
<1> QED BY <1>1, <1>2, <1>5, <1>6, <1>7

\* An attempt, or the end of the download, after a step that has left the cache as c,
\* with what the download d held asked for.
LEMMA ResumeLeaves ==
    ASSUME NEW r, NEW d, NEW n \in Nat, settings.targets \in Nat,
           NEW m \in DownloadState, m.rejected \in SUBSET asked', m.saved \in SUBSET d.saved,
           NEW c, CacheFits(c, asked', n),
           \/ Attempt(r, m, c)
           \/ Resume(r, m, c),
           asked \in SUBSET asked',
           \A s \in asked' : s \in asked \/ s \in Own(d) \/ s \in Sessions(cache),
           \A x \in ToSet(cache) : x \in ToSet(c) \/ x.session \in asked',
           \A x \in ToSet(c) : x \in ToSet(cache),
           Own(d) \in SUBSET asked'
    PROVE  \E e \in DownloadState : Leaves(r, d, e, n)
<1>1. ASSUME NEW k \in DownloadState, k.rejected = m.rejected, Attempt(r, k, c)
      PROVE  \E e \in DownloadState : Leaves(r, d, e, n)
  <2> DEFINE e == Attempted(r, k, c)
             w == IF CacheOn THEN Touched(c, CacheKey(r)) ELSE c
  <2>1. downloads' = [downloads EXCEPT ![r] = e] /\ cache' = w
    BY <1>1 DEF Attempt
  <2> HIDE DEF e, w
  <2>2. /\ CacheFits(w, asked', n) /\ ToSet(w) = ToSet(c)
        /\ DownloadFits(r, e, w, asked', n)
        /\ Own(e) = {} /\ e.saved = {}
    <3>1. /\ e = Attempted(r, k, c)
          /\ w = IF CacheOn THEN Touched(c, CacheKey(r)) ELSE c
          /\ k \in DownloadState /\ k.rejected \in SUBSET asked'
      BY <1>1 DEF e, w
    <3> QED BY <3>1, AttemptFits
  <2>3. Leaves(r, d, e, n)
    BY <2>1, <2>2 DEF Leaves, Passes
  <2>4. e \in DownloadState
    BY <2>2 DEF DownloadFits
  <2> QED BY <2>3, <2>4
<1>2. CASE Resume(r, m, c) /\ m.then = "again"
  <2> DEFINE k == [m EXCEPT !.attempt = @ + 1]
  <2>1. k \in DownloadState /\ k.rejected = m.rejected
    BY DEF DownloadState
  <2>2. Attempt(r, k, c)
    BY <1>2 DEF Resume
  <2> QED BY <1>1, <2>1, <2>2
<1>3. CASE Resume(r, m, c) /\ m.then # "again"
  <2> DEFINE e == [Idle EXCEPT !.phase = "done", !.saved = m.saved]
  <2>1. downloads' = [downloads EXCEPT ![r] = e] /\ cache' = c
    BY <1>3 DEF Resume
  <2>2. m.saved \in SUBSET File
    BY DEF DownloadState
  <2>3. /\ e \in DownloadState /\ e.phase = "done" /\ e.cookie = NoSession /\ e.used = NoSession
        /\ e.kept = FALSE /\ e.saved = m.saved /\ e.rejected = {}
    BY <2>2, DoneState
  <2> HIDE DEF e
  <2>4. Own(e) = {}
    BY <2>3 DEF Own, Held
  <2>5. DownloadFits(r, e, c, asked', n)
    BY <2>3 DEF DownloadFits, Held
  <2>6. Leaves(r, d, e, n)
    BY <2>1, <2>3, <2>4, <2>5 DEF Leaves, Passes
  <2> QED BY <2>3, <2>6
<1> QED BY <1>1, <1>2, <1>3
\* A step of another download leaves a download as it fits.
LEMMA OthersFit ==
    ASSUME NEW q, NEW d, NEW n, DownloadFits(q, d, cache, asked, n),
           NEW own, Passes(own), Own(d) \cap own = {}
    PROVE  DownloadFits(q, d, cache', asked', n)
<1>1. ASSUME Held(d) PROVE d.cookie \notin asked' /\ \A x \in ToSet(cache') : x.session # d.cookie
  <2>1. d.cookie \notin own
    BY <1>1 DEF Own
  <2>2. d.cookie \notin asked /\ \A x \in ToSet(cache) : x.session # d.cookie
    BY <1>1 DEF DownloadFits
  <2>3. d.cookie \notin Sessions(cache)
    BY <2>2, SessionsOf
  <2> QED BY <2>1, <2>2, <2>3 DEF Passes
<1>2. d.used # NoSession => \/ d.used \in asked'
                            \/ \E x \in ToSet(cache') : x.session = d.used /\ x.key = CacheKey(q)
  <2>1. d.used # NoSession => \/ d.used \in asked
                              \/ \E x \in ToSet(cache) : x.session = d.used /\ x.key = CacheKey(q)
    BY DEF DownloadFits
  <2> QED BY <2>1 DEF Passes
<1>3. d.rejected \in SUBSET asked'
  <2>1. d.rejected \in SUBSET asked
    BY DEF DownloadFits
  <2> QED BY <2>1 DEF Passes
<1> QED BY <1>1, <1>2, <1>3 DEF DownloadFits

\* A step that leaves a download as Leaves says leaves all of them as they should be.
LEMMA LeavesFit ==
    ASSUME NEW dl, NEW n, SessionsFit(dl, cache, asked, n),
           NEW r \in Requests, NEW e \in DownloadState, Leaves(r, dl[r], e, n),
           downloads' = [dl EXCEPT ![r] = e]
    PROVE  SessionsFit(downloads', cache', asked', n)
<1>1. /\ dl \in [Requests -> DownloadState]
      /\ downloads' \in [Requests -> DownloadState] /\ downloads'[r] = e
      /\ \A q \in Requests : q # r => downloads'[q] = dl[q]
  BY DEF SessionsFit
<1>2. \A q \in Requests : q # r => Own(dl[q]) \cap Own(dl[r]) = {}
  BY DEF SessionsFit
<1>3. ASSUME NEW q \in Requests PROVE DownloadFits(q, downloads'[q], cache', asked', n)
  <2>1. CASE q = r
    BY <1>1, <2>1 DEF Leaves
  <2>2. CASE q # r
    <3>1. DownloadFits(q, dl[q], cache, asked, n) /\ Passes(Own(dl[r]))
      BY DEF SessionsFit, Leaves
    <3>2. DownloadFits(q, dl[q], cache', asked', n)
      BY <1>2, <2>2, <3>1, OthersFit
    <3> QED BY <1>1, <2>2, <3>2
  <2> QED BY <2>1, <2>2
<1>4. \A q, p \in Requests : Own(downloads'[q]) \cap Own(downloads'[p]) # {} => q = p
  <2>1. Own(e) \in SUBSET Own(dl[r])
    BY DEF Leaves
  <2>2. \A q, p \in Requests : Own(dl[q]) \cap Own(dl[p]) # {} => q = p
    BY DEF SessionsFit
  <2>3. \A q \in Requests : Own(downloads'[q]) \in SUBSET Own(dl[q])
    BY <1>1, <2>1
  <2> QED BY <2>2, <2>3
<1>5. ASSUME NEW s \in 1..n
      PROVE  \/ s \in Sessions(cache') \/ s \in asked'
             \/ \E q \in Requests : s \in Own(downloads'[q])
  <2>1. CASE s \in Sessions(cache) \/ s \in asked
    <3>1. \A x \in ToSet(cache') : x.session \in Sessions(cache')
      BY SessionsOf
    <3>2. s \in asked \/ \E x \in ToSet(cache) : x.session = s
      BY <2>1, SessionsOf
    <3> QED BY <3>1, <3>2 DEF Leaves, Passes
  <2>2. CASE \E q \in Requests : s \in Own(dl[q])
    <3>1. PICK q \in Requests : s \in Own(dl[q])
      BY <2>2
    <3>2. CASE q = r
      BY <1>1, <3>1, <3>2 DEF Leaves
    <3>3. CASE q # r
      BY <1>1, <3>1, <3>3
    <3> QED BY <3>2, <3>3
  <2> QED BY <2>1, <2>2 DEF SessionsFit
<1>6. CacheFits(cache', asked', n)
  BY DEF Leaves
<1> QED BY <1>1, <1>3, <1>4, <1>5, <1>6 DEF SessionsFit

\* What a download fits does not depend on how often it was tried, nor on what it saved.
LEMMA FieldsFit ==
    ASSUME NEW r, NEW d, NEW c, NEW a, NEW n, DownloadFits(r, d, c, a, n),
           NEW e \in DownloadState,
           e.phase = d.phase, e.used = d.used, e.cookie = d.cookie, e.kept = d.kept,
           e.rejected = d.rejected
    PROVE  DownloadFits(r, e, c, a, n) /\ Own(e) = Own(d) /\ (Held(e) <=> Held(d))
<1>1. Held(e) <=> Held(d)
  BY DEF Held
<1>2. Own(e) = Own(d)
  BY <1>1 DEF Own
<1> QED BY <1>1, <1>2 DEF DownloadFits

\* The finally block, of a download as it has fitted so far.
LEMMA LeaveLeaves ==
    ASSUME NEW r, NEW n \in Nat, settings.targets \in Nat, CacheFits(cache, asked, n),
           NEW m, DownloadFits(r, m, cache, asked, n),
           m.phase \in {"ticket", "get", "write", "pause"}, Leave(r, m)
    PROVE  \E e \in DownloadState : Leaves(r, m, e, n)
<1>1. CASE TicketMode /\ m.cookie # NoSession /\ ~m.kept /\ m.used = NoSession
  <2> DEFINE e == [m EXCEPT !.phase = "cleanup"]
  <2>1. /\ downloads' = [downloads EXCEPT ![r] = e]
        /\ asked' = asked \cup {m.cookie} /\ cache' = cache
    BY <1>1 DEF Leave
  <2>2. /\ e \in DownloadState /\ e.phase = "cleanup" /\ e.used = NoSession
        /\ e.cookie = m.cookie /\ e.kept = m.kept /\ e.saved = m.saved /\ e.rejected = m.rejected
    BY <1>1 DEF DownloadFits, DownloadState, Phases
  <2>3. Held(m) /\ Own(m) = {m.cookie}
    BY <1>1 DEF DownloadFits, Held, Own
  <2>4. /\ m.cookie \in 1..n /\ m.cookie \notin asked
        /\ \A x \in ToSet(cache) : x.session # m.cookie
    BY <1>1, <2>3 DEF DownloadFits
  <2> HIDE DEF e
  <2>5. CacheFits(cache', asked', n)
    BY <2>1, <2>4 DEF CacheFits
  <2>6. Own(e) = {} /\ ~Held(e)
    BY <2>2 DEF Own, Held
  <2>7. DownloadFits(r, e, cache', asked', n)
    BY <1>1, <2>1, <2>2, <2>4, <2>6 DEF DownloadFits
  <2>8. Leaves(r, m, e, n)
    BY <2>1, <2>2, <2>3, <2>5, <2>6, <2>7 DEF Leaves, Passes
  <2> QED BY <2>2, <2>8
<1>2. CASE ~(TicketMode /\ m.cookie # NoSession /\ ~m.kept /\ m.used = NoSession)
  <2>1. Resume(r, m, cache) /\ asked' = asked
    BY <1>2 DEF Leave
  <2>2. Own(m) = {}
    BY <1>2 DEF DownloadFits, Own, Held
  <2>3. m \in DownloadState /\ m.rejected \in SUBSET asked
    BY DEF DownloadFits
  <2> QED BY <2>1, <2>2, <2>3, ResumeLeaves
<1> QED BY <1>1, <1>2

LEMMA GiveUpLeaves ==
    ASSUME NEW r, NEW n \in Nat, settings.targets \in Nat, CacheFits(cache, asked, n),
           NEW d, DownloadFits(r, d, cache, asked, n),
           d.phase \in {"ticket", "get", "write", "pause"}, GiveUp(r, d)
    PROVE  \E e \in DownloadState : Leaves(r, d, e, n)
<1> DEFINE m == [d EXCEPT !.then = "end", !.saved = {}]
<1>1. Leave(r, m)
  BY DEF GiveUp
<1>2. /\ m \in DownloadState /\ m.phase = d.phase /\ m.used = d.used /\ m.cookie = d.cookie
      /\ m.kept = d.kept /\ m.rejected = d.rejected /\ m.saved = {}
  BY DEF DownloadFits, DownloadState
<1> HIDE DEF m
<1>3. DownloadFits(r, m, cache, asked, n) /\ Own(m) = Own(d)
  BY <1>2, FieldsFit
<1>4. PICK e \in DownloadState : Leaves(r, m, e, n)
  BY <1>1, <1>2, <1>3, LeaveLeaves
<1>5. Leaves(r, d, e, n)
  BY <1>2, <1>3, <1>4 DEF Leaves
<1> QED BY <1>5

LEMMA TryLaterLeaves ==
    ASSUME NEW r, NEW n \in Nat, settings.targets \in Nat, CacheFits(cache, asked, n),
           NEW d, DownloadFits(r, d, cache, asked, n),
           d.phase \in {"ticket", "get", "write", "pause"}, TryLater(r, d)
    PROVE  \E e \in DownloadState : Leaves(r, d, e, n)
<1>1. CASE d.attempt < MaxAttempts
  <2> DEFINE e == [d EXCEPT !.phase = "pause", !.then = "again"]
  <2>1. /\ downloads' = [downloads EXCEPT ![r] = e] /\ cache' = cache /\ asked' = asked
    BY <1>1 DEF TryLater
  <2>2. /\ e \in DownloadState /\ e.phase = "pause" /\ e.used = d.used /\ e.cookie = d.cookie
        /\ e.kept = d.kept /\ e.rejected = d.rejected /\ e.saved = d.saved
    BY DEF DownloadFits, DownloadState, Phases
  <2> HIDE DEF e
  <2>3. Held(e) <=> Held(d)
    BY <2>2 DEF Held, DownloadFits
  <2>4. Own(e) = Own(d)
    BY <2>2, <2>3 DEF Own
  <2>5. DownloadFits(r, e, cache, asked, n)
    BY <2>2, <2>3 DEF DownloadFits
  <2>6. Leaves(r, d, e, n)
    BY <2>1, <2>2, <2>4, <2>5 DEF Leaves, Passes
  <2> QED BY <2>2, <2>6
<1>2. CASE ~(d.attempt < MaxAttempts)
  <2>1. GiveUp(r, d)
    BY <1>2 DEF TryLater
  <2> QED BY <2>1, GiveUpLeaves
<1> QED BY <1>1, <1>2
\* What a step of a download keeps: the sessions are accounted for, and what downloads
\* name as saved is on disk if it was before.
Advances ==
    /\ SessionInv'
    /\ files \in SUBSET files'
    /\ \A q \in Requests : downloads'[q].saved \in SUBSET (downloads[q].saved \cup files')

LEMMA SessionsFitLater ==
    ASSUME UNCHANGED settings, settings \in SettingsSet, qlik' \in Seq({"open", "closed"}),
           SessionsFit(downloads', cache', asked', Len(qlik'))
    PROVE  SessionInv'
<1>1. TicketMode' = TicketMode /\ \A r : CacheKey(r)' = CacheKey(r)
  BY DEF TicketMode, CacheKey
<1>2. \A r \in Requests :
          DownloadFits(r, downloads'[r], cache', asked', Len(qlik')) <=>
              DownloadFits(r, downloads[r], cache, asked, Len(qlik))'
  BY <1>1 DEF DownloadFits, Held
<1>3. SessionsFit(downloads, cache, asked, Len(qlik))'
  BY <1>2 DEF SessionsFit, CacheFits, Unique, Own, Held, Sessions
<1> QED BY <1>3 DEF SessionInv

\* A step that first changes the download of r to m, and then leaves it as e.
LEMMA StepAdvances ==
    ASSUME SessionInv, UNCHANGED settings, NEW r \in Requests, NEW m \in DownloadState,
           NEW dl, dl = [downloads EXCEPT ![r] = m],
           qlik' \in Seq({"open", "closed"}),
           SessionsFit(dl, cache, asked, Len(qlik')),
           \E e \in DownloadState : Leaves(r, m, e, Len(qlik')),
           files \in SUBSET files', m.saved \in SUBSET (downloads[r].saved \cup files')
    PROVE  Advances
<1>1. PICK e \in DownloadState : Leaves(r, m, e, Len(qlik'))
  OBVIOUS
<1>2. downloads \in [Requests -> DownloadState]
  BY DEF SessionInv, SessionsFit
<1>3. /\ downloads' = [downloads EXCEPT ![r] = e] /\ downloads' = [dl EXCEPT ![r] = e]
      /\ dl[r] = m
  BY <1>1, <1>2 DEF Leaves
<1>4. SessionsFit(downloads', cache', asked', Len(qlik'))
  <2> DEFINE n == Len(qlik')
  <2>1. SessionsFit(dl, cache, asked, n)
    OBVIOUS
  <2>2. Leaves(r, dl[r], e, n)
    <3>1. Leaves(r, m, e, n)
      BY <1>1
    <3> QED BY <1>3, <3>1
  <2> HIDE DEF n
  <2>3. SessionsFit(downloads', cache', asked', n)
    BY <1>3, <2>1, <2>2, LeavesFit
  <2> QED BY <2>3 DEF n
<1>5. SessionInv'
  <2>1. settings \in SettingsSet
    BY DEF SessionInv
  <2> QED BY <1>4, <2>1, SessionsFitLater
<1>6. e.saved \in SUBSET m.saved
  BY <1>1 DEF Leaves
<1>7. ASSUME NEW q \in Requests
      PROVE  downloads'[q].saved \in SUBSET (downloads[q].saved \cup files')
  <2>1. CASE q = r
    BY <1>2, <1>3, <1>6, <2>1
  <2>2. CASE q # r
    BY <1>2, <1>3, <2>2
  <2> QED BY <2>1, <2>2
<1> QED BY <1>5, <1>7 DEF Advances

\* What is known of a download while it has fitted.
LEMMA KnownDownload ==
    ASSUME SessionInv, NEW r \in Requests
    PROVE  /\ downloads[r] \in DownloadState
           /\ DownloadFits(r, downloads[r], cache, asked, Len(qlik))
           /\ CacheFits(cache, asked, Len(qlik))
           /\ settings.targets \in Nat /\ settings.maxEntries \in Nat
           /\ Len(qlik) \in Nat
           /\ [downloads EXCEPT ![r] = downloads[r]] = downloads
           /\ SessionsFit(downloads, cache, asked, Len(qlik))
<1>1. settings \in SettingsSet
  BY DEF SessionInv
<1>2. settings.targets \in Nat /\ settings.maxEntries \in Nat
  BY <1>1, AuditJobsAssumption
<1> QED BY <1>2 DEF SessionInv, SessionsFit

\* A step that leaves the download from the state it was in, with no new session.
LEMMA OldAdvances ==
    ASSUME SessionInv, UNCHANGED <<settings, qlik, files>>, NEW r \in Requests,
           \E e \in DownloadState : Leaves(r, downloads[r], e, Len(qlik))
    PROVE  Advances
<1>1. downloads[r] \in DownloadState /\ SessionsFit(downloads, cache, asked, Len(qlik))
      /\ [downloads EXCEPT ![r] = downloads[r]] = downloads
  BY KnownDownload
<1>2. qlik' \in Seq({"open", "closed"}) /\ Len(qlik') = Len(qlik)
  BY DEF SessionInv
<1> QED BY <1>1, <1>2, StepAdvances

LEMMA PauseEndsAdvances ==
    ASSUME SessionInv, UNCHANGED settings, NEW r \in Requests, PauseEnds(r)
    PROVE  Advances
<1>1. \E e \in DownloadState : Leaves(r, downloads[r], e, Len(qlik))
  BY KnownDownload, LeaveLeaves DEF PauseEnds
<1> QED BY <1>1, OldAdvances DEF PauseEnds

LEMMA ThrowsAdvances ==
    ASSUME SessionInv, UNCHANGED settings, NEW r \in Requests, Throws(r)
    PROVE  Advances
<1>1. \E e \in DownloadState : Leaves(r, downloads[r], e, Len(qlik))
  BY KnownDownload, TryLaterLeaves DEF Throws
<1> QED BY <1>1, OldAdvances DEF Throws

LEMMA NoAnswerAdvances ==
    ASSUME SessionInv, UNCHANGED settings, NEW r \in Requests, NEW opens \in BOOLEAN,
           NoAnswer(r, opens)
    PROVE  Advances
<1>1. \E e \in DownloadState : Leaves(r, downloads[r], e, Len(qlik))
  BY KnownDownload, TryLaterLeaves DEF NoAnswer
<1> QED BY <1>1, OldAdvances DEF NoAnswer

LEMMA CleanupEndsAdvances ==
    ASSUME SessionInv, UNCHANGED settings, NEW r \in Requests, CleanupEnds(r)
    PROVE  Advances
<1> DEFINE d == downloads[r]
<1>1. d.phase = "cleanup" /\ Resume(r, d, cache) /\ asked' = asked
  BY DEF CleanupEnds
<1>2. Own(d) = {}
  BY <1>1 DEF Own, Held
<1>3. d \in DownloadState /\ d.rejected \in SUBSET asked
  BY KnownDownload DEF DownloadFits
<1> HIDE DEF d
<1>4. \E e \in DownloadState : Leaves(r, d, e, Len(qlik))
  BY <1>1, <1>2, <1>3, KnownDownload, ResumeLeaves
<1> QED BY <1>4, OldAdvances DEF CleanupEnds, d

LEMMA TicketArrivesAdvances ==
    ASSUME SessionInv, UNCHANGED settings, NEW r \in Requests, TicketArrives(r)
    PROVE  Advances
<1> DEFINE d == downloads[r]
           e == [d EXCEPT !.phase = "get"]
<1>1. /\ d.phase = "ticket" /\ cache' = cache /\ asked' = asked
      /\ downloads' = [downloads EXCEPT ![r] = e]
  BY DEF TicketArrives
<1>2. d \in DownloadState /\ DownloadFits(r, d, cache, asked, Len(qlik))
      /\ CacheFits(cache, asked, Len(qlik))
  BY KnownDownload
<1> HIDE DEF d
<1>3. /\ e \in DownloadState /\ e.phase = "get" /\ e.used = d.used /\ e.cookie = d.cookie
      /\ e.kept = d.kept /\ e.rejected = d.rejected /\ e.saved = d.saved
  BY <1>2 DEF DownloadState, Phases
<1>4. d.used = NoSession /\ d.cookie = NoSession /\ ~d.kept /\ d.rejected \in SUBSET asked
  BY <1>1, <1>2 DEF DownloadFits
<1>5. NoSession \notin asked
  BY <1>2 DEF CacheFits, NoSession
<1> HIDE DEF e
<1>6. Own(d) = {} /\ Own(e) = {} /\ ~Held(e)
  BY <1>3, <1>4 DEF Own, Held
<1>7. DownloadFits(r, e, cache, asked, Len(qlik))
  BY <1>3, <1>4, <1>5, <1>6 DEF DownloadFits
<1>8. Leaves(r, d, e, Len(qlik))
  BY <1>1, <1>2, <1>3, <1>6, <1>7 DEF Leaves, Passes
<1> QED BY <1>3, <1>8, OldAdvances DEF TicketArrives, d
\* An answer that opens a session gives it to the download it was opened for.
LEMMA HeardFits ==
    ASSUME SessionInv, NEW r \in Requests, NEW opens \in BOOLEAN, Hears(r, opens)
    PROVE  /\ Heard(r, opens) \in DownloadState /\ Heard(r, opens).phase = "get"
           /\ Heard(r, opens).saved = downloads[r].saved
           /\ qlik' \in Seq({"open", "closed"}) /\ Len(qlik') \in Nat
           /\ CacheFits(cache, asked, Len(qlik'))
           /\ SessionsFit([downloads EXCEPT ![r] = Heard(r, opens)], cache, asked, Len(qlik'))
           /\ DownloadFits(r, Heard(r, opens), cache, asked, Len(qlik'))
<1> DEFINE d == downloads[r]
           n == Len(qlik)
           m == Heard(r, opens)
           dl == [downloads EXCEPT ![r] = m]
<1>1. /\ d \in DownloadState /\ DownloadFits(r, d, cache, asked, n) /\ n \in Nat
      /\ CacheFits(cache, asked, n) /\ [downloads EXCEPT ![r] = d] = downloads
      /\ SessionsFit(downloads, cache, asked, n) /\ qlik \in Seq({"open", "closed"})
  BY KnownDownload DEF SessionInv
<1>2. d.phase = "get"
  BY DEF Hears
<1>3. CASE ~opens
  <2>1. m = d /\ qlik' = qlik
    BY <1>3 DEF Heard, Hears
  <2> QED BY <1>1, <1>2, <2>1
<1>4. CASE opens
  <2>1. TicketMode /\ d.used = NoSession /\ d.cookie = NoSession
    BY <1>4 DEF Hears, MayOpen
  <2>2. m = [d EXCEPT !.cookie = n + 1] /\ qlik' = Append(qlik, "open")
    BY <1>4 DEF Heard, Hears
  <2>3. qlik' \in Seq({"open", "closed"}) /\ Len(qlik') = n + 1
    BY <1>1, <2>2
  <2>4. ~d.kept /\ d.rejected \in SUBSET asked /\ d.used \notin d.rejected
    BY <1>1, <1>2 DEF DownloadFits
  <2> HIDE DEF d, m, n
  <2>5. /\ m \in DownloadState /\ m.phase = "get" /\ m.used = NoSession /\ m.cookie = n + 1
        /\ m.kept = FALSE /\ m.saved = d.saved /\ m.rejected = d.rejected
    BY <1>1, <1>2, <2>1, <2>2, <2>4 DEF DownloadState
  <2>6. /\ 1..n \in SUBSET (1..(n + 1)) /\ n + 1 \notin 1..n /\ n + 1 \in 1..(n + 1)
        /\ n + 1 # NoSession /\ \A s \in 1..(n + 1) : s = n + 1 \/ s \in 1..n
    BY <1>1 DEF NoSession
  <2>7. /\ \A s \in asked : s \in 1..(n + 1) /\ s # n + 1
        /\ \A x \in ToSet(cache) : x.session \in 1..(n + 1) /\ x.session # n + 1
    BY <1>1, <2>6 DEF CacheFits
  <2>8. CacheFits(cache, asked, n + 1)
    BY <1>1, <2>7 DEF CacheFits
  <2>9. DownloadFits(r, m, cache, asked, n + 1)
    BY <2>1, <2>4, <2>5, <2>6, <2>7 DEF DownloadFits
  <2>10. Own(m) = {n + 1} /\ Own(d) = {}
    BY <2>1, <2>5, <2>6 DEF Own, Held
  <2>11. /\ dl \in [Requests -> DownloadState] /\ dl[r] = m
         /\ \A q \in Requests : q # r => dl[q] = downloads[q]
    BY <1>1, <2>5 DEF SessionsFit
  <2> HIDE DEF dl
  <2>12. \A q \in Requests : DownloadFits(q, dl[q], cache, asked, n + 1)
    <3>1. \A q \in Requests : DownloadFits(q, downloads[q], cache, asked, n)
      BY <1>1 DEF SessionsFit
    <3>2. ASSUME NEW q, NEW e, DownloadFits(q, e, cache, asked, n)
          PROVE  DownloadFits(q, e, cache, asked, n + 1)
      BY <2>6, <3>2 DEF DownloadFits
    <3> QED BY <2>9, <2>11, <3>1, <3>2
  <2>13. \A q, p \in Requests : Own(dl[q]) \cap Own(dl[p]) # {} => q = p
    <3>1. \A q \in Requests : Own(downloads[q]) \in SUBSET (1..n)
      <4> SUFFICES ASSUME NEW q \in Requests, Held(downloads[q]) PROVE downloads[q].cookie \in 1..n
        BY DEF Own
      <4>1. DownloadFits(q, downloads[q], cache, asked, n)
        BY <1>1 DEF SessionsFit
      <4> QED BY <4>1 DEF DownloadFits, Held
    <3>2. \A q, p \in Requests : Own(downloads[q]) \cap Own(downloads[p]) # {} => q = p
      BY <1>1 DEF SessionsFit
    <3> QED BY <2>6, <2>10, <2>11, <3>1, <3>2
  <2>14. ASSUME NEW s \in 1..(n + 1)
         PROVE  \/ s \in Sessions(cache) \/ s \in asked
                \/ \E q \in Requests : s \in Own(dl[q])
    <3>1. CASE s = n + 1
      BY <2>10, <2>11, <3>1
    <3>2. CASE s # n + 1
      <4>1. \/ s \in Sessions(cache) \/ s \in asked
            \/ \E q \in Requests : s \in Own(downloads[q])
        BY <1>1, <2>6, <3>2 DEF SessionsFit
      <4>2. ASSUME NEW q \in Requests, s \in Own(downloads[q]) PROVE q # r
        BY <2>10, <4>2 DEF d
      <4> QED BY <2>11, <4>1, <4>2
    <3> QED BY <3>1, <3>2
  <2>15. SessionsFit(dl, cache, asked, n + 1)
    BY <2>8, <2>11, <2>12, <2>13, <2>14 DEF SessionsFit
  <2>16. n + 1 \in Nat
    BY <1>1
  <2> QED BY <2>3, <2>5, <2>8, <2>9, <2>15, <2>16 DEF dl, d, m
<1> QED BY <1>3, <1>4

\* A step after an answer.
LEMMA HeardAdvances ==
    ASSUME SessionInv, UNCHANGED <<settings, files>>, NEW r \in Requests, NEW opens \in BOOLEAN,
           Hears(r, opens),
           \E e \in DownloadState : Leaves(r, Heard(r, opens), e, Len(qlik'))
    PROVE  Advances
<1> DEFINE m == Heard(r, opens)
           dl == [downloads EXCEPT ![r] = m]
<1>1. /\ m \in DownloadState /\ m.saved = downloads[r].saved
      /\ qlik' \in Seq({"open", "closed"}) /\ SessionsFit(dl, cache, asked, Len(qlik'))
  BY HeardFits
<1>2. m.saved \in SUBSET (downloads[r].saved \cup files')
  BY <1>1
<1>3. dl = [downloads EXCEPT ![r] = m]
  OBVIOUS
<1> HIDE DEF m, dl
<1>4. \E e \in DownloadState : Leaves(r, m, e, Len(qlik'))
  BY DEF m
<1> QED BY <1>1, <1>2, <1>3, <1>4, StepAdvances

LEMMA RedirectedAdvances ==
    ASSUME SessionInv, UNCHANGED settings, NEW r \in Requests, NEW opens \in BOOLEAN,
           Redirected(r, opens)
    PROVE  Advances
<1> DEFINE m == Heard(r, opens)
           e == [m EXCEPT !.hops = @ + 1]
           n == Len(qlik')
<1>1. /\ Hears(r, opens) /\ cache' = cache /\ asked' = asked /\ files' = files
      /\ downloads' = [downloads EXCEPT ![r] = e]
  BY DEF Redirected
<1>2. /\ m \in DownloadState /\ CacheFits(cache, asked, n)
      /\ DownloadFits(r, m, cache, asked, n)
  BY <1>1, HeardFits
<1> HIDE DEF m
<1>3. /\ e \in DownloadState /\ e.phase = m.phase /\ e.used = m.used /\ e.cookie = m.cookie
      /\ e.kept = m.kept /\ e.rejected = m.rejected /\ e.saved = m.saved
  BY <1>2 DEF DownloadState
<1> HIDE DEF e
<1>4. DownloadFits(r, e, cache, asked, n) /\ Own(e) = Own(m)
  BY <1>2, <1>3, FieldsFit
<1>5. Leaves(r, m, e, n)
  BY <1>1, <1>2, <1>3, <1>4 DEF Leaves, Passes
<1> QED BY <1>1, <1>3, <1>5, HeardAdvances DEF m

LEMMA RefusedAdvances ==
    ASSUME SessionInv, UNCHANGED settings, NEW r \in Requests, NEW opens \in BOOLEAN,
           Refused(r, opens)
    PROVE  Advances
<1>1. Hears(r, opens) /\ GiveUp(r, Heard(r, opens)) /\ files' = files
  BY DEF Refused
<1>2. settings.targets \in Nat
  BY KnownDownload
<1>3. \E e \in DownloadState : Leaves(r, Heard(r, opens), e, Len(qlik'))
  BY <1>1, <1>2, HeardFits, GiveUpLeaves
<1> QED BY <1>1, <1>3, HeardAdvances

LEMMA NotYetAdvances ==
    ASSUME SessionInv, UNCHANGED settings, NEW r \in Requests, NEW opens \in BOOLEAN,
           NotYet(r, opens)
    PROVE  Advances
<1>1. Hears(r, opens) /\ TryLater(r, Heard(r, opens)) /\ files' = files
  BY DEF NotYet
<1>2. settings.targets \in Nat
  BY KnownDownload
<1>3. \E e \in DownloadState : Leaves(r, Heard(r, opens), e, Len(qlik'))
  BY <1>1, <1>2, HeardFits, TryLaterLeaves
<1> QED BY <1>1, <1>3, HeardAdvances
\* The cache becomes c, which has entries of the cache and new ones for own: whatever
\* is in it no more is asked for, and nothing that is.
LEMMA Becomes ==
    ASSUME NEW n, CacheFits(cache, asked, n), NEW c \in Seq(Entry), Unique(c),
           NEW own, \A s \in own : s \in 1..n /\ s \notin asked /\ s \notin Sessions(cache),
           \A x \in ToSet(c) : x \in ToSet(cache) \/ x.session \in own,
           asked' = asked \cup (Sessions(cache) \ Sessions(c))
    PROVE  /\ CacheFits(c, asked', n)
           /\ asked \in SUBSET asked'
           /\ \A s \in asked' : s \in asked \/ s \in Sessions(cache)
           /\ \A x \in ToSet(cache) : x \in ToSet(c) \/ x.session \in asked'
<1>1. /\ Sessions(cache) = {x.session : x \in ToSet(cache)}
      /\ Sessions(c) = {x.session : x \in ToSet(c)}
  BY SessionsOf
<1>2. \A x, y \in ToSet(cache) : x.session = y.session => x = y
  BY DEF CacheFits, Unique, ToSet
<1>3. \A s \in asked' : s \in 1..n
  BY <1>1 DEF CacheFits
<1>4. \A x \in ToSet(c) : x.session \in 1..n /\ x.session \notin asked'
  <2> TAKE x \in ToSet(c)
  <2>1. x.session \in 1..n /\ x.session \notin asked
    BY DEF CacheFits
  <2> QED BY <1>1, <2>1
<1>5. CacheFits(c, asked', n)
  BY <1>3, <1>4 DEF CacheFits
<1>6. ASSUME NEW x \in ToSet(cache), x.session \notin asked' PROVE x \in ToSet(c)
  <2>1. x.session \in Sessions(cache) /\ x.session \in Sessions(c)
    BY <1>1, <1>6
  <2>2. PICK y \in ToSet(c) : y.session = x.session
    BY <1>1, <2>1
  <2>3. y \in ToSet(cache)
    BY <2>1, <2>2
  <2> QED BY <1>2, <2>2, <2>3
<1> QED BY <1>5, <1>6

LEMMA TailOf ==
    ASSUME NEW c \in Seq(Entry), Unique(c), c # <<>>
    PROVE  Tail(c) \in Seq(Entry) /\ Unique(Tail(c)) /\ ToSet(Tail(c)) \in SUBSET ToSet(c)
<1>1. /\ Tail(c) \in Seq(Entry) /\ DOMAIN Tail(c) \in SUBSET Int
      /\ \A i \in DOMAIN Tail(c) : i + 1 \in DOMAIN c /\ Tail(c)[i] = c[i + 1]
  OBVIOUS
<1> DEFINE t == Tail(c)
<1> HIDE DEF t
<1>2. Unique(t)
  <2> SUFFICES ASSUME NEW i \in DOMAIN t, NEW j \in DOMAIN t,
                      t[i].session = t[j].session \/ t[i].key = t[j].key
               PROVE  i = j
    BY DEF Unique
  <2>1. i + 1 = j + 1
    BY <1>1 DEF Unique, t
  <2>2. i \in Int /\ j \in Int
    BY <1>1 DEF t
  <2> QED BY <2>1, <2>2
<1>3. ToSet(t) \in SUBSET ToSet(c)
  BY <1>1 DEF ToSet, t
<1> QED BY <1>1, <1>2, <1>3 DEF t

\* A session that is new in the cache.
LEMMA StoredSession ==
    ASSUME NEW c \in Seq(Entry), Unique(c), NEW key \in Key, NEW s \in Nat,
           \A x \in ToSet(c) : x.session # s, CacheOn, settings.maxEntries \in Nat
    PROVE  /\ Stored(c, key, s) \in Seq(Entry) /\ Unique(Stored(c, key, s))
           /\ \A x \in ToSet(Stored(c, key, s)) : x \in ToSet(c) \/ x.session = s
           /\ s \in Sessions(Stored(c, key, s))
<1> DEFINE full == Places(c, key) = {} /\ Len(c) >= settings.maxEntries
           kept == IF full THEN Tail(c) ELSE Without(c, key)
           entry == [key |-> key, session |-> s]
<1>1. Stored(c, key, s) = Append(kept, entry)
  BY DEF Stored
<1>2. /\ kept \in Seq(Entry) /\ Unique(kept) /\ ToSet(kept) \in SUBSET ToSet(c)
      /\ \A x \in ToSet(kept) : x.key # key
  <2>1. CASE full
    <3>1. Len(c) > 0
      BY <2>1 DEF CacheOn
    <3>2. c # <<>>
      BY <3>1
    <3>3. Tail(c) \in Seq(Entry) /\ Unique(Tail(c)) /\ ToSet(Tail(c)) \in SUBSET ToSet(c)
      BY <3>2, TailOf
    <3>4. \A x \in ToSet(c) : x.key # key
      BY <2>1 DEF Places, ToSet
    <3> QED BY <2>1, <3>3, <3>4
  <2>2. CASE ~full
    BY <2>2, WithoutKey
  <2> QED BY <2>1, <2>2
<1>3. entry \in Entry /\ entry.key = key /\ entry.session = s
  BY DEF Entry
<1> HIDE DEF kept, entry
<1>4. /\ Append(kept, entry) \in Seq(Entry) /\ Unique(Append(kept, entry))
      /\ ToSet(Append(kept, entry)) = ToSet(kept) \cup {entry}
  BY <1>2, <1>3, Appended
<1> QED BY <1>1, <1>2, <1>3, <1>4, SessionsOf

LEMMA PictureAdvances ==
    ASSUME SessionInv, UNCHANGED settings, NEW r \in Requests, r \in Posted,
           NEW opens \in BOOLEAN, Picture(r, opens)
    PROVE  Advances
<1> DEFINE m == Heard(r, opens)
           caches == CacheOn /\ m.cookie # NoSession
           e == [m EXCEPT !.phase = "write", !.kept = caches]
           n == Len(qlik')
<1>1. /\ Hears(r, opens) /\ files' = files
      /\ downloads' = [downloads EXCEPT ![r] = e]
      /\ IF caches THEN CacheBecomes(Stored(cache, CacheKey(r), m.cookie))
         ELSE UNCHANGED <<cache, asked>>
  BY DEF Picture
<1>2. /\ m \in DownloadState /\ m.phase = "get" /\ CacheFits(cache, asked, n)
      /\ DownloadFits(r, m, cache, asked, n)
  BY <1>1, HeardFits
<1>3. /\ m.kept = FALSE /\ m.rejected \in SUBSET asked
      /\ m.cookie # NoSession => m.used = NoSession /\ TicketMode /\ m.cookie \in 1..n
  BY <1>2 DEF DownloadFits, DownloadState
<1>4. caches \in BOOLEAN
  OBVIOUS
<1> HIDE DEF m, caches
<1>5. /\ e \in DownloadState /\ e.phase = "write" /\ e.used = m.used /\ e.cookie = m.cookie
      /\ e.kept = caches /\ e.rejected = m.rejected /\ e.saved = m.saved
  BY <1>2, <1>4 DEF DownloadState, Phases
<1> HIDE DEF e
<1>6. CASE ~caches
  <2>1. cache' = cache /\ asked' = asked
    BY <1>1, <1>6
  <2>2. Held(e) <=> Held(m)
    BY <1>2, <1>3, <1>5, <1>6 DEF Held
  <2>3. Own(e) = Own(m)
    BY <1>5, <2>2 DEF Own
  <2>4. DownloadFits(r, e, cache, asked, n)
    BY <1>2, <1>5, <2>2 DEF DownloadFits
  <2>5. Leaves(r, m, e, n)
    BY <1>1, <1>2, <1>5, <2>1, <2>3, <2>4 DEF Leaves, Passes
  <2> QED BY <1>1, <1>5, <2>5, HeardAdvances DEF m
<1>7. CASE caches
  <2> DEFINE c == Stored(cache, CacheKey(r), m.cookie)
  <2>1. CacheOn /\ m.cookie # NoSession
    BY <1>7 DEF caches
  <2>2. Held(m) /\ Own(m) = {m.cookie}
    BY <1>2, <1>3, <2>1 DEF Held, Own
  <2>3. /\ m.cookie \in Nat /\ m.cookie \in 1..n /\ m.cookie \notin asked
        /\ \A x \in ToSet(cache) : x.session # m.cookie
    BY <1>2, <1>3, <2>1, <2>2 DEF DownloadFits, DownloadState
  <2>4. CacheKey(r) \in Key
    BY DEF CacheKey, Key, Posted, SessionInv
  <2>5. settings.maxEntries \in Nat
    BY KnownDownload
  <2>6. cache \in Seq(Entry) /\ Unique(cache)
    BY <1>2 DEF CacheFits
  <2>7. /\ c \in Seq(Entry) /\ Unique(c)
        /\ \A x \in ToSet(c) : x \in ToSet(cache) \/ x.session = m.cookie
        /\ m.cookie \in Sessions(c)
    BY <2>1, <2>3, <2>4, <2>5, <2>6, StoredSession
  <2>8. cache' = c /\ asked' = asked \cup (Sessions(cache) \ Sessions(c))
    BY <1>1, <1>7 DEF CacheBecomes
  <2> HIDE DEF c
  <2>9. m.cookie \notin Sessions(cache)
    BY <2>3, SessionsOf
  <2>10. /\ CacheFits(c, asked', n) /\ asked \in SUBSET asked'
         /\ \A s \in asked' : s \in asked \/ s \in Sessions(cache)
         /\ \A x \in ToSet(cache) : x \in ToSet(c) \/ x.session \in asked'
    <3> DEFINE own == {m.cookie}
    <3>1. \A x \in ToSet(c) : x \in ToSet(cache) \/ x.session \in own
      BY <2>7
    <3>2. \A s \in own : s \in 1..n /\ s \notin asked /\ s \notin Sessions(cache)
      BY <2>3, <2>9
    <3>3. asked' = asked \cup (Sessions(cache) \ Sessions(c))
      BY <2>8
    <3>4. CacheFits(cache, asked, n) /\ c \in Seq(Entry) /\ Unique(c)
      BY <1>2, <2>7
    <3> HIDE DEF own, n
    <3> QED BY <3>1, <3>2, <3>3, <3>4, Becomes
  <2>11. Own(e) = {} /\ ~Held(e)
    BY <1>5, <1>7 DEF Own, Held
  <2>12. DownloadFits(r, e, cache', asked', n)
    BY <1>3, <1>5, <1>7, <2>1, <2>10, <2>11 DEF DownloadFits
  <2>13. Leaves(r, m, e, n)
    BY <1>1, <1>5, <2>2, <2>7, <2>8, <2>10, <2>11, <2>12 DEF Leaves, Passes
  <2> QED BY <1>1, <1>5, <2>13, HeardAdvances DEF m
<1> QED BY <1>6, <1>7
\* A rejected session leaves the cache, if it is still there, and is asked for before
\* the next attempt looks into the cache.
LEMMA SessionRejectedAdvances ==
    ASSUME SessionInv, UNCHANGED settings, NEW r \in Requests, SessionRejected(r)
    PROVE  Advances
<1> DEFINE d == downloads[r]
           rejected == [d EXCEPT !.rejected = @ \cup {d.used}, !.attempt = @ + 1]
           over == [d EXCEPT !.then = "end", !.saved = {}]
           c == Without(cache, CacheKey(r))
           n == Len(qlik)
<1>1. /\ d.phase = "get" /\ d.used # NoSession
      /\ asked' = asked \cup (Sessions(cache) \ Sessions(c))
      /\ IF d.attempt < MaxAttempts THEN Attempt(r, rejected, c) ELSE Resume(r, over, c)
      /\ files' = files /\ qlik' = qlik
  BY DEF SessionRejected
<1>2. /\ d \in DownloadState /\ DownloadFits(r, d, cache, asked, n) /\ n \in Nat
      /\ CacheFits(cache, asked, n) /\ settings.targets \in Nat
  BY KnownDownload
<1> HIDE DEF d, n
<1>3. /\ c \in Seq(Entry) /\ Unique(c)
      /\ ToSet(c) = {x \in ToSet(cache) : x.key # CacheKey(r)}
  BY <1>2, WithoutKey DEF CacheFits
<1> HIDE DEF c
<1>4. /\ CacheFits(c, asked', n) /\ asked \in SUBSET asked'
      /\ \A s \in asked' : s \in asked \/ s \in Sessions(cache)
      /\ \A x \in ToSet(cache) : x \in ToSet(c) \/ x.session \in asked'
  <2> DEFINE own == {}
  <2>1. \A s \in own : s \in 1..n /\ s \notin asked /\ s \notin Sessions(cache)
    OBVIOUS
  <2>2. \A x \in ToSet(c) : x \in ToSet(cache) \/ x.session \in own
    BY <1>3
  <2>3. asked' = asked \cup (Sessions(cache) \ Sessions(c))
    BY <1>1
  <2> HIDE DEF own
  <2> QED BY <1>2, <1>3, <2>1, <2>2, <2>3, Becomes
<1>5. d.used \in asked'
  <2>1. \/ d.used \in asked
        \/ \E x \in ToSet(cache) : x.session = d.used /\ x.key = CacheKey(r)
    BY <1>1, <1>2 DEF DownloadFits
  <2> QED BY <1>3, <1>4, <2>1
<1>6. d.rejected \in SUBSET asked /\ d.cookie = NoSession
  BY <1>1, <1>2 DEF DownloadFits
<1>7. Own(d) = {}
  BY <1>6 DEF Own, Held
<1>8. /\ rejected \in DownloadState /\ rejected.rejected \in SUBSET asked'
      /\ rejected.saved \in SUBSET d.saved
  <2>1. d.rejected \cup {d.used} \in SUBSET Nat /\ d.attempt + 1 \in Nat
    BY <1>2 DEF DownloadState
  <2>2. ASSUME NEW R \in SUBSET Nat, NEW k \in Nat
        PROVE  /\ [d EXCEPT !.rejected = R, !.attempt = k] \in DownloadState
               /\ [d EXCEPT !.rejected = R, !.attempt = k].rejected = R
               /\ [d EXCEPT !.rejected = R, !.attempt = k].saved = d.saved
    BY <1>2 DEF DownloadState
  <2>3. /\ rejected \in DownloadState /\ rejected.rejected = d.rejected \cup {d.used}
        /\ rejected.saved = d.saved
    BY <2>1, <2>2
  <2> QED BY <1>4, <1>5, <1>6, <2>3
<1>9. /\ over \in DownloadState /\ over.rejected \in SUBSET asked'
      /\ over.saved \in SUBSET d.saved
  <2>1. over \in DownloadState /\ over.rejected = d.rejected /\ over.saved = {}
    BY <1>2 DEF DownloadState
  <2> QED BY <1>4, <1>6, <2>1
<1> HIDE DEF rejected, over
<1>10. \A x \in ToSet(c) : x \in ToSet(cache)
  BY <1>3
<1>11. /\ \A s \in asked' : s \in asked \/ s \in Own(d) \/ s \in Sessions(cache)
       /\ Own(d) \in SUBSET asked'
  BY <1>4, <1>7
<1>12. \E e \in DownloadState : Leaves(r, d, e, n)
  <2>1. CASE d.attempt < MaxAttempts
    <3>1. Attempt(r, rejected, c)
      BY <1>1, <2>1
    <3> QED BY <1>2, <1>4, <1>8, <1>10, <1>11, <3>1, ResumeLeaves
  <2>2. CASE ~(d.attempt < MaxAttempts)
    <3>1. Resume(r, over, c)
      BY <1>1, <2>2
    <3> QED BY <1>2, <1>4, <1>9, <1>10, <1>11, <3>1, ResumeLeaves
  <2> QED BY <2>1, <2>2
<1> QED BY <1>1, <1>12, OldAdvances DEF d, n

\* A download that only gets on with what does not concern its session.
LEMMA SameFits ==
    ASSUME SessionInv, NEW r \in Requests, NEW m \in DownloadState,
           m.phase = downloads[r].phase, m.used = downloads[r].used,
           m.cookie = downloads[r].cookie, m.kept = downloads[r].kept,
           m.rejected = downloads[r].rejected
    PROVE  /\ DownloadFits(r, m, cache, asked, Len(qlik))
           /\ SessionsFit([downloads EXCEPT ![r] = m], cache, asked, Len(qlik))
<1> DEFINE d == downloads[r]
           n == Len(qlik)
           dl == [downloads EXCEPT ![r] = m]
<1>1. DownloadFits(r, d, cache, asked, n) /\ SessionsFit(downloads, cache, asked, n)
  BY KnownDownload
<1>2. DownloadFits(r, m, cache, asked, n) /\ Own(m) = Own(d)
  BY <1>1, FieldsFit
<1>3. /\ dl \in [Requests -> DownloadState] /\ dl[r] = m
      /\ \A q \in Requests : q # r => dl[q] = downloads[q]
  BY <1>1 DEF SessionsFit
<1> HIDE DEF dl, n
<1>4. \A q \in Requests : DownloadFits(q, dl[q], cache, asked, n) /\ Own(dl[q]) = Own(downloads[q])
  BY <1>1, <1>2, <1>3 DEF SessionsFit
<1>5. SessionsFit(dl, cache, asked, n)
  BY <1>1, <1>3, <1>4 DEF SessionsFit
<1> QED BY <1>2, <1>5 DEF dl, n

LEMMA WriteTargetAdvances ==
    ASSUME SessionInv, UNCHANGED settings, NEW r \in Requests, WriteTarget(r)
    PROVE  Advances
<1> DEFINE d == downloads[r]
           file == [event |-> r, target |-> d.left]
           saved == [d EXCEPT !.saved = @ \cup {file}, !.left = @ - 1]
           over == [saved EXCEPT !.then = "end"]
           n == Len(qlik)
<1>1. /\ d.phase = "write" /\ files' = files \cup {file} /\ qlik' = qlik
      /\ IF d.left > 1 THEN downloads' = [downloads EXCEPT ![r] = saved] /\ UNCHANGED <<cache, asked>>
         ELSE Leave(r, over)
  BY DEF WriteTarget
<1>2. d \in DownloadState /\ n \in Nat /\ CacheFits(cache, asked, n) /\ settings.targets \in Nat
  BY KnownDownload
<1> HIDE DEF d
<1>3. file \in File
  BY <1>2 DEF File, DownloadState
<1> HIDE DEF file
<1>4. /\ saved \in DownloadState /\ saved.phase = d.phase /\ saved.used = d.used
      /\ saved.cookie = d.cookie /\ saved.kept = d.kept /\ saved.rejected = d.rejected
      /\ saved.saved = d.saved \cup {file}
  <2>1. d.saved \cup {file} \in SUBSET File /\ d.left - 1 \in Int
    BY <1>2, <1>3 DEF DownloadState
  <2>2. ASSUME NEW S \in SUBSET File, NEW k \in Int, NEW e, e = [d EXCEPT !.saved = S, !.left = k]
        PROVE  /\ e \in DownloadState /\ e.phase = d.phase /\ e.used = d.used
               /\ e.cookie = d.cookie /\ e.kept = d.kept /\ e.rejected = d.rejected
               /\ e.saved = S
    BY <1>2, <2>2 DEF DownloadState
  <2> QED BY <2>1, <2>2
<1> HIDE DEF saved
<1>5. /\ over \in DownloadState /\ over.phase = d.phase /\ over.used = d.used
      /\ over.cookie = d.cookie /\ over.kept = d.kept /\ over.rejected = d.rejected
      /\ over.saved = d.saved \cup {file}
  BY <1>4 DEF DownloadState
<1> HIDE DEF over
<1>6. /\ files \in SUBSET files' /\ d.saved \cup {file} \in SUBSET (d.saved \cup files')
      /\ qlik' \in Seq({"open", "closed"}) /\ Len(qlik') = n
  BY <1>1 DEF SessionInv
<1>7. CASE d.left > 1
  <2>1. /\ DownloadFits(r, saved, cache, asked, n)
        /\ SessionsFit([downloads EXCEPT ![r] = saved], cache, asked, n)
    BY <1>4, SameFits DEF d
  <2>2. Leaves(r, saved, saved, n)
    BY <1>1, <1>2, <1>7, <2>1 DEF Leaves, Passes
  <2> QED BY <1>4, <1>6, <2>1, <2>2, StepAdvances DEF d
<1>8. CASE ~(d.left > 1)
  <2>1. /\ DownloadFits(r, over, cache, asked, n)
        /\ SessionsFit([downloads EXCEPT ![r] = over], cache, asked, n)
    BY <1>5, SameFits DEF d
  <2>2. Leave(r, over) /\ over.phase = "write"
    BY <1>1, <1>5, <1>8
  <2>3. \E e \in DownloadState : Leaves(r, over, e, n)
    BY <1>2, <2>1, <2>2, LeaveLeaves
  <2> QED BY <1>5, <1>6, <2>1, <2>3, StepAdvances DEF d
<1> QED BY <1>7, <1>8

LEMMA DownloadStepAdvances ==
    ASSUME SessionInv, UNCHANGED settings, NEW r \in Requests, r \in Posted, DownloadStep(r)
    PROVE  Advances
BY TicketArrivesAdvances, ThrowsAdvances, NoAnswerAdvances, PauseEndsAdvances,
   CleanupEndsAdvances, SessionRejectedAdvances, WriteTargetAdvances, RedirectedAdvances, RefusedAdvances,
   NotYetAdvances, PictureAdvances DEF DownloadStep

\* The download begins.
LEMMA DownloadAdvances ==
    ASSUME SessionInv, NEW r \in Requests, Download(r)
    PROVE  Advances
<1> DEFINE d == downloads[r]
<1>1. /\ d.phase = "idle" /\ Attempt(r, d, cache) /\ asked' = asked
      /\ UNCHANGED <<settings, qlik, files>>
  BY DEF Download, Unmoved
<1>2. Own(d) = {}
  BY <1>1 DEF Own, Held
<1>3. d \in DownloadState /\ d.rejected \in SUBSET asked
  BY KnownDownload DEF DownloadFits
<1> HIDE DEF d
<1>4. \E e \in DownloadState : Leaves(r, d, e, Len(qlik))
  BY <1>1, <1>2, <1>3, KnownDownload, ResumeLeaves
<1> QED BY <1>1, <1>4, OldAdvances DEF d

\* What happens to sessions meanwhile.
LEMMA ExpireAdvances ==
    ASSUME SessionInv, UNCHANGED settings, NEW i \in DOMAIN cache, Expire(i)
    PROVE  Advances
<1> DEFINE c == Without(cache, cache[i].key)
           n == Len(qlik)
           own == {}
<1>1. /\ cache' = c /\ asked' = asked \cup (Sessions(cache) \ Sessions(c))
      /\ downloads' = downloads /\ files' = files /\ qlik' = qlik
  BY DEF Expire, CacheBecomes
<1>2. CacheFits(cache, asked, n) /\ SessionsFit(downloads, cache, asked, n) /\ n \in Nat
  BY DEF SessionInv, SessionsFit
<1>3. /\ c \in Seq(Entry) /\ Unique(c) /\ \A x \in ToSet(c) : x \in ToSet(cache)
  BY <1>2, WithoutKey DEF CacheFits
<1> HIDE DEF c, n
<1>4. /\ CacheFits(c, asked', n) /\ asked \in SUBSET asked'
      /\ \A s \in asked' : s \in asked \/ s \in Sessions(cache)
      /\ \A x \in ToSet(cache) : x \in ToSet(c) \/ x.session \in asked'
  <2>1. \A s \in own : s \in 1..n /\ s \notin asked /\ s \notin Sessions(cache)
    OBVIOUS
  <2>2. \A x \in ToSet(c) : x \in ToSet(cache) \/ x.session \in own
    BY <1>3
  <2> HIDE DEF own
  <2> QED BY <1>1, <1>2, <1>3, <2>1, <2>2, Becomes
<1>5. Passes(own)
  BY <1>1, <1>3, <1>4 DEF Passes
<1>6. \A q \in Requests : DownloadFits(q, downloads'[q], cache', asked', n)
  <2> TAKE q \in Requests
  <2>1. DownloadFits(q, downloads[q], cache, asked, n)
    BY <1>2 DEF SessionsFit
  <2>2. Own(downloads[q]) \cap own = {}
    OBVIOUS
  <2> HIDE DEF own
  <2> QED BY <1>1, <1>5, <2>1, <2>2, OthersFit
<1>7. ASSUME NEW s \in 1..n
      PROVE  \/ s \in Sessions(cache') \/ s \in asked'
             \/ \E q \in Requests : s \in Own(downloads'[q])
  <2>1. CASE s \in Sessions(cache)
    BY <1>1, <2>1
  <2>2. CASE s \notin Sessions(cache)
    BY <1>1, <1>2, <2>2 DEF SessionsFit
  <2> QED BY <2>1, <2>2
<1>8. SessionsFit(downloads', cache', asked', n)
  BY <1>1, <1>2, <1>4, <1>6, <1>7 DEF SessionsFit
<1>9. SessionInv'
  <2>1. /\ settings \in SettingsSet /\ qlik' \in Seq({"open", "closed"})
        /\ SessionsFit(downloads', cache', asked', Len(qlik'))
    BY <1>1, <1>8 DEF SessionInv, n
  <2> QED BY <2>1, SessionsFitLater
<1> QED BY <1>1, <1>9 DEF Advances

LEMMA CloseSessionAdvances ==
    ASSUME SessionInv, UNCHANGED settings, NEW s \in DOMAIN qlik, CloseSession(s)
    PROVE  Advances
<1>1. /\ qlik' = [qlik EXCEPT ![s] = "closed"]
      /\ downloads' = downloads /\ cache' = cache /\ asked' = asked /\ files' = files
  BY DEF CloseSession
<1>2. qlik' \in Seq({"open", "closed"}) /\ Len(qlik') = Len(qlik)
  BY <1>1 DEF SessionInv
<1>3. SessionInv'
  <2>1. /\ settings \in SettingsSet
        /\ SessionsFit(downloads', cache', asked', Len(qlik'))
    BY <1>1, <1>2 DEF SessionInv
  <2> QED BY <1>2, <2>1, SessionsFitLater
<1> QED BY <1>1, <1>3 DEF Advances
LEMMA SessionStart == ASSUME Init PROVE SessionInv
<1>1. /\ settings \in SettingsSet /\ downloads = [r \in Requests |-> Idle]
      /\ cache = <<>> /\ asked = {} /\ qlik = <<>>
  BY DEF Init, JobsInit, ShotInit
<1>2. /\ qlik \in Seq({"open", "closed"}) /\ Len(qlik) = 0 /\ 1..0 = {}
      /\ cache \in Seq(Entry) /\ DOMAIN cache = {} /\ ToSet(cache) = {}
  BY <1>1 DEF ToSet
<1>3. CacheFits(cache, asked, 0)
  BY <1>1, <1>2 DEF CacheFits, Unique
<1>4. \A r \in Requests : downloads[r] = Idle
  BY <1>1
<1>5. downloads \in [Requests -> DownloadState]
  BY <1>1, IdleState
<1>6. Own(Idle) = {}
  BY DEF Own, Held, Idle
<1>7. \A r \in Requests : DownloadFits(r, downloads[r], cache, asked, 0)
  <2>1. /\ Idle.phase = "idle" /\ Idle.cookie = NoSession /\ Idle.used = NoSession
        /\ Idle.rejected = {}
    BY DEF Idle
  <2> QED BY <1>4, <2>1, IdleState DEF DownloadFits, Held
<1>8. SessionsFit(downloads, cache, asked, 0)
  BY <1>2, <1>3, <1>4, <1>5, <1>6, <1>7 DEF SessionsFit
<1> QED BY <1>1, <1>2, <1>8 DEF SessionInv

LEMMA SessionSteps ==
    ASSUME SessionInv, [Next]_vars
    PROVE  Advances
<1>1. ASSUME UNCHANGED <<settings, shotVars>> PROVE Advances
  <2>1. /\ qlik' \in Seq({"open", "closed"}) /\ settings' = settings /\ files' = files
        /\ SessionsFit(downloads', cache', asked', Len(qlik')) /\ downloads' = downloads
    BY <1>1 DEF shotVars, SessionInv
  <2>2. settings \in SettingsSet
    BY DEF SessionInv
  <2>3. SessionInv'
    BY <2>1, <2>2, SessionsFitLater
  <2> QED BY <2>1, <2>3 DEF Advances
<1>2. ASSUME NEW r \in Requests, Post(r) PROVE UNCHANGED <<settings, shotVars>>
  BY <1>2 DEF Post, Turned, Taken
<1>3. ASSUME NEW r \in Requests, r \in Posted, Works(r) PROVE Advances
  <2>1. CASE Admit(r) \/ Enqueue(r) \/ StoreEvent(r) \/ EndJob(r)
    <3>1. UNCHANGED <<settings, shotVars>>
      BY <2>1 DEF Admit, Enqueue, StoreEvent, EndJob, Unmoved
    <3> QED BY <1>1, <3>1
  <2>2. CASE Download(r)
    BY <2>2, DownloadAdvances
  <2>3. CASE DownloadStep(r) /\ Unmoved
    BY <1>3, <2>3, DownloadStepAdvances DEF Unmoved
  <2> QED BY <1>3, <2>1, <2>2, <2>3 DEF Works
<1>4. ASSUME NEW f \in Flushes, FlushWorks(f) PROVE UNCHANGED <<settings, shotVars>>
  BY <1>4 DEF FlushWorks, Unmoved
<1>5. CASE TimerFires
  <2>1. UNCHANGED <<settings, shotVars>>
    BY <1>5 DEF TimerFires, Unmoved
  <2> QED BY <1>1, <2>1
<1>6. CASE SessionStep
  BY <1>6, ExpireAdvances, CloseSessionAdvances DEF SessionStep, Unmoved
<1>7. CASE ClockTick
  <2>1. UNCHANGED <<settings, shotVars>>
    BY <1>7 DEF ClockTick
  <2> QED BY <1>1, <2>1
<1>8. CASE UNCHANGED vars
  <2>1. UNCHANGED <<settings, shotVars>>
    BY <1>8 DEF vars
  <2> QED BY <1>1, <2>1
<1>9. ASSUME SessionInv PROVE Posted \in SUBSET Requests
  BY <1>9, AuditJobsAssumption DEF Posted, SessionInv
<1> QED BY <1>1, <1>2, <1>3, <1>4, <1>5, <1>6, <1>7, <1>8, <1>9 DEF Next

\* Every session whose cookie was read is accounted for.
LEMMA SessionInvariant == Spec => []SessionInv
<1>1. Init => SessionInv
  BY SessionStart
<1>2. SessionInv /\ [Next]_vars => SessionInv'
  BY SessionSteps DEF Advances
<1> QED BY <1>1, <1>2, PTL DEF Spec

\* The sessions that were lost: the attempts an event has made may have lost one each,
\* and the one that is being made has not lost any yet.
Counted(d, n) ==
    /\ d.attempt \in 1..MaxAttempts
    /\ n \in 0..d.attempt
    /\ d.phase \in {"idle", "ticket", "get", "write"} => n < d.attempt
    /\ d.phase \in {"pause", "cleanup"} /\ d.then = "again" => d.attempt < MaxAttempts

\* A download that is over has its attempts no more.
LostFits(d, n) ==
    IF d.phase = "done" THEN n \in 0..MaxAttempts ELSE Counted(d, n)

LostInv ==
    /\ lost \in [Requests -> Nat]
    /\ \A r \in Requests : LostFits(downloads[r], lost[r])

\* An attempt begins where the last one has ended.
LEMMA AttemptLoses ==
    ASSUME NEW r \in Requests, downloads \in [Requests -> DownloadState], NEW c,
           NEW d \in DownloadState, NEW n \in Nat, d.attempt \in 1..MaxAttempts,
           n < d.attempt, Attempt(r, d, c)
    PROVE  LostFits(downloads'[r], n)
<1>1. downloads'[r] = Attempted(r, d, c)
  BY DEF Attempt
<1>2. /\ Attempted(r, d, c).phase \in {"get", "ticket"}
      /\ Attempted(r, d, c).attempt = d.attempt
  BY DEF Attempted, DownloadState
<1> QED BY <1>1, <1>2, ScreenshotsAssumption DEF LostFits, Counted

LEMMA ResumeLoses ==
    ASSUME NEW r \in Requests, downloads \in [Requests -> DownloadState], NEW c,
           NEW d \in DownloadState, NEW n \in Nat, d.attempt \in 1..MaxAttempts,
           n <= d.attempt, d.then = "again" => d.attempt < MaxAttempts, Resume(r, d, c)
    PROVE  LostFits(downloads'[r], n)
<1>1. CASE d.then = "again"
  <2> DEFINE m == [d EXCEPT !.attempt = @ + 1]
  <2>1. Attempt(r, m, c)
    BY <1>1 DEF Resume
  <2>2. m \in DownloadState /\ m.attempt = d.attempt + 1
    BY DEF DownloadState
  <2>3. m.attempt \in 1..MaxAttempts /\ n < m.attempt
    BY <1>1, <2>2, ScreenshotsAssumption
  <2> HIDE DEF m
  <2> QED BY <2>1, <2>2, <2>3, AttemptLoses
<1>2. CASE d.then # "again"
  <2>1. downloads'[r] = [Idle EXCEPT !.phase = "done", !.saved = d.saved]
    BY <1>2 DEF Resume
  <2>2. downloads'[r].phase = "done"
    BY <2>1 DEF Idle
  <2> QED BY <2>2, ScreenshotsAssumption DEF LostFits
<1> QED BY <1>1, <1>2

LEMMA LeaveLoses ==
    ASSUME NEW r \in Requests, downloads \in [Requests -> DownloadState],
           NEW d \in DownloadState, NEW n \in Nat, d.attempt \in 1..MaxAttempts,
           n <= d.attempt, d.then = "again" => d.attempt < MaxAttempts, Leave(r, d)
    PROVE  LostFits(downloads'[r], n)
<1>1. CASE downloads' = [downloads EXCEPT ![r] = [d EXCEPT !.phase = "cleanup"]]
  <2>1. /\ downloads'[r].phase = "cleanup" /\ downloads'[r].attempt = d.attempt
        /\ downloads'[r].then = d.then
    BY <1>1 DEF DownloadState
  <2> QED BY <2>1, ScreenshotsAssumption DEF LostFits, Counted
<1>2. CASE Resume(r, d, cache)
  BY <1>2, ResumeLoses
<1> QED BY <1>1, <1>2 DEF Leave

LEMMA GiveUpLoses ==
    ASSUME NEW r \in Requests, downloads \in [Requests -> DownloadState],
           NEW d \in DownloadState, NEW n \in Nat, d.attempt \in 1..MaxAttempts,
           n <= d.attempt, GiveUp(r, d)
    PROVE  LostFits(downloads'[r], n)
<1> DEFINE m == [d EXCEPT !.then = "end", !.saved = {}]
<1>1. Leave(r, m)
  BY DEF GiveUp
<1>2. m \in DownloadState /\ m.attempt = d.attempt /\ m.then = "end"
  BY DEF DownloadState
<1> HIDE DEF m
<1> QED BY <1>1, <1>2, LeaveLoses

LEMMA TryLaterLoses ==
    ASSUME NEW r \in Requests, downloads \in [Requests -> DownloadState],
           NEW d \in DownloadState, NEW n \in Nat, d.attempt \in 1..MaxAttempts,
           n <= d.attempt, TryLater(r, d)
    PROVE  LostFits(downloads'[r], n)
<1>1. CASE d.attempt < MaxAttempts
  <2>1. downloads'[r] = [d EXCEPT !.phase = "pause", !.then = "again"]
    BY <1>1 DEF TryLater
  <2>2. downloads'[r].phase = "pause" /\ downloads'[r].attempt = d.attempt
    BY <2>1 DEF DownloadState
  <2> QED BY <1>1, <2>2, ScreenshotsAssumption DEF LostFits, Counted
<1>2. CASE ~(d.attempt < MaxAttempts)
  BY <1>2, GiveUpLoses DEF TryLater
<1> QED BY <1>1, <1>2

\* What an answer leaves of a download: its attempt.
LEMMA HeardCounts ==
    ASSUME NEW r \in Requests, downloads[r] \in DownloadState, NEW opens \in BOOLEAN
    PROVE  /\ Heard(r, opens) \in DownloadState
           /\ Heard(r, opens).attempt = downloads[r].attempt
           /\ Heard(r, opens).phase = downloads[r].phase
BY DEF Heard, DownloadState

\* The steps of a download after which as much is lost as before.
LEMMA StepLoses ==
    ASSUME SessionInv, LostInv, NEW r \in Requests, DownloadStep(r),
           \A opens \in BOOLEAN : ~NoAnswer(r, opens)
    PROVE  LostFits(downloads'[r], lost[r])
<1> DEFINE d == downloads[r]
           n == lost[r]
<1> SUFFICES LostFits(downloads'[r], n)
  OBVIOUS
<1>1. downloads \in [Requests -> DownloadState] /\ d \in DownloadState /\ n \in Nat
  BY DEF SessionInv, SessionsFit, LostInv
<1>2. LostFits(d, n)
  BY DEF LostInv
<1>3. d.phase \in {"ticket", "get", "write", "pause", "cleanup"} =>
          d.attempt \in 1..MaxAttempts /\ n <= d.attempt
  BY <1>2 DEF LostFits, Counted
<1>4. d.phase \in {"ticket", "get", "write"} => n < d.attempt
  BY <1>2 DEF LostFits, Counted
<1>5. d.phase \in {"pause", "cleanup"} /\ d.then = "again" => d.attempt < MaxAttempts
  BY <1>2 DEF LostFits, Counted
<1>6. ASSUME NEW m \in DownloadState, downloads' = [downloads EXCEPT ![r] = m],
             m.attempt = d.attempt, m.phase \in {"get", "write"},
             d.phase \in {"ticket", "get", "write"}
      PROVE  LostFits(downloads'[r], n)
  BY <1>1, <1>3, <1>4, <1>6 DEF LostFits, Counted
<1>7. CASE TicketArrives(r)
  <2> DEFINE m == [d EXCEPT !.phase = "get"]
  <2>1. downloads' = [downloads EXCEPT ![r] = m] /\ d.phase = "ticket"
    BY <1>1, <1>7 DEF TicketArrives
  <2>2. m \in DownloadState /\ m.attempt = d.attempt /\ m.phase = "get"
    BY <1>1 DEF DownloadState, Phases
  <2> HIDE DEF m
  <2> QED BY <1>6, <2>1, <2>2
<1>8. CASE Throws(r)
  <2>1. d.phase \in {"ticket", "write"} /\ TryLater(r, d)
    BY <1>8 DEF Throws
  <2> HIDE DEF d, n
  <2> QED BY <1>1, <1>3, <2>1, TryLaterLoses
<1>9. CASE PauseEnds(r)
  <2>1. d.phase = "pause" /\ Leave(r, d)
    BY <1>9 DEF PauseEnds
  <2> HIDE DEF d, n
  <2> QED BY <1>1, <1>3, <1>5, <2>1, LeaveLoses
<1>10. CASE CleanupEnds(r)
  <2>1. d.phase = "cleanup" /\ Resume(r, d, cache)
    BY <1>10 DEF CleanupEnds
  <2> HIDE DEF d, n
  <2> QED BY <1>1, <1>3, <1>5, <2>1, ResumeLoses
<1>11. CASE SessionRejected(r)
  <2> DEFINE m == [d EXCEPT !.rejected = @ \cup {d.used}, !.attempt = @ + 1]
             e == [d EXCEPT !.then = "end", !.saved = {}]
             c == Without(cache, CacheKey(r))
  <2>1. /\ d.phase = "get"
        /\ IF d.attempt < MaxAttempts THEN Attempt(r, m, c) ELSE Resume(r, e, c)
    BY <1>11 DEF SessionRejected
  <2>2. m \in DownloadState /\ m.attempt = d.attempt + 1
    <3>1. d.rejected \cup {d.used} \in SUBSET Nat /\ d.attempt + 1 \in Nat
      BY <1>1 DEF DownloadState
    <3>2. ASSUME NEW S \in SUBSET Nat, NEW k \in Nat, NEW f,
                 f = [d EXCEPT !.rejected = S, !.attempt = k]
          PROVE  f \in DownloadState /\ f.attempt = k
      BY <1>1, <3>2 DEF DownloadState
    <3> HIDE DEF d
    <3> QED BY <3>1, <3>2
  <2>3. e \in DownloadState /\ e.attempt = d.attempt /\ e.then = "end"
    BY <1>1 DEF DownloadState
  <2> HIDE DEF d, n, m, e, c
  <2>4. CASE d.attempt < MaxAttempts
    <3>1. m.attempt \in 1..MaxAttempts /\ n < m.attempt
      BY <1>1, <1>3, <2>1, <2>2, <2>4, ScreenshotsAssumption
    <3> QED BY <1>1, <2>1, <2>2, <2>4, <3>1, AttemptLoses
  <2>5. CASE ~(d.attempt < MaxAttempts)
    BY <1>1, <1>3, <2>1, <2>3, <2>5, ResumeLoses
  <2> QED BY <2>4, <2>5
<1>12. CASE WriteTarget(r)
  <2> DEFINE file == [event |-> r, target |-> d.left]
             saved == [d EXCEPT !.saved = @ \cup {file}, !.left = @ - 1]
             over == [saved EXCEPT !.then = "end"]
  <2>1. /\ d.phase = "write"
        /\ downloads' = [downloads EXCEPT ![r] = saved] \/ Leave(r, over)
    BY <1>12 DEF WriteTarget
  <2>2. file \in File
    BY <1>1 DEF File, DownloadState
  <2> HIDE DEF file
  <2>3. saved \in DownloadState /\ saved.attempt = d.attempt /\ saved.phase = d.phase
    <3>1. d.saved \cup {file} \in SUBSET File /\ d.left - 1 \in Int
      BY <1>1, <2>2 DEF DownloadState
    <3>2. ASSUME NEW S \in SUBSET File, NEW k \in Int, NEW f,
                 f = [d EXCEPT !.saved = S, !.left = k]
          PROVE  f \in DownloadState /\ f.attempt = d.attempt /\ f.phase = d.phase
      BY <1>1, <3>2 DEF DownloadState
    <3> HIDE DEF d
    <3> QED BY <3>1, <3>2
  <2> HIDE DEF saved
  <2>4. over \in DownloadState /\ over.attempt = d.attempt /\ over.then = "end"
    BY <2>3 DEF DownloadState
  <2> HIDE DEF d, n, over
  <2>5. CASE downloads' = [downloads EXCEPT ![r] = saved]
    BY <1>6, <2>1, <2>3, <2>5
  <2>6. CASE Leave(r, over)
    BY <1>1, <1>3, <2>1, <2>4, <2>6, LeaveLoses
  <2> QED BY <2>1, <2>5, <2>6
<1>13. ASSUME NEW opens \in BOOLEAN,
              \/ Redirected(r, opens) \/ Refused(r, opens)
              \/ NotYet(r, opens) \/ Picture(r, opens)
       PROVE  LostFits(downloads'[r], n)
  <2> DEFINE h == Heard(r, opens)
  <2>1. h \in DownloadState /\ h.attempt = d.attempt /\ h.phase = d.phase /\ d.phase = "get"
    <3>1. d.phase = "get"
      BY <1>13 DEF Redirected, Refused, NotYet, Picture, Hears
    <3> QED BY <1>1, <3>1, HeardCounts
  <2>2. CASE Redirected(r, opens)
    <3> DEFINE m == [h EXCEPT !.hops = @ + 1]
    <3>1. downloads' = [downloads EXCEPT ![r] = m]
      BY <2>2 DEF Redirected
    <3> HIDE DEF h
    <3>2. m \in DownloadState /\ m.attempt = h.attempt /\ m.phase = h.phase
      BY <2>1 DEF DownloadState
    <3> HIDE DEF m
    <3> QED BY <1>6, <2>1, <3>1, <3>2
  <2>3. CASE Refused(r, opens)
    <3>1. GiveUp(r, h)
      BY <2>3 DEF Refused
    <3> HIDE DEF h, d, n
    <3> QED BY <1>1, <1>3, <2>1, <3>1, GiveUpLoses
  <2>4. CASE NotYet(r, opens)
    <3>1. TryLater(r, h)
      BY <2>4 DEF NotYet
    <3> HIDE DEF h, d, n
    <3> QED BY <1>1, <1>3, <2>1, <3>1, TryLaterLoses
  <2>5. CASE Picture(r, opens)
    <3> DEFINE kept == CacheOn /\ h.cookie # NoSession
               m == [h EXCEPT !.phase = "write", !.kept = kept]
    <3>1. downloads' = [downloads EXCEPT ![r] = m]
      BY <2>5 DEF Picture
    <3>2. kept \in BOOLEAN
      BY DEF CacheOn
    <3> HIDE DEF h, kept
    <3>3. m \in DownloadState /\ m.attempt = h.attempt /\ m.phase = "write"
      BY <2>1, <3>2 DEF DownloadState, Phases
    <3> HIDE DEF m
    <3> QED BY <1>6, <2>1, <3>1, <3>3
  <2> QED BY <1>13, <2>2, <2>3, <2>4, <2>5
<1> QED BY <1>7, <1>8, <1>9, <1>10, <1>11, <1>12, <1>13 DEF DownloadStep

LEMMA NoAnswerLoses ==
    ASSUME SessionInv, LostInv, NEW r \in Requests, NEW opens \in BOOLEAN, NoAnswer(r, opens)
    PROVE  /\ LostFits(downloads'[r], lost'[r]) /\ lost' \in [Requests -> Nat]
           /\ \A q \in Requests : q # r => lost'[q] = lost[q]
<1> DEFINE d == downloads[r]
           n == lost'[r]
<1>1. downloads \in [Requests -> DownloadState] /\ d \in DownloadState /\ lost[r] \in Nat
  BY DEF SessionInv, SessionsFit, LostInv
<1>2. /\ d.phase = "get" /\ TryLater(r, d)
      /\ lost' = lost \/ lost' = [lost EXCEPT ![r] = @ + 1]
  BY DEF NoAnswer
<1>3. /\ lost' \in [Requests -> Nat] /\ n \in Nat /\ n <= lost[r] + 1
      /\ \A q \in Requests : q # r => lost'[q] = lost[q]
  BY <1>2 DEF LostInv
<1>4. d.attempt \in 1..MaxAttempts /\ lost[r] < d.attempt
  BY <1>2 DEF LostInv, LostFits, Counted
<1> HIDE DEF d, n
<1>5. n <= d.attempt
  BY <1>1, <1>3, <1>4, ScreenshotsAssumption
<1>6. LostFits(downloads'[r], n)
  BY <1>1, <1>2, <1>3, <1>4, <1>5, TryLaterLoses
<1> QED BY <1>3, <1>6 DEF n

\* A step of one download leaves the others where they are.
LEMMA StepsAlone ==
    ASSUME SessionInv, NEW r \in Requests, DownloadStep(r), NEW q \in Requests, q # r
    PROVE  downloads'[q] = downloads[q]
<1>1. downloads \in [Requests -> DownloadState]
  BY DEF SessionInv, SessionsFit
<1>2. ASSUME NEW e, downloads' = [downloads EXCEPT ![r] = e] PROVE downloads'[q] = downloads[q]
  BY <1>1, <1>2
<1>3. ASSUME NEW d, NEW c, Attempt(r, d, c) PROVE downloads'[q] = downloads[q]
  BY <1>2, <1>3 DEF Attempt
<1>4. ASSUME NEW d, NEW c, Resume(r, d, c) PROVE downloads'[q] = downloads[q]
  BY <1>2, <1>3, <1>4 DEF Resume
<1>5. ASSUME NEW d, Leave(r, d) PROVE downloads'[q] = downloads[q]
  BY <1>2, <1>4, <1>5 DEF Leave
<1>6. ASSUME NEW d, GiveUp(r, d) PROVE downloads'[q] = downloads[q]
  BY <1>5, <1>6 DEF GiveUp
<1>7. ASSUME NEW d, TryLater(r, d) PROVE downloads'[q] = downloads[q]
  BY <1>2, <1>6, <1>7 DEF TryLater
<1>8. ASSUME NEW opens \in BOOLEAN,
             \/ NoAnswer(r, opens) \/ Redirected(r, opens) \/ Refused(r, opens)
             \/ NotYet(r, opens) \/ Picture(r, opens)
      PROVE  downloads'[q] = downloads[q]
  BY <1>2, <1>6, <1>7, <1>8 DEF NoAnswer, Redirected, Refused, NotYet, Picture
<1>9. CASE SessionRejected(r)
  BY <1>3, <1>4, <1>9 DEF SessionRejected
<1>10. CASE WriteTarget(r)
  BY <1>2, <1>5, <1>10 DEF WriteTarget
<1>11. CASE TicketArrives(r) \/ Throws(r) \/ PauseEnds(r) \/ CleanupEnds(r)
  BY <1>2, <1>4, <1>5, <1>7, <1>11 DEF TicketArrives, Throws, PauseEnds, CleanupEnds
<1> QED BY <1>8, <1>9, <1>10, <1>11 DEF DownloadStep

\* A step that is one download's, or none's.
LEMMA LostSteps ==
    ASSUME SessionInv, LostInv, [Next]_vars
    PROVE  LostInv'
<1>1. /\ downloads \in [Requests -> DownloadState]
      /\ lost \in [Requests -> Nat] /\ \A r \in Requests : LostFits(downloads[r], lost[r])
  BY DEF SessionInv, SessionsFit, LostInv
<1>2. ASSUME UNCHANGED <<downloads, lost>> PROVE LostInv'
  BY <1>1, <1>2 DEF LostInv, LostFits, Counted
<1>3. ASSUME NEW r \in Requests, lost' \in [Requests -> Nat],
             LostFits(downloads'[r], lost'[r]),
             \A q \in Requests : q # r => downloads'[q] = downloads[q] /\ lost'[q] = lost[q]
      PROVE  LostInv'
  <2>1. \A q \in Requests : LostFits(downloads'[q], lost'[q])
    BY <1>1, <1>3
  <2> QED BY <1>3, <2>1 DEF LostInv, LostFits, Counted
<1>4. ASSUME NEW r \in Requests, Download(r) PROVE LostInv'
  <2>1. downloads[r].phase = "idle" /\ Attempt(r, downloads[r], cache) /\ lost' = lost
    BY <1>4 DEF Download
  <2>2. downloads[r].attempt \in 1..MaxAttempts /\ lost[r] < downloads[r].attempt
    BY <1>1, <2>1 DEF LostFits, Counted
  <2>3. LostFits(downloads'[r], lost[r])
    BY <1>1, <2>1, <2>2, AttemptLoses
  <2>4. \A q \in Requests : q # r => downloads'[q] = downloads[q]
    BY <1>1, <2>1 DEF Attempt
  <2> QED BY <1>1, <1>3, <2>1, <2>3, <2>4
<1>5. ASSUME NEW r \in Requests, DownloadStep(r) PROVE LostInv'
  <2>1. \A q \in Requests : q # r => downloads'[q] = downloads[q]
    BY <1>5, StepsAlone
  <2>2. CASE \E opens \in BOOLEAN : NoAnswer(r, opens)
    BY <1>3, <2>1, <2>2, NoAnswerLoses
  <2>3. CASE \A opens \in BOOLEAN : ~NoAnswer(r, opens)
    <3>1. lost' = lost /\ LostFits(downloads'[r], lost[r])
      BY <1>5, <2>3, StepLoses DEF DownloadStep
    <3> QED BY <1>1, <1>3, <2>1, <3>1
  <2> QED BY <2>2, <2>3
<1>6. ASSUME NEW r \in Posted, Post(r) PROVE LostInv'
  BY <1>2, <1>6 DEF Post, Turned, Taken, shotVars
<1>7. ASSUME NEW r \in Posted, Works(r) PROVE LostInv'
  <2>1. r \in Requests
    BY AuditJobsAssumption DEF Posted, SessionInv
  <2>2. CASE Admit(r) \/ Enqueue(r) \/ StoreEvent(r) \/ EndJob(r)
    BY <1>2, <2>2 DEF Admit, Enqueue, StoreEvent, EndJob, shotVars
  <2> QED BY <1>4, <1>5, <1>7, <2>1, <2>2 DEF Works
<1>8. ASSUME NEW f \in Flushes, FlushWorks(f) PROVE LostInv'
  BY <1>2, <1>8 DEF FlushWorks, shotVars
<1>9. CASE TimerFires \/ ClockTick \/ UNCHANGED vars
  BY <1>2, <1>9 DEF TimerFires, ClockTick, vars, shotVars
<1>10. CASE SessionStep
  BY <1>2, <1>10 DEF SessionStep, Expire, CloseSession
<1> QED BY <1>6, <1>7, <1>8, <1>9, <1>10 DEF Next

LEMMA LostInvariant == Spec => []LostInv
<1>1. Init => LostInv
  <2> SUFFICES ASSUME Init PROVE LostInv
    OBVIOUS
  <2>1. /\ downloads = [r \in Requests |-> Idle] /\ lost = [r \in Requests |-> 0]
    BY DEF Init, ShotInit
  <2> QED BY <2>1, ScreenshotsAssumption DEF LostInv, LostFits, Counted, Idle
<1>2. SessionInv /\ LostInv /\ [Next]_vars => LostInv'
  BY LostSteps
<1> QED BY <1>1, <1>2, SessionInvariant, PTL DEF Spec

\* However downloads overlap, are tried again, rejected or given up, and whatever
\* leaves the cache for whichever reason: each session whose cookie was read is in the
\* cache, or was asked to be deleted, or belongs to a download that has yet to decide; no
\* download presents a session that was rejected when it did so before; and of the
\* sessions Qlik opened with answers that did not arrive whole, which nobody gives back,
\* an event leaves no more behind than it has attempts.
THEOREM NoSessionIsLost == Spec => []SessionsKept
<1>1. SessionInv /\ LostInv => SessionsKept
  <2> SUFFICES ASSUME SessionInv, LostInv PROVE SessionsKept
    OBVIOUS
  <2>1. SessionsFit(downloads, cache, asked, Len(qlik)) /\ DOMAIN qlik = 1..Len(qlik)
    BY DEF SessionInv
  <2>2. \A s \in Sessions(cache) : s \notin asked
    BY <2>1, SessionsOf DEF SessionsFit, CacheFits
  <2>3. ASSUME NEW s \in DOMAIN qlik
        PROVE  \/ s \in Sessions(cache) /\ s \notin asked
               \/ s \in asked /\ s \notin Sessions(cache)
               \/ \E r \in Requests :
                     /\ downloads[r].cookie = s /\ ~downloads[r].kept
                     /\ downloads[r].phase \in {"get", "write", "pause"}
    <3>1. CASE s \in Sessions(cache) \/ s \in asked
      BY <2>2, <3>1
    <3>2. CASE \E r \in Requests : s \in Own(downloads[r])
      BY <3>2 DEF Own, Held
    <3> QED BY <2>1, <3>1, <3>2 DEF SessionsFit
  <2>4. \A r \in Requests :
            downloads[r].phase = "get" => downloads[r].used \notin downloads[r].rejected
    BY <2>1 DEF SessionsFit, DownloadFits
  <2>5. \A r \in Requests : lost[r] <= MaxAttempts
    BY ScreenshotsAssumption DEF LostInv, LostFits, Counted
  <2> QED BY <2>3, <2>4, <2>5 DEF SessionsKept
<1> QED BY <1>1, SessionInvariant, LostInvariant, PTL
-----------------------------------------------------------------------------
(* The stages of the jobs, step by step.                                   *)

LEMMA PostStages ==
    ASSUME JobInv, NEW r \in Requests, Post(r)
    PROVE  /\ JobInv' /\ stage[r] = "new"
           /\ \A i \in Jobs : i # r => stage'[i] = stage[i]
           /\ \/ /\ stage'[r] = "answered"
                 /\ \E status \in {400, 401, 422, 429} : Answer(r, status)
              \/ /\ stage'[r] \in {"running", "adding"}
                 /\ stage'[r] = "running" => ~settings.manager
                 /\ answer' = answer
<1> DEFINE answered == \E status \in {400, 401, 422, 429} : Answer(r, status)
<1>1. stage[r] = "new" /\ UNCHANGED <<settings, queue>>
  BY DEF Post, Turned, Taken
<1>2. /\ r \in Jobs /\ StagesOf(r) = RequestStages
      /\ {"answered", "running", "adding"} \in SUBSET RequestStages
  BY DEF Jobs, StagesOf, RequestStages
<1>3. \/ Moves(r, "answered") /\ answered
      \/ Moves(r, "running") /\ ~settings.manager /\ answer' = answer
      \/ Moves(r, "adding") /\ answer' = answer
  <2>1. CASE Turned(r)
    <3>1. PICK i \in DOMAIN CheckStatus : Answer(r, CheckStatus[i])
      BY <2>1 DEF Turned, Failed
    <3>2. CheckStatus[i] \in {400, 401, 422, 429}
      BY DEF CheckStatus
    <3> QED BY <2>1, <3>1, <3>2 DEF Turned
  <2>2. CASE Taken(r)
    BY <2>2 DEF Taken
  <2> QED BY <2>1, <2>2 DEF Post
<1> HIDE DEF answered
<1>4. CASE Moves(r, "answered") /\ answered
  <2>1. /\ JobInv' /\ stage'[r] = "answered"
        /\ \A i \in Jobs : i # r => stage'[i] = stage[i]
    BY <1>1, <1>2, <1>4, MovesKeep
  <2> QED BY <1>1, <1>4, <2>1 DEF answered
<1>5. ASSUME NEW to \in {"running", "adding"}, Moves(r, to)
      PROVE  /\ JobInv' /\ stage'[r] = to
             /\ \A i \in Jobs : i # r => stage'[i] = stage[i]
  BY <1>1, <1>2, <1>5, MovesKeep
<1> QED BY <1>1, <1>3, <1>4, <1>5

LEMMA AdmitStages ==
    ASSUME JobInv, NEW r \in Requests, Admit(r)
    PROVE  /\ JobInv' /\ stage[r] = "adding"
           /\ \A i \in Jobs : i # r => stage'[i] = stage[i]
           /\ \/ stage'[r] = "answered" /\ Answer(r, 503)
              \/ stage'[r] = "admitted" /\ answer' = answer
<1>1. stage[r] = "adding" /\ UNCHANGED <<settings, queue>>
  BY DEF Admit, Admitted, Unmoved
<1>2. /\ r \in Jobs /\ StagesOf(r) = RequestStages
      /\ {"answered", "admitted"} \in SUBSET RequestStages
  BY DEF Jobs, StagesOf, RequestStages
<1>3. \/ Moves(r, "answered") /\ Answer(r, 503)
      \/ Moves(r, "admitted") /\ answer' = answer
  BY DEF Admit, Admitted
<1>4. ASSUME NEW to \in {"answered", "admitted"}, Moves(r, to)
      PROVE  /\ JobInv' /\ stage'[r] = to
             /\ \A i \in Jobs : i # r => stage'[i] = stage[i]
  BY <1>1, <1>2, <1>4, MovesKeep
<1> QED BY <1>1, <1>3, <1>4

LEMMA EnqueueStages ==
    ASSUME JobInv, NEW r \in Requests, Enqueue(r)
    PROVE  /\ JobInv' /\ stage[r] = "admitted"
           /\ \A i \in Jobs : i # r => stage'[i] = stage[i]
           /\ stage'[r] \in {"waiting", "running"}
<1>1. r \in Jobs /\ stage[r] = "admitted" /\ Enqueued(r) /\ UNCHANGED settings
  BY DEF Enqueue, Unmoved, Jobs
<1> QED BY <1>1, EnqueuedKeeps

LEMMA EndJobStages ==
    ASSUME JobInv, NEW r \in Requests, EndJob(r)
    PROVE  /\ JobInv' /\ stage[r] = "handled" /\ stage'[r] = "done"
           /\ \A i \in Jobs : i # r => Stays(i)
<1>1. /\ r \in Jobs /\ stage[r] = "handled" /\ Ended(r, "done") /\ UNCHANGED settings
      /\ "done" \in StagesOf(r)
  BY DEF EndJob, Unmoved, Jobs, StagesOf, RequestStages
<1> QED BY <1>1, EndedKeeps

\* The stage of a flush when the buffer asks for one.
Asks(f) == stage'[f] = stage[f] \/ (stage[f] = "idle" /\ stage'[f] \in {"adding", "running"})

LEMMA StoreEventStages ==
    ASSUME JobInv, NEW r \in Requests, StoreEvent(r)
    PROVE  /\ JobInv' /\ stage[r] = "running" /\ stage'[r] = "handled"
           /\ \A i \in Requests : i # r => stage'[i] = stage[i]
           /\ \A f \in Flushes : Asks(f)
<1> DEFINE st == [stage EXCEPT ![r] = "handled"]
<1>1. stage[r] = "running" /\ UNCHANGED <<settings, queue>> /\ r \in Jobs
  BY DEF StoreEvent, Unmoved, Jobs
<1>2. /\ DOMAIN st = Jobs /\ st[r] = "handled"
      /\ \A i \in Jobs : i # r => st[i] = stage[i]
  BY <1>1 DEF JobInv
<1>3. \/ stage' = st
      \/ RequestFlush(st)
  BY DEF StoreEvent, BufferEvent, Moves
<1>4. /\ \A j \in Jobs : st[j] \in StagesOf(j)
      /\ \A j \in Jobs : stage[j] = "waiting" => st[j] = "waiting"
      /\ \A f \in Flushes : st[f] = stage[f]
      /\ \A i \in Requests : i \in Jobs
  BY <1>1, <1>2, AuditJobsAssumption DEF JobInv, StagesOf, RequestStages, Jobs
<1> HIDE DEF st
<1>5. CASE stage' = st
  <2>1. Moves(r, "handled") /\ "handled" \in StagesOf(r)
    BY <1>5 DEF st, Moves, StagesOf, RequestStages
  <2>2. JobInv'
    BY <1>1, <2>1, MovesKeep
  <2> QED BY <1>1, <1>2, <1>4, <1>5, <2>2 DEF Asks
<1>6. CASE RequestFlush(st)
  <2>1. /\ JobInv'
        /\ \A i \in Requests : stage'[i] = st[i]
        /\ \A f \in Flushes : \/ stage'[f] = stage[f]
                              \/ stage[f] = "idle" /\ stage'[f] \in {"adding", "running"}
    BY <1>1, <1>2, <1>4, <1>6, RequestFlushKeeps
  <2> QED BY <1>1, <1>2, <1>4, <2>1 DEF Asks
<1> QED BY <1>3, <1>5, <1>6

LEMMA TimerStages ==
    ASSUME JobInv, TimerFires
    PROVE  /\ JobInv'
           /\ \A i \in Requests : stage'[i] = stage[i]
           /\ \A f \in Flushes : Asks(f)
<1>1. RequestFlush(stage) /\ UNCHANGED <<settings, queue>> /\ DOMAIN stage = Jobs
      /\ \A j \in Jobs : stage[j] \in StagesOf(j)
  BY DEF TimerFires, Interval, Unmoved, JobInv
<1>2. /\ JobInv'
      /\ \A i \in Requests : stage'[i] = stage[i]
      /\ \A f \in Flushes : \/ stage'[f] = stage[f]
                            \/ stage[f] = "idle" /\ stage'[f] \in {"adding", "running"}
  BY <1>1, RequestFlushKeeps
<1> QED BY <1>2 DEF Asks

\* A flush moves from one stage to the next, and may hand its slot on.
LEMMA FlushJobStages ==
    ASSUME JobInv, NEW f \in Flushes, FlushStep(f), UNCHANGED settings
    PROVE  /\ JobInv'
           /\ \A i \in Jobs : i # f => Stays(i)
           /\ AddFlush(f) => stage[f] = "adding" /\ stage'[f] \in {"idle", "waiting", "running"}
           /\ FlushNow(f) => stage[f] = "running" /\ stage'[f] = "writing"
           /\ NothingToFlush(f) \/ WriteSucceeds(f) \/ WriteFails(f) =>
                 stage[f] \in {"running", "writing"} /\ stage'[f] = "idle"
<1>1. /\ f \in Jobs /\ StagesOf(f) = FlushStages
      /\ {"idle", "writing"} \in SUBSET FlushStages
  BY AuditJobsAssumption DEF Jobs, StagesOf, FlushStages
<1>2. ASSUME AddFlush(f)
      PROVE  /\ JobInv' /\ stage[f] = "adding" /\ stage'[f] \in {"idle", "waiting", "running"}
             /\ \A i \in Jobs : i # f => Stays(i)
  <2>1. stage[f] = "adding" /\ ((Moves(f, "idle") /\ UNCHANGED queue) \/ Enqueued(f))
    BY <1>2 DEF AddFlush
  <2>2. CASE Moves(f, "idle") /\ UNCHANGED queue
    BY <1>1, <2>1, <2>2, MovesKeep DEF Stays
  <2>3. CASE Enqueued(f)
    BY <1>1, <2>1, <2>3, EnqueuedKeeps DEF Stays
  <2> QED BY <2>1, <2>2, <2>3
<1>3. ASSUME FlushNow(f)
      PROVE  JobInv' /\ stage[f] = "running" /\ stage'[f] = "writing" /\ \A i \in Jobs : i # f => Stays(i)
  <2>1. stage[f] = "running" /\ Moves(f, "writing") /\ UNCHANGED queue
    BY <1>3 DEF FlushNow
  <2> QED BY <1>1, <2>1, MovesKeep DEF Stays
<1>4. ASSUME NothingToFlush(f) \/ WriteSucceeds(f) \/ WriteFails(f)
      PROVE  /\ JobInv' /\ stage[f] \in {"running", "writing"} /\ stage'[f] = "idle"
             /\ \A i \in Jobs : i # f => Stays(i)
  <2>1. stage[f] \in {"running", "writing"} /\ Ended(f, "idle")
    BY <1>4 DEF NothingToFlush, WriteSucceeds, WriteFails, EndFlush
  <2> QED BY <1>1, <2>1, EndedKeeps
<1> QED BY <1>2, <1>3, <1>4 DEF FlushStep-----------------------------------------------------------------------------
(* The answers, and what the destinations were given.                      *)

Underway == {"waiting", "running", "handled", "done"}
StoredEvent == [event: Requests, saved: SUBSET File]

\* A request is answered at last, with 202 or with something else, before or after the
\* work on its event.
AnswersFit(r) ==
    /\ answer[r] \in {0, 202} <=> stage[r] # "answered"
    /\ answer[r] = 202 => stage[r] \in Underway
    /\ settings.manager /\ stage[r] \in Underway => answer[r] = 202

\* Each event that has been handled was stored, once, with files that are on disk.
StoredFits ==
    /\ stored \in Seq(StoredEvent)
    /\ \A i, j \in DOMAIN stored : stored[i].event = stored[j].event => i = j
    /\ \A i \in DOMAIN stored : /\ stage[stored[i].event] \in {"handled", "done"}
                                /\ stored[i].saved \in SUBSET files
    /\ "files" \in settings.destinations =>
          \A r \in Requests : stage[r] \in {"handled", "done"} =>
              \E i \in DOMAIN stored : stored[i].event = r
    /\ \A r \in Requests : downloads[r].saved \in SUBSET files

AnswerInv ==
    /\ JobInv /\ SessionInv /\ StoredFits
    /\ answer \in [Requests -> Nat]
    /\ \A r \in Requests : AnswersFit(r)

LEMMA AnsweredFits ==
    ASSUME NEW r \in Requests, answer \in [Requests -> Nat], NEW status \in Nat, Answer(r, status)
    PROVE  /\ answer' \in [Requests -> Nat] /\ answer'[r] = status
           /\ \A q \in Requests : q # r => answer'[q] = answer[q]
BY DEF Answer

LEMMA StaysFit ==
    ASSUME NEW r \in Requests, AnswersFit(r), Stays(r), answer'[r] = answer[r], UNCHANGED settings
    PROVE  AnswersFit(r)'
BY DEF AnswersFit, Stays, Underway

\* Nothing is stored, and no event is handled that was not before.
LEMMA StoredStays ==
    ASSUME StoredFits, JobInv', Advances, UNCHANGED <<settings, stored>>,
           \A r \in Requests : stage'[r] \in {"handled", "done"} <=> stage[r] \in {"handled", "done"}
    PROVE  StoredFits'
<1>1. /\ files \in SUBSET files'
      /\ \A r \in Requests : downloads'[r].saved \in SUBSET (downloads[r].saved \cup files')
  BY DEF Advances
<1>2. \A i \in DOMAIN stored : /\ stage'[stored[i].event] \in {"handled", "done"}
                               /\ stored[i].saved \in SUBSET files'
  <2> TAKE i \in DOMAIN stored
  <2>1. stored[i] \in StoredEvent
    BY DEF StoredFits
  <2>2. stored[i].event \in Requests
    BY <2>1 DEF StoredEvent
  <2> QED BY <1>1, <2>2 DEF StoredFits
<1>3. \A r \in Requests : downloads'[r].saved \in SUBSET files'
  BY <1>1 DEF StoredFits
<1> QED BY <1>2, <1>3 DEF StoredFits

\* A step that only moves jobs on, and gives r an answer that fits, if any.
LEMMA MovesFit ==
    ASSUME AnswerInv, Advances, JobInv', UNCHANGED <<settings, stored>>, NEW r \in Requests,
           \A q \in Requests : q # r => Stays(q) /\ answer'[q] = answer[q],
           answer' \in [Requests -> Nat], AnswersFit(r)',
           stage'[r] \in {"handled", "done"} <=> stage[r] \in {"handled", "done"}
    PROVE  AnswerInv'
<1>1. \A q \in Requests : AnswersFit(q)'
  BY StaysFit DEF AnswerInv
<1>2. StoredFits'
  <2>1. \A q \in Requests : stage'[q] \in {"handled", "done"} <=> stage[q] \in {"handled", "done"}
    BY DEF Stays
  <2> QED BY <2>1, StoredStays DEF AnswerInv
<1> QED BY <1>1, <1>2 DEF AnswerInv, Advances

\* A step of others, that only hands a slot on.
LEMMA OthersMove ==
    ASSUME AnswerInv, Advances, JobInv', UNCHANGED <<settings, apiVars>>,
           \A q \in Requests : Stays(q)
    PROVE  AnswerInv'
<1>1. \A q \in Requests : AnswersFit(q)'
  BY StaysFit DEF AnswerInv, apiVars
<1>2. StoredFits'
  <2>1. \A q \in Requests : stage'[q] \in {"handled", "done"} <=> stage[q] \in {"handled", "done"}
    BY DEF Stays
  <2> QED BY <2>1, StoredStays DEF AnswerInv, apiVars
<1> QED BY <1>1, <1>2 DEF AnswerInv, Advances, apiVars

LEMMA PostFits ==
    ASSUME AnswerInv, Advances, NEW r \in Requests, Post(r)
    PROVE  AnswerInv'
<1>1. /\ JobInv' /\ stage[r] = "new"
      /\ \A i \in Requests : i # r => stage'[i] = stage[i]
      /\ \/ /\ stage'[r] = "answered"
            /\ \E status \in {400, 401, 422, 429} : Answer(r, status)
         \/ /\ stage'[r] \in {"running", "adding"}
            /\ stage'[r] = "running" => ~settings.manager
            /\ answer' = answer
  BY PostStages DEF AnswerInv, Jobs
<1>2. UNCHANGED <<settings, stored>>
  BY DEF Post, Turned, Taken
<1>3. answer \in [Requests -> Nat] /\ answer[r] = 0
  BY <1>1 DEF AnswerInv, AnswersFit, Underway
<1>4. CASE stage'[r] = "answered" /\ \E status \in {400, 401, 422, 429} : Answer(r, status)
  <2>1. PICK status \in {400, 401, 422, 429} : Answer(r, status)
    BY <1>4
  <2>2. status \in Nat
    OBVIOUS
  <2>3. /\ answer' \in [Requests -> Nat] /\ answer'[r] = status
        /\ \A q \in Requests : q # r => answer'[q] = answer[q]
    BY <1>3, <2>1, <2>2, AnsweredFits
  <2>4. AnswersFit(r)'
    BY <1>4, <2>3 DEF AnswersFit, Underway
  <2> QED BY <1>1, <1>2, <1>4, <2>3, <2>4, MovesFit DEF Stays
<1>5. CASE /\ stage'[r] \in {"running", "adding"}
           /\ stage'[r] = "running" => ~settings.manager
           /\ answer' = answer
  <2>1. AnswersFit(r)'
    BY <1>2, <1>3, <1>5 DEF AnswersFit, Underway
  <2> QED BY <1>1, <1>2, <1>3, <1>5, <2>1, MovesFit DEF Stays
<1> QED BY <1>1, <1>4, <1>5

LEMMA AdmitFits ==
    ASSUME AnswerInv, Advances, NEW r \in Requests, Admit(r)
    PROVE  AnswerInv'
<1>1. /\ JobInv' /\ stage[r] = "adding"
      /\ \A i \in Requests : i # r => stage'[i] = stage[i]
      /\ \/ stage'[r] = "answered" /\ Answer(r, 503)
         \/ stage'[r] = "admitted" /\ answer' = answer
  BY AdmitStages DEF AnswerInv, Jobs
<1>2. UNCHANGED <<settings, stored>>
  BY DEF Admit, Unmoved
<1>3. answer \in [Requests -> Nat] /\ answer[r] = 0
  BY <1>1 DEF AnswerInv, AnswersFit, Underway
<1>4. CASE stage'[r] = "answered" /\ Answer(r, 503)
  <2>1. /\ answer' \in [Requests -> Nat] /\ answer'[r] = 503
        /\ \A q \in Requests : q # r => answer'[q] = answer[q]
    BY <1>3, <1>4, AnsweredFits
  <2>2. AnswersFit(r)'
    BY <1>4, <2>1 DEF AnswersFit, Underway
  <2> QED BY <1>1, <1>2, <1>4, <2>1, <2>2, MovesFit DEF Stays
<1>5. CASE stage'[r] = "admitted" /\ answer' = answer
  <2>1. AnswersFit(r)'
    BY <1>2, <1>3, <1>5 DEF AnswersFit, Underway
  <2> QED BY <1>1, <1>2, <1>3, <1>5, <2>1, MovesFit DEF Stays
<1> QED BY <1>1, <1>4, <1>5

LEMMA EnqueueFits ==
    ASSUME AnswerInv, Advances, NEW r \in Requests, Enqueue(r)
    PROVE  AnswerInv'
<1>1. /\ JobInv' /\ stage[r] = "admitted" /\ stage'[r] \in {"waiting", "running"}
      /\ \A i \in Requests : i # r => stage'[i] = stage[i]
  BY EnqueueStages DEF AnswerInv, Jobs
<1>2. UNCHANGED <<settings, stored>> /\ Answer(r, 202)
  BY DEF Enqueue, Unmoved
<1>3. /\ answer' \in [Requests -> Nat] /\ answer'[r] = 202
      /\ \A q \in Requests : q # r => answer'[q] = answer[q]
  BY <1>2, AnsweredFits DEF AnswerInv
<1>4. AnswersFit(r)'
  BY <1>1, <1>3 DEF AnswersFit, Underway
<1> QED BY <1>1, <1>2, <1>3, <1>4, MovesFit DEF Stays

LEMMA EndJobFits ==
    ASSUME AnswerInv, Advances, NEW r \in Requests, EndJob(r)
    PROVE  AnswerInv'
<1>1. /\ JobInv' /\ stage[r] = "handled" /\ stage'[r] = "done"
      /\ \A i \in Requests : i # r => Stays(i)
  BY EndJobStages DEF AnswerInv, Jobs
<1>2. /\ UNCHANGED <<settings, stored>>
      /\ IF settings.manager THEN UNCHANGED answer ELSE Answer(r, 202)
  BY DEF EndJob, Unmoved
<1>3. answer \in [Requests -> Nat] /\ AnswersFit(r)
  BY DEF AnswerInv
<1>4. /\ answer' \in [Requests -> Nat] /\ answer'[r] = 202
      /\ \A q \in Requests : q # r => answer'[q] = answer[q]
  <2>1. CASE settings.manager
    <3>1. answer[r] = 202
      BY <1>1, <1>3, <2>1 DEF AnswersFit, Underway
    <3> QED BY <1>2, <1>3, <2>1, <3>1
  <2>2. CASE ~settings.manager
    BY <1>2, <1>3, <2>2, AnsweredFits
  <2> QED BY <2>1, <2>2
<1>5. AnswersFit(r)'
  BY <1>1, <1>4 DEF AnswersFit, Underway
<1> QED BY <1>1, <1>2, <1>4, <1>5, MovesFit

\* The event is stored with what its download has saved, before its job ends.
LEMMA StoreEventFits ==
    ASSUME AnswerInv, Advances, NEW r \in Requests, StoreEvent(r)
    PROVE  AnswerInv'
<1>1. /\ JobInv' /\ stage[r] = "running" /\ stage'[r] = "handled"
      /\ \A i \in Requests : i # r => stage'[i] = stage[i]
  BY StoreEventStages DEF AnswerInv
<1>2. /\ UNCHANGED <<settings, answer, files, downloads>>
      /\ stored' = IF "files" \in settings.destinations
                   THEN Append(stored, [event |-> r, saved |-> downloads[r].saved])
                   ELSE stored
  BY DEF StoreEvent, Unmoved, shotVars
<1>3. /\ stored \in Seq(StoredEvent) /\ downloads[r].saved \in SUBSET files
      /\ \A i, j \in DOMAIN stored : stored[i].event = stored[j].event => i = j
      /\ \A i \in DOMAIN stored : /\ stage[stored[i].event] \in {"handled", "done"}
                                  /\ stored[i].saved \in SUBSET files
      /\ "files" \in settings.destinations =>
            \A q \in Requests : stage[q] \in {"handled", "done"} =>
                \E i \in DOMAIN stored : stored[i].event = q
      /\ \A q \in Requests : downloads[q].saved \in SUBSET files
  BY DEF AnswerInv, StoredFits
<1>4. \A i \in DOMAIN stored : stored[i].event \in Requests /\ stored[i].event # r
  <2> TAKE i \in DOMAIN stored
  <2>1. stored[i] \in StoredEvent
    BY <1>3
  <2> QED BY <1>1, <1>3, <2>1 DEF StoredEvent
<1>5. \A i \in DOMAIN stored : stage'[stored[i].event] \in {"handled", "done"}
  BY <1>1, <1>3, <1>4
<1>6. StoredFits'
  <2>1. CASE "files" \in settings.destinations
    <3> DEFINE new == [event |-> r, saved |-> downloads[r].saved]
               last == Len(stored) + 1
    <3>1. new \in StoredEvent /\ new.event = r /\ new.saved = downloads[r].saved
      <4>1. downloads[r].saved \in SUBSET File
        BY KnownDownload DEF AnswerInv, DownloadState
      <4> QED BY <4>1 DEF StoredEvent
    <3>2. stored' = Append(stored, new)
      BY <1>2, <2>1
    <3> HIDE DEF new
    <3>3. /\ stored' \in Seq(StoredEvent) /\ DOMAIN stored' = DOMAIN stored \cup {last}
          /\ last \notin DOMAIN stored /\ stored'[last] = new
          /\ \A i \in DOMAIN stored : stored'[i] = stored[i]
      BY <1>3, <3>1, <3>2
    <3> HIDE DEF last
    <3>4. \A i, j \in DOMAIN stored' : stored'[i].event = stored'[j].event => i = j
      BY <1>3, <1>4, <3>1, <3>3
    <3>5. \A i \in DOMAIN stored' : /\ stage'[stored'[i].event] \in {"handled", "done"}
                                    /\ stored'[i].saved \in SUBSET files'
      BY <1>1, <1>2, <1>3, <1>5, <3>1, <3>3
    <3>6. \A q \in Requests : stage'[q] \in {"handled", "done"} =>
              \E i \in DOMAIN stored' : stored'[i].event = q
      <4> SUFFICES ASSUME NEW q \in Requests, stage'[q] \in {"handled", "done"}
                   PROVE  \E i \in DOMAIN stored' : stored'[i].event = q
        OBVIOUS
      <4>1. CASE q = r
        BY <3>1, <3>3, <4>1
      <4>2. CASE q # r
        BY <1>1, <1>3, <2>1, <3>3, <4>2
      <4> QED BY <4>1, <4>2
    <3> QED BY <1>2, <1>3, <3>3, <3>4, <3>5, <3>6 DEF StoredFits
  <2>2. CASE "files" \notin settings.destinations
    BY <1>2, <1>3, <1>5, <2>2 DEF StoredFits
  <2> QED BY <2>1, <2>2
<1>7. \A q \in Requests : AnswersFit(q)'
  <2> TAKE q \in Requests
  <2>1. AnswersFit(q)
    BY DEF AnswerInv
  <2> QED BY <1>1, <1>2, <2>1 DEF AnswersFit, Underway
<1> QED BY <1>1, <1>2, <1>6, <1>7 DEF AnswerInv, Advances

LEMMA AnswerSteps ==
    ASSUME AnswerInv, [Next]_vars
    PROVE  AnswerInv'
<1>1. Advances
  BY SessionSteps DEF AnswerInv
<1>2. Posted \in SUBSET Requests
  BY AuditJobsAssumption DEF Posted, AnswerInv, JobInv
<1>3. ASSUME UNCHANGED <<settings, jobVars, apiVars>> PROVE AnswerInv'
  <2>1. JobInv' /\ \A q \in Requests : Stays(q)
    BY <1>3 DEF AnswerInv, JobInv, jobVars, Jobs, StagesOf, Stays
  <2> QED BY <1>1, <1>3, <2>1, OthersMove
<1>4. ASSUME NEW r \in Requests, Works(r) PROVE AnswerInv'
  <2>1. CASE Download(r)
    <3>1. UNCHANGED <<settings, jobVars, apiVars>>
      BY <2>1 DEF Download, Unmoved
    <3> QED BY <1>3, <3>1
  <2>2. CASE DownloadStep(r) /\ Unmoved /\ UNCHANGED <<jobVars, bufferVars, apiVars>>
    BY <1>3, <2>2 DEF Unmoved
  <2> QED BY <1>1, <1>4, <2>1, <2>2, AdmitFits, EnqueueFits, StoreEventFits, EndJobFits DEF Works
<1>5. ASSUME NEW f \in Flushes, FlushWorks(f) PROVE AnswerInv'
  <2>1. FlushStep(f) /\ UNCHANGED <<settings, apiVars>>
    BY <1>5 DEF FlushWorks, Unmoved
  <2>2. JobInv' /\ \A i \in Jobs : i # f => Stays(i)
    BY <2>1, FlushJobStages DEF AnswerInv
  <2>3. \A q \in Requests : Stays(q)
    BY <2>2, AuditJobsAssumption DEF Jobs
  <2> QED BY <1>1, <2>1, <2>2, <2>3, OthersMove
<1>6. CASE TimerFires
  <2>1. JobInv' /\ \A q \in Requests : Stays(q)
    BY <1>6, TimerStages DEF AnswerInv, Stays
  <2>2. UNCHANGED <<settings, apiVars>>
    BY <1>6 DEF TimerFires, Unmoved
  <2> QED BY <1>1, <2>1, <2>2, OthersMove
<1>7. CASE SessionStep \/ ClockTick \/ UNCHANGED vars
  <2>1. UNCHANGED <<settings, jobVars, apiVars>>
    BY <1>7 DEF SessionStep, ClockTick, vars, Unmoved
  <2> QED BY <1>3, <2>1
<1> QED BY <1>1, <1>2, <1>4, <1>5, <1>6, <1>7, PostFits DEF Next

LEMMA JobStart == ASSUME Init PROVE JobInv
<1>1. /\ settings \in SettingsSet /\ queue = <<>>
      /\ stage = [j \in Jobs |-> IF j \in Requests THEN "new" ELSE "idle"]
  BY DEF Init, JobsInit
<1>2. "new" \in RequestStages /\ "idle" \in FlushStages
  BY DEF RequestStages, FlushStages
<1> QED BY <1>1, <1>2 DEF JobInv, StagesOf

LEMMA AnswerInvariant == Spec => []AnswerInv
<1>1. ASSUME Init PROVE AnswerInv
  <2>1. /\ answer = [r \in Requests |-> 0] /\ stored = <<>>
        /\ downloads = [r \in Requests |-> Idle] /\ Idle.saved = {}
        /\ \A r \in Requests : stage[r] = "new"
    BY <1>1 DEF Init, JobsInit, ShotInit, Idle, Jobs
  <2>2. StoredFits
    BY <2>1 DEF StoredFits
  <2>3. answer \in [Requests -> Nat] /\ \A r \in Requests : AnswersFit(r)
    BY <2>1 DEF AnswersFit, Underway
  <2> QED BY <1>1, <2>2, <2>3, JobStart, SessionStart DEF AnswerInv
<1>2. AnswerInv /\ [Next]_vars => AnswerInv'
  BY AnswerSteps
<1> QED BY <1>1, <1>2, PTL DEF Spec

\* "202 processed" is true in the end although it is said before the work is done: the
\* event waits for a slot, is worked on, or was stored, once; any other answer says that
\* it never is, and the pictures a stored event names are on disk.
THEOREM AnswersAreKept == Spec => []AnswersHold
<1>1. AnswerInv => AnswersHold
  <2> SUFFICES ASSUME AnswerInv PROVE AnswersHold
    OBVIOUS
  <2>1. Posted \in SUBSET Requests
    BY AuditJobsAssumption DEF Posted, AnswerInv, JobInv
  <2>2. /\ \A i, j \in DOMAIN stored : stored[i].event = stored[j].event => i = j
        /\ \A i \in DOMAIN stored : /\ stage[stored[i].event] \in {"handled", "done"}
                                    /\ stored[i].saved \in SUBSET files
    BY DEF AnswerInv, StoredFits
  <2>3. ASSUME NEW r \in Requests
        PROVE LET handed == \E i \in DOMAIN stored : stored[i].event = r
              IN  /\ answer[r] = 202 /\ "files" \in settings.destinations => handed \/ stage[r] \in InFlight
                  /\ answer[r] \notin {0, 202} => ~handed /\ stage[r] \notin InFlight
                  /\ settings.manager /\ handed => answer[r] = 202
    <3> DEFINE handed == \E i \in DOMAIN stored : stored[i].event = r
    <3>1. AnswersFit(r)
      BY DEF AnswerInv
    <3>2. handed => stage[r] \in {"handled", "done"}
      BY <2>2
    <3>3. "files" \in settings.destinations /\ stage[r] \in {"handled", "done"} => handed
      BY DEF AnswerInv, StoredFits
    <3> HIDE DEF handed
    <3>4. /\ answer[r] = 202 /\ "files" \in settings.destinations => handed \/ stage[r] \in InFlight
          /\ answer[r] \notin {0, 202} => ~handed /\ stage[r] \notin InFlight
          /\ settings.manager /\ handed => answer[r] = 202
      BY <3>1, <3>2, <3>3 DEF AnswersFit, Underway, InFlight
    <3> QED BY <3>4 DEF handed
  <2> QED BY <2>1, <2>2, <2>3 DEF AnswersHold
<1> QED BY <1>1, AnswerInvariant, PTL
-----------------------------------------------------------------------------
(* The buffer of the InfluxDB destination.                                 *)

Once(s) == \A i, j \in DOMAIN s : s[i] = s[j] => i = j
InMemory(e) == e \in ToSet(buffer) \/ \E f \in Flushes : e \in ToSet(points[f])
Processed(e) == stage[e] \in {"handled", "done"}

\* No event is in memory twice, and only a flush that is writing has points in hand.
MemoryFits ==
    /\ buffer \in Seq(Requests) /\ Once(buffer)
    /\ points \in [Flushes -> Seq(Requests)]
    /\ \A f \in Flushes : Once(points[f]) /\ ToSet(points[f]) \cap ToSet(buffer) = {}
    /\ \A f, g \in Flushes : ToSet(points[f]) \cap ToSet(points[g]) # {} => f = g
    /\ \A f \in Flushes : stage[f] # "writing" => points[f] = <<>>

\* An event gets there when it has been processed, and leaves memory for InfluxDB; it is
\* in both, or more than once in InfluxDB, only when a flush has put it back.
EventFits(e) ==
    /\ InMemory(e) \/ inInflux[e] > 0 => Processed(e)
    /\ "influxdb" \in settings.destinations /\ Processed(e) => InMemory(e) \/ inInflux[e] > 0
    /\ e \notin retried => inInflux[e] <= 1 /\ (InMemory(e) => inInflux[e] = 0)

BufferInv ==
    /\ JobInv /\ MemoryFits
    /\ inInflux \in [Requests -> Nat]
    /\ \A e \in Requests : EventFits(e)

\* Jobs move, and memory stays as it is: flushes may begin and end empty-handed.
LEMMA MemoryStays ==
    ASSUME BufferInv, JobInv', UNCHANGED <<settings, buffer, points, inInflux, retried>>,
           \A e \in Requests : Processed(e)' <=> Processed(e),
           \A f \in Flushes : stage[f] = "writing" => stage'[f] = "writing"
    PROVE  BufferInv'
<1>1. MemoryFits'
  BY DEF BufferInv, MemoryFits, Once
<1>2. \A e \in Requests : EventFits(e)'
  BY DEF BufferInv, EventFits, InMemory
<1> QED BY <1>1, <1>2 DEF BufferInv

LEMMA AppendedOnce ==
    ASSUME NEW s \in Seq(Requests), Once(s), NEW e \in Requests, e \notin ToSet(s)
    PROVE  /\ Append(s, e) \in Seq(Requests) /\ Once(Append(s, e))
           /\ ToSet(Append(s, e)) = ToSet(s) \cup {e}
<1> DEFINE w == Append(s, e)
           last == Len(s) + 1
<1>1. /\ w \in Seq(Requests) /\ DOMAIN w = DOMAIN s \cup {last} /\ last \notin DOMAIN s
      /\ w[last] = e /\ \A i \in DOMAIN s : w[i] = s[i] /\ s[i] \in ToSet(s)
  BY DEF ToSet
<1> HIDE DEF w, last
<1>2. Once(w)
  BY <1>1 DEF Once
<1>3. ToSet(w) = ToSet(s) \cup {e}
  BY <1>1 DEF ToSet
<1> QED BY <1>1, <1>2, <1>3 DEF w

LEMMA JoinedOnce ==
    ASSUME NEW s \in Seq(Requests), Once(s), NEW t \in Seq(Requests), Once(t),
           ToSet(s) \cap ToSet(t) = {}
    PROVE  /\ s \o t \in Seq(Requests) /\ Once(s \o t)
           /\ ToSet(s \o t) = ToSet(s) \cup ToSet(t)
<1> DEFINE w == s \o t
           n == Len(s)
<1>1. /\ w \in Seq(Requests) /\ Len(w) = Len(s) + Len(t)
      /\ \A i \in 1..(Len(s) + Len(t)) : w[i] = IF i <= Len(s) THEN s[i] ELSE t[i - Len(s)]
  BY ConcatProperties
<1>2. /\ DOMAIN w = 1..(Len(s) + Len(t)) /\ DOMAIN s = 1..n /\ DOMAIN t = 1..Len(t)
      /\ n \in Nat /\ Len(t) \in Nat
  BY <1>1
<1> HIDE DEF w
<1>3. /\ \A i \in DOMAIN s : i \in DOMAIN w /\ w[i] = s[i] /\ s[i] \in ToSet(s)
      /\ \A i \in DOMAIN t : i + n \in DOMAIN w /\ w[i + n] = t[i] /\ t[i] \in ToSet(t)
  <2>1. \A i \in DOMAIN s : i \in DOMAIN w /\ w[i] = s[i]
    BY <1>1, <1>2
  <2>2. \A i \in DOMAIN t : i + n \in DOMAIN w /\ w[i + n] = t[i]
    BY <1>1, <1>2
  <2> QED BY <2>1, <2>2 DEF ToSet
<1>4. ASSUME NEW i \in DOMAIN w
      PROVE  i \in DOMAIN s \/ \E j \in DOMAIN t : i = j + n
  <2>1. CASE i <= n
    BY <1>2, <2>1
  <2>2. CASE ~(i <= n)
    <3>1. i - n \in DOMAIN t /\ i = (i - n) + n
      BY <1>2, <2>2
    <3> QED BY <3>1
  <2> QED BY <2>1, <2>2
<1>5. Once(w)
  <2> SUFFICES ASSUME NEW i \in DOMAIN w, NEW j \in DOMAIN w, w[i] = w[j] PROVE i = j
    BY DEF Once
  <2>1. CASE i \in DOMAIN s /\ j \in DOMAIN s
    BY <1>3, <2>1 DEF Once
  <2>2. CASE i \in DOMAIN s /\ j \notin DOMAIN s
    BY <1>3, <1>4, <2>2
  <2>3. CASE i \notin DOMAIN s /\ j \in DOMAIN s
    BY <1>3, <1>4, <2>3
  <2>4. CASE i \notin DOMAIN s /\ j \notin DOMAIN s
    BY <1>3, <1>4, <2>4 DEF Once
  <2> QED BY <2>1, <2>2, <2>3, <2>4
<1> HIDE DEF n
<1>6. \A e \in ToSet(w) : e \in ToSet(s) \cup ToSet(t)
  <2> SUFFICES ASSUME NEW i \in DOMAIN w PROVE w[i] \in ToSet(s) \cup ToSet(t)
    BY DEF ToSet
  <2> QED BY <1>3, <1>4
<1>7. \A e \in ToSet(s) \cup ToSet(t) : e \in ToSet(w)
  BY <1>3 DEF ToSet
<1> QED BY <1>1, <1>5, <1>6, <1>7 DEF w

\* A processed event is put into the buffer.
LEMMA StoreEventBuffers ==
    ASSUME BufferInv, NEW r \in Requests, StoreEvent(r)
    PROVE  BufferInv'
<1>1. /\ JobInv' /\ stage[r] = "running" /\ stage'[r] = "handled"
      /\ \A i \in Requests : i # r => stage'[i] = stage[i]
      /\ \A f \in Flushes : Asks(f)
  BY StoreEventStages DEF BufferInv
<1>2. /\ UNCHANGED <<settings, points, inInflux, retried>>
      /\ buffer' = IF "influxdb" \in settings.destinations THEN Append(buffer, r) ELSE buffer
  BY DEF StoreEvent, BufferEvent, Unmoved, bufferVars
<1>3. ~InMemory(r) /\ inInflux[r] = 0
  <2>1. inInflux[r] \in Nat /\ ~InMemory(r) /\ ~(inInflux[r] > 0)
    BY <1>1 DEF BufferInv, EventFits, Processed
  <2> QED BY <2>1
<1>4. /\ buffer' \in Seq(Requests) /\ Once(buffer')
      /\ ToSet(buffer') = IF "influxdb" \in settings.destinations THEN ToSet(buffer) \cup {r}
                          ELSE ToSet(buffer)
  <2>1. buffer \in Seq(Requests) /\ Once(buffer) /\ r \notin ToSet(buffer)
    BY <1>3 DEF BufferInv, MemoryFits, InMemory
  <2>2. CASE "influxdb" \in settings.destinations
    BY <1>2, <2>1, <2>2, AppendedOnce
  <2>3. CASE "influxdb" \notin settings.destinations
    BY <1>2, <2>1, <2>3
  <2> QED BY <2>2, <2>3
<1>5. MemoryFits'
  <2>1. \A f \in Flushes : r \notin ToSet(points[f])
    BY <1>3 DEF InMemory
  <2>2. \A f \in Flushes : stage'[f] # "writing" => stage[f] # "writing"
    BY <1>1 DEF Asks
  <2>3. \A f \in Flushes : Once(points[f]) /\ ToSet(points[f]) \cap ToSet(buffer') = {}
    BY <1>4, <2>1 DEF BufferInv, MemoryFits
  <2>4. /\ points' = points /\ points \in [Flushes -> Seq(Requests)]
        /\ \A f, g \in Flushes : ToSet(points[f]) \cap ToSet(points[g]) # {} => f = g
        /\ \A f \in Flushes : stage[f] # "writing" => points[f] = <<>>
    BY <1>2 DEF BufferInv, MemoryFits
  <2> QED BY <1>4, <2>2, <2>3, <2>4 DEF MemoryFits, Once
<1>6. \A e \in Requests : EventFits(e)'
  <2> TAKE e \in Requests
  <2>1. EventFits(e)
    BY DEF BufferInv
  <2>2. CASE e = r
    <3>1. InMemory(e)' <=> "influxdb" \in settings.destinations
      BY <1>2, <1>3, <1>4, <2>2 DEF InMemory
    <3>2. inInflux'[e] = 0 /\ Processed(e)'
      BY <1>1, <1>2, <1>3, <2>2 DEF Processed
    <3> QED BY <1>2, <3>1, <3>2 DEF EventFits
  <2>3. CASE e # r
    <3>1. InMemory(e)' <=> InMemory(e)
      BY <1>2, <1>4, <2>3 DEF InMemory
    <3>2. Processed(e)' <=> Processed(e)
      BY <1>1, <2>3 DEF Processed
    <3> QED BY <1>2, <2>1, <3>1, <3>2 DEF EventFits
  <2> QED BY <2>2, <2>3
<1> QED BY <1>1, <1>2, <1>5, <1>6 DEF BufferInv
\* What a flush does to the stages of the others.
LEMMA FlushOthers ==
    ASSUME BufferInv, NEW f \in Flushes, FlushStep(f), UNCHANGED settings
    PROVE  /\ JobInv'
           /\ \A e \in Requests : Processed(e)' <=> Processed(e)
           /\ \A g \in Flushes : g # f => (stage'[g] = "writing" <=> stage[g] = "writing")
<1>1. JobInv' /\ \A i \in Jobs : i # f => Stays(i)
  BY FlushJobStages DEF BufferInv
<1>2. \A e \in Requests : e \in Jobs /\ e # f
  BY AuditJobsAssumption DEF Jobs
<1>3. \A g \in Flushes : g \in Jobs
  BY DEF Jobs
<1> QED BY <1>1, <1>2, <1>3 DEF Stays, Processed

LEMMA AddFlushKeeps ==
    ASSUME BufferInv, NEW f \in Flushes, AddFlush(f), UNCHANGED settings
    PROVE  BufferInv'
<1>1. FlushStep(f) /\ stage[f] = "adding" /\ UNCHANGED <<buffer, points, inInflux, retried>>
  BY DEF FlushStep, AddFlush
<1> QED BY <1>1, FlushOthers, MemoryStays

LEMMA NothingToFlushKeeps ==
    ASSUME BufferInv, NEW f \in Flushes, NothingToFlush(f), UNCHANGED settings
    PROVE  BufferInv'
<1>1. /\ FlushStep(f) /\ stage[f] = "running" /\ UNCHANGED <<buffer, inInflux, retried>>
      /\ points' = [points EXCEPT ![f] = <<>>]
  BY DEF FlushStep, NothingToFlush, EndFlush
<1>2. points' = points
  BY <1>1 DEF BufferInv, MemoryFits
<1> QED BY <1>1, <1>2, FlushOthers, MemoryStays

\* A flush takes the whole buffer.
LEMMA FlushNowKeeps ==
    ASSUME BufferInv, NEW f \in Flushes, FlushNow(f), UNCHANGED settings
    PROVE  BufferInv'
<1>1. /\ FlushStep(f) /\ stage[f] = "running" /\ UNCHANGED <<inInflux, retried>>
      /\ points' = [points EXCEPT ![f] = buffer] /\ buffer' = <<>>
  BY DEF FlushStep, FlushNow
<1>2. /\ JobInv'
      /\ \A e \in Requests : Processed(e)' <=> Processed(e)
      /\ \A g \in Flushes : g # f => (stage'[g] = "writing" <=> stage[g] = "writing")
      /\ stage'[f] = "writing"
  BY <1>1, FlushOthers, FlushJobStages DEF BufferInv
<1>3. MemoryFits
  BY DEF BufferInv
<1>4. /\ points \in [Flushes -> Seq(Requests)] /\ buffer \in Seq(Requests) /\ Once(buffer)
      /\ points[f] = <<>> /\ \A g \in Flushes : Once(points[g])
      /\ \A g \in Flushes : ToSet(points[g]) \cap ToSet(buffer) = {}
      /\ \A g, h \in Flushes : ToSet(points[g]) \cap ToSet(points[h]) # {} => g = h
      /\ \A g \in Flushes : stage[g] # "writing" => points[g] = <<>>
  BY <1>1, <1>3 DEF MemoryFits
<1>5. /\ points' \in [Flushes -> Seq(Requests)] /\ points'[f] = buffer
      /\ \A g \in Flushes : g # f => points'[g] = points[g]
  BY <1>1, <1>4
<1>6. ToSet(buffer') = {} /\ ToSet(points[f]) = {} /\ Once(buffer') /\ buffer' \in Seq(Requests)
  BY <1>1, <1>4 DEF ToSet, Once
<1>7. MemoryFits'
  <2>1. \A g \in Flushes : Once(points'[g])
    BY <1>4, <1>5
  <2>2. \A g, h \in Flushes : ToSet(points'[g]) \cap ToSet(points'[h]) # {} => g = h
    BY <1>4, <1>5
  <2>3. \A g \in Flushes : stage'[g] # "writing" => points'[g] = <<>>
    BY <1>2, <1>4, <1>5
  <2>4. \A g \in Flushes : ToSet(points'[g]) \cap ToSet(buffer') = {}
    BY <1>6
  <2>5. \A g \in Flushes : Once(points[g])'
    BY <2>1 DEF Once
  <2>6. Once(buffer)'
    BY <1>6 DEF Once
  <2> QED BY <1>5, <1>6, <2>2, <2>3, <2>4, <2>5, <2>6 DEF MemoryFits
<1>8. \A e \in Requests : InMemory(e)' <=> InMemory(e)
  <2> TAKE e \in Requests
  <2>1. (\E g \in Flushes : e \in ToSet(points'[g]))
           <=> (e \in ToSet(buffer) \/ \E g \in Flushes : e \in ToSet(points[g]))
    BY <1>5, <1>6
  <2> QED BY <1>6, <2>1 DEF InMemory
<1>9. \A e \in Requests : EventFits(e)'
  BY <1>1, <1>2, <1>8 DEF BufferInv, EventFits
<1> QED BY <1>1, <1>2, <1>7, <1>9 DEF BufferInv

\* A flush lets go of its points: those in the set S are stored, and none, or all of
\* them, go back to the buffer.
LEMMA LetsGoKeeps ==
    ASSUME BufferInv, NEW f \in Flushes, FlushStep(f), stage[f] = "writing",
           stage'[f] = "idle", UNCHANGED settings,
           points' = [points EXCEPT ![f] = <<>>],
           NEW S \in SUBSET ToSet(points[f]), Store(S),
           \/ buffer' = buffer /\ retried' = retried /\ S = ToSet(points[f])
           \/ buffer' = points[f] \o buffer /\ retried' = retried \cup ToSet(points[f])
    PROVE  BufferInv'
<1> DEFINE p == ToSet(points[f])
<1>1. /\ JobInv'
      /\ \A e \in Requests : Processed(e)' <=> Processed(e)
      /\ \A g \in Flushes : g # f => (stage'[g] = "writing" <=> stage[g] = "writing")
  BY FlushOthers
<1>2. MemoryFits
  BY DEF BufferInv
<1>3. /\ points \in [Flushes -> Seq(Requests)] /\ buffer \in Seq(Requests) /\ Once(buffer)
      /\ \A g \in Flushes : Once(points[g])
      /\ \A g \in Flushes : ToSet(points[g]) \cap ToSet(buffer) = {}
      /\ \A g, h \in Flushes : ToSet(points[g]) \cap ToSet(points[h]) # {} => g = h
      /\ \A g \in Flushes : stage[g] # "writing" => points[g] = <<>>
  BY <1>2 DEF MemoryFits
<1>4. /\ points' \in [Flushes -> Seq(Requests)] /\ points'[f] = <<>>
      /\ \A g \in Flushes : g # f => points'[g] = points[g]
  BY <1>3
<1>5. ToSet(points'[f]) = {} /\ Once(points'[f])
  BY <1>4 DEF ToSet, Once
<1>6. /\ buffer' \in Seq(Requests) /\ Once(buffer')
      /\ \/ ToSet(buffer') = ToSet(buffer) /\ retried' = retried /\ S = p
         \/ ToSet(buffer') = ToSet(buffer) \cup p /\ retried' = retried \cup p
  <2>1. CASE buffer' = buffer /\ retried' = retried /\ S = ToSet(points[f])
    BY <1>3, <2>1
  <2>2. CASE buffer' = points[f] \o buffer /\ retried' = retried \cup ToSet(points[f])
    <3>1. /\ points[f] \in Seq(Requests) /\ Once(points[f])
          /\ ToSet(points[f]) \cap ToSet(buffer) = {}
      BY <1>3
    <3>2. /\ points[f] \o buffer \in Seq(Requests) /\ Once(points[f] \o buffer)
          /\ ToSet(points[f] \o buffer) = p \cup ToSet(buffer)
      BY <1>3, <3>1, JoinedOnce
    <3> QED BY <2>2, <3>2
  <2> QED BY <2>1, <2>2
<1>7. \A g \in Flushes : g # f => ToSet(points[g]) \cap p = {}
  BY <1>3
<1>8. MemoryFits'
  <2>1. \A g \in Flushes : Once(points'[g])
    BY <1>3, <1>4, <1>5
  <2>2. \A g, h \in Flushes : ToSet(points'[g]) \cap ToSet(points'[h]) # {} => g = h
    BY <1>3, <1>4, <1>5
  <2>3. \A g \in Flushes : stage'[g] # "writing" => points'[g] = <<>>
    BY <1>1, <1>3, <1>4
  <2>4. \A g \in Flushes : ToSet(points'[g]) \cap ToSet(buffer') = {}
    BY <1>3, <1>4, <1>5, <1>6, <1>7
  <2>5. \A g \in Flushes : Once(points[g])'
    BY <2>1 DEF Once
  <2>6. Once(buffer)'
    BY <1>6 DEF Once
  <2> QED BY <1>4, <1>6, <2>2, <2>3, <2>4, <2>5, <2>6 DEF MemoryFits
<1>9. inInflux \in [Requests -> Nat]
  BY DEF BufferInv
<1>10. /\ inInflux' \in [Requests -> Nat]
       /\ \A e \in Requests : inInflux'[e] = IF e \in S THEN inInflux[e] + 1 ELSE inInflux[e]
  BY <1>9 DEF Store
<1>11. ASSUME NEW e \in Requests PROVE EventFits(e)'
  <2>1. EventFits(e) /\ inInflux[e] \in Nat
    BY <1>9 DEF BufferInv
  <2>2. (\E g \in Flushes : e \in ToSet(points'[g]))
           <=> \E g \in Flushes : g # f /\ e \in ToSet(points[g])
    BY <1>4, <1>5
  <2>3. CASE e \notin p
    <3>1. InMemory(e)' <=> InMemory(e)
      BY <1>6, <2>2, <2>3 DEF InMemory
    <3>2. inInflux'[e] = inInflux[e] /\ (e \in retried' <=> e \in retried)
      BY <1>6, <1>10, <2>3
    <3> QED BY <1>1, <2>1, <3>1, <3>2 DEF EventFits
  <2>4. CASE e \in p
    <3>1. InMemory(e) /\ Processed(e)
      BY <2>1, <2>4 DEF InMemory, EventFits
    <3>2. CASE ToSet(buffer') = ToSet(buffer) \cup p /\ retried' = retried \cup p
      <4>1. InMemory(e)' /\ e \in retried'
        BY <2>4, <3>2 DEF InMemory
      <4> QED BY <1>1, <3>1, <4>1 DEF EventFits
    <3>3. CASE ToSet(buffer') = ToSet(buffer) /\ retried' = retried /\ S = p
      <4>1. e \notin ToSet(buffer) /\ \A g \in Flushes : g # f => e \notin ToSet(points[g])
        BY <1>3, <1>7, <2>4
      <4>2. ~InMemory(e)'
        BY <2>2, <3>3, <4>1 DEF InMemory
      <4>3. inInflux'[e] = inInflux[e] + 1 /\ (e \notin retried' => inInflux[e] = 0)
        BY <1>10, <2>1, <2>4, <3>1, <3>3 DEF EventFits
      <4>4. inInflux'[e] > 0 /\ (e \notin retried' => inInflux'[e] = 1)
        BY <2>1, <4>3
      <4> QED BY <1>1, <3>1, <4>2, <4>4 DEF EventFits
    <3> QED BY <1>6, <3>2, <3>3
  <2> QED BY <2>3, <2>4
<1> QED BY <1>1, <1>8, <1>10, <1>11 DEF BufferInv

LEMMA FlushStepKeeps ==
    ASSUME BufferInv, NEW f \in Flushes, FlushStep(f), UNCHANGED settings
    PROVE  BufferInv'
<1>1. CASE WriteSucceeds(f)
  <2> DEFINE S == ToSet(points[f])
  <2>1. /\ stage[f] = "writing" /\ Store(S) /\ points' = [points EXCEPT ![f] = <<>>]
        /\ buffer' = buffer /\ retried' = retried
    BY <1>1 DEF WriteSucceeds, EndFlush
  <2>2. stage'[f] = "idle"
    BY <1>1, FlushJobStages DEF BufferInv
  <2>3. S \in SUBSET ToSet(points[f]) /\ S = ToSet(points[f])
    OBVIOUS
  <2> HIDE DEF S
  <2> QED BY <2>1, <2>2, <2>3, LetsGoKeeps
<1>2. CASE WriteFails(f)
  <2>1. /\ stage[f] = "writing" /\ StoresSome(f) /\ points' = [points EXCEPT ![f] = <<>>]
        /\ buffer' = points[f] \o buffer /\ retried' = retried \cup ToSet(points[f])
    BY <1>2 DEF WriteFails, EndFlush
  <2>2. stage'[f] = "idle"
    BY <1>2, FlushJobStages DEF BufferInv
  <2>3. PICK S \in SUBSET ToSet(points[f]) : Store(S)
    BY <2>1 DEF StoresSome
  <2> QED BY <2>1, <2>2, <2>3, LetsGoKeeps
<1> QED BY <1>1, <1>2, AddFlushKeeps, NothingToFlushKeeps, FlushNowKeeps DEF FlushStep
LEMMA BufferSteps ==
    ASSUME BufferInv, [Next]_vars
    PROVE  BufferInv'
<1>1. Posted \in SUBSET Requests
  BY AuditJobsAssumption DEF Posted, BufferInv, JobInv
<1>2. ASSUME UNCHANGED <<settings, jobVars, bufferVars>> PROVE BufferInv'
  <2>1. JobInv'
    BY <1>2 DEF BufferInv, JobInv, jobVars, Jobs, StagesOf
  <2> QED BY <1>2, <2>1, MemoryStays DEF jobVars, bufferVars, Processed
<1>3. ASSUME NEW r \in Requests, JobInv', UNCHANGED <<settings, bufferVars>>,
             Processed(r)' <=> Processed(r), \A i \in Jobs : i # r => Stays(i)
      PROVE  BufferInv'
  <2>1. \A f \in Flushes : f \in Jobs /\ f # r
    BY AuditJobsAssumption DEF Jobs
  <2>2. \A e \in Requests : e \in Jobs
    BY DEF Jobs
  <2>3. /\ \A e \in Requests : Processed(e)' <=> Processed(e)
        /\ \A f \in Flushes : stage[f] = "writing" => stage'[f] = "writing"
    BY <1>3, <2>1, <2>2 DEF Stays, Processed
  <2> QED BY <1>3, <2>3, MemoryStays DEF bufferVars
<1>4. ASSUME NEW r \in Requests, Post(r) PROVE BufferInv'
  <2>1. /\ JobInv' /\ stage[r] = "new" /\ stage'[r] \in {"answered", "running", "adding"}
        /\ \A i \in Jobs : i # r => stage'[i] = stage[i]
    BY <1>4, PostStages DEF BufferInv
  <2>2. UNCHANGED <<settings, bufferVars>>
    BY <1>4 DEF Post, Turned, Taken
  <2> QED BY <1>3, <2>1, <2>2 DEF Stays, Processed
<1>5. ASSUME NEW r \in Requests, Admit(r) PROVE BufferInv'
  <2>1. /\ JobInv' /\ stage[r] = "adding" /\ stage'[r] \in {"answered", "admitted"}
        /\ \A i \in Jobs : i # r => stage'[i] = stage[i]
    BY <1>5, AdmitStages DEF BufferInv
  <2>2. UNCHANGED <<settings, bufferVars>>
    BY <1>5 DEF Admit, Unmoved
  <2> QED BY <1>3, <2>1, <2>2 DEF Stays, Processed
<1>6. ASSUME NEW r \in Requests, Enqueue(r) PROVE BufferInv'
  <2>1. /\ JobInv' /\ stage[r] = "admitted" /\ stage'[r] \in {"waiting", "running"}
        /\ \A i \in Jobs : i # r => stage'[i] = stage[i]
    BY <1>6, EnqueueStages DEF BufferInv
  <2>2. UNCHANGED <<settings, bufferVars>>
    BY <1>6 DEF Enqueue, Unmoved
  <2> QED BY <1>3, <2>1, <2>2 DEF Stays, Processed
<1>7. ASSUME NEW r \in Requests, EndJob(r) PROVE BufferInv'
  <2>1. /\ JobInv' /\ stage[r] = "handled" /\ stage'[r] = "done"
        /\ \A i \in Jobs : i # r => Stays(i)
    BY <1>7, EndJobStages DEF BufferInv
  <2>2. UNCHANGED <<settings, bufferVars>>
    BY <1>7 DEF EndJob, Unmoved
  <2> QED BY <1>3, <2>1, <2>2 DEF Processed
<1>8. ASSUME NEW r \in Requests, Works(r) PROVE BufferInv'
  <2>1. CASE Download(r)
    BY <1>2, <2>1 DEF Download, Unmoved
  <2>2. CASE DownloadStep(r) /\ Unmoved /\ UNCHANGED <<jobVars, bufferVars, apiVars>>
    BY <1>2, <2>2 DEF Unmoved
  <2> QED BY <1>5, <1>6, <1>7, <1>8, <2>1, <2>2, StoreEventBuffers DEF Works
<1>9. ASSUME NEW f \in Flushes, FlushWorks(f) PROVE BufferInv'
  BY <1>9, FlushStepKeeps DEF FlushWorks, Unmoved
<1>10. CASE TimerFires
  <2>1. /\ JobInv' /\ \A i \in Requests : stage'[i] = stage[i]
        /\ \A f \in Flushes : Asks(f)
    BY <1>10, TimerStages DEF BufferInv
  <2>2. UNCHANGED <<settings, buffer, points, inInflux, retried>>
    BY <1>10 DEF TimerFires, Interval, Unmoved
  <2> QED BY <2>1, <2>2, MemoryStays DEF Asks, Processed
<1>11. CASE SessionStep \/ ClockTick \/ UNCHANGED vars
  <2>1. UNCHANGED <<settings, jobVars, bufferVars>>
    BY <1>11 DEF SessionStep, ClockTick, vars, Unmoved
  <2> QED BY <1>2, <2>1
<1> QED BY <1>1, <1>4, <1>8, <1>9, <1>10, <1>11 DEF Next

LEMMA BufferInvariant == Spec => []BufferInv
<1>1. ASSUME Init PROVE BufferInv
  <2>1. /\ buffer = <<>> /\ points = [f \in Flushes |-> <<>>]
        /\ inInflux = [e \in Requests |-> 0]
    BY <1>1 DEF Init, BufferInit
  <2>2. \A e \in Requests : stage[e] = "new"
    BY <1>1 DEF Init, JobsInit, Jobs
  <2>3. MemoryFits
    BY <2>1 DEF MemoryFits, Once, ToSet
  <2>4. \A e \in Requests : ~InMemory(e) /\ inInflux[e] = 0
    BY <2>1 DEF InMemory, ToSet
  <2> QED BY <1>1, <2>1, <2>2, <2>3, <2>4, JobStart DEF BufferInv, EventFits, Processed
<1>2. BufferInv /\ [Next]_vars => BufferInv'
  BY BufferSteps
<1> QED BY <1>1, <1>2, PTL DEF Spec

\* Nothing is in memory more than once, so Copies says whether it is there at all.
LEMMA CopiesOf ==
    ASSUME MemoryFits, NEW e \in Requests
    PROVE  Copies(e) = IF InMemory(e) THEN 1 ELSE 0
<1> DEFINE inBuffer == {i \in DOMAIN buffer : buffer[i] = e}
           all == UNION {{f} \X DOMAIN points[f] : f \in Flushes}
           inPoints == {w \in all : points[w[1]][w[2]] = e}
<1>1. Copies(e) = Cardinality(inBuffer) + Cardinality(inPoints)
  BY DEF Copies
<1>2. \A w : w \in inPoints <=> \E f \in Flushes : \E i \in DOMAIN points[f] :
                                    w = <<f, i>> /\ points[f][i] = e
  OBVIOUS
<1>3. ASSUME e \in ToSet(buffer) PROVE \E i : inBuffer = {i}
  <2>1. PICK i \in DOMAIN buffer : buffer[i] = e
    BY <1>3 DEF ToSet
  <2>2. inBuffer = {i}
    BY <2>1 DEF MemoryFits, Once
  <2> QED BY <2>2
<1>4. e \notin ToSet(buffer) => inBuffer = {}
  BY DEF ToSet
<1> HIDE DEF inBuffer, inPoints, all
<1>5. ASSUME NEW f \in Flushes, e \in ToSet(points[f])
      PROVE  /\ e \notin ToSet(buffer)
             /\ \E w : inPoints = {w}
  <2>1. PICK i \in DOMAIN points[f] : points[f][i] = e
    BY <1>5 DEF ToSet
  <2>2. <<f, i>> \in inPoints
    BY <1>2, <2>1
  <2>3. ASSUME NEW w \in inPoints PROVE w = <<f, i>>
    <3>1. PICK g \in Flushes : \E j \in DOMAIN points[g] : w = <<g, j>> /\ points[g][j] = e
      BY <1>2, <2>3
    <3>2. PICK j \in DOMAIN points[g] : w = <<g, j>> /\ points[g][j] = e
      BY <3>1
    <3>3. e \in ToSet(points[g])
      BY <3>2 DEF ToSet
    <3>4. g = f
      BY <1>5, <3>3 DEF MemoryFits
    <3>5. j = i
      BY <2>1, <3>2, <3>4 DEF MemoryFits, Once
    <3> QED BY <3>2, <3>4, <3>5
  <2>4. inPoints = {<<f, i>>}
    BY <2>2, <2>3
  <2>5. e \notin ToSet(buffer)
    BY <1>5 DEF MemoryFits
  <2> QED BY <2>4, <2>5
<1>6. (\A f \in Flushes : e \notin ToSet(points[f])) => inPoints = {}
  BY <1>2 DEF ToSet
<1>7. Cardinality({}) = 0
  BY FS_EmptySet
<1>8. \A x : Cardinality({x}) = 1
  BY FS_Singleton
<1>9. CASE e \in ToSet(buffer)
  <2>1. inPoints = {} /\ \E i : inBuffer = {i}
    BY <1>3, <1>5, <1>6, <1>9
  <2>2. Cardinality(inBuffer) = 1 /\ Cardinality(inPoints) = 0
    BY <1>7, <1>8, <2>1
  <2> QED BY <1>1, <1>9, <2>2 DEF InMemory
<1>10. CASE e \notin ToSet(buffer) /\ \E f \in Flushes : e \in ToSet(points[f])
  <2>1. inBuffer = {} /\ \E w : inPoints = {w}
    BY <1>4, <1>5, <1>10
  <2>2. Cardinality(inBuffer) = 0 /\ Cardinality(inPoints) = 1
    BY <1>7, <1>8, <2>1
  <2> QED BY <1>1, <1>10, <2>2 DEF InMemory
<1>11. CASE e \notin ToSet(buffer) /\ \A f \in Flushes : e \notin ToSet(points[f])
  <2>1. Cardinality(inBuffer) = 0 /\ Cardinality(inPoints) = 0
    BY <1>4, <1>6, <1>7, <1>11
  <2> QED BY <1>1, <1>11, <2>1 DEF InMemory
<1> QED BY <1>9, <1>10, <1>11

\* However flushes overlap, are refused or fail: an event that has been processed is in
\* memory, once, or in InfluxDB, and in both, or in InfluxDB more than once, only after a
\* flush that failed has put it back.
THEOREM EventsReachInflux == Spec => []AtLeastOnce
<1>1. BufferInv => AtLeastOnce
  <2> SUFFICES ASSUME BufferInv, "influxdb" \in settings.destinations,
                      NEW e \in Requests, stage[e] \in {"handled", "done"}
               PROVE  /\ Copies(e) + inInflux[e] > 0
                      /\ Copies(e) <= 1
                      /\ e \notin retried => Copies(e) + inInflux[e] = 1
    BY DEF AtLeastOnce
  <2>1. /\ inInflux[e] \in Nat /\ (InMemory(e) \/ inInflux[e] > 0)
        /\ e \notin retried => inInflux[e] <= 1 /\ (InMemory(e) => inInflux[e] = 0)
    BY DEF BufferInv, EventFits, Processed
  <2>2. Copies(e) = IF InMemory(e) THEN 1 ELSE 0
    BY CopiesOf DEF BufferInv
  <2> HIDE DEF Copies, InMemory
  <2> QED BY <2>1, <2>2
<1> QED BY <1>1, BufferInvariant, PTL
-----------------------------------------------------------------------------
(* Pictures are saved as they were seen *)

CropFields == {"top", "left", "width", "height", "scrollTop", "scrollAreaOffsetY", "renderingOverflow"}
Increasing(s) == \A i, j \in DOMAIN s : i < j => s[i] < s[j]

Bitmaps == [cols: Seq(Nat), rows: Seq(Nat)]

\* A picture shows rows of the rendered image in their order, none of hidden.
Shows(p, hidden) ==
    /\ p \in Bitmaps
    /\ Len(p.rows) > 0 /\ Len(p.cols) > 0
    /\ Increasing(p.rows)
    /\ \A i \in DOMAIN p.rows : p.rows[i] \notin hidden

\* The encoding of the working image, if there is one, is of that image.
WorkFits(work, hidden) ==
    /\ work \in [src: Bitmaps, srcBytes: Bitmaps]
    /\ Shows(work.src, hidden)
    /\ work.srcBytes \in {work.src, NotEncoded}

LEMMA PartOfSequence ==
    ASSUME NEW s \in Seq(Nat), NEW m \in Nat \ {0}, NEW n \in Nat, n <= Len(s), m <= n + 1
    PROVE  /\ SubSeq(s, m, n) \in Seq(Nat) /\ Len(SubSeq(s, m, n)) = n - m + 1
           /\ DOMAIN SubSeq(s, m, n) = 1..(n - m + 1)
           /\ \A i \in 1..(n - m + 1) : SubSeq(s, m, n)[i] = s[m + i - 1]
<1>1. /\ SubSeq(s, m, n) \in Seq(Nat)
      /\ Len(SubSeq(s, m, n)) = IF m <= n THEN n - m + 1 ELSE 0
      /\ \A i \in 1..(n - m + 1) : SubSeq(s, m, n)[i] = s[m + i - 1]
  <2>1. \A i \in m..n : s[i] \in Nat
    OBVIOUS
  <2> QED BY <2>1, SubSeqProperties
<1>2. DOMAIN SubSeq(s, m, n) = 1..Len(SubSeq(s, m, n))
  BY <1>1
<1> QED BY <1>1, <1>2

\* Some of a sequence, in their order.
Picks(part, s, from, n) ==
    /\ from \in [1..n -> DOMAIN s]
    /\ \A i, j \in 1..n : i < j => from[i] < from[j]
    /\ part \in Seq(Nat) /\ Len(part) = n
    /\ \A i \in 1..n : part[i] = s[from[i]]

LEMMA SomeOf ==
    ASSUME NEW s \in Seq(Nat), NEW n \in Nat, NEW from, NEW part, Picks(part, s, from, n)
    PROVE  Increasing(s) => Increasing(part)
<1>1. DOMAIN part = 1..n
  BY DEF Picks
<1>2. ASSUME Increasing(s), NEW i \in 1..n, NEW j \in 1..n, i < j PROVE part[i] < part[j]
  <2>1. from[i] \in DOMAIN s /\ from[j] \in DOMAIN s /\ from[i] < from[j]
    BY <1>2 DEF Picks
  <2>2. s[from[i]] < s[from[j]]
    BY <1>2, <2>1 DEF Increasing
  <2> QED BY <2>2 DEF Picks
<1> QED BY <1>1, <1>2 DEF Increasing

\* Rows are cut out of the middle.
CutOf(s, a, b) == SubSeq(s, 1, a) \o SubSeq(s, b + 1, Len(s))
Apart(part, s, a, b) == \A i \in DOMAIN part : \E j \in DOMAIN s : part[i] = s[j] /\ (j <= a \/ j > b)

LEMMA CutOut ==
    ASSUME NEW s \in Seq(Nat), NEW a \in Nat, NEW b \in Nat, a <= b, b < Len(s), Increasing(s),
           NEW cut, cut = CutOf(s, a, b)
    PROVE  /\ cut \in Seq(Nat) /\ Len(cut) > 0 /\ Increasing(cut)
           /\ Apart(cut, s, a, b)
<1> DEFINE h == Len(s)
           t == SubSeq(s, 1, a)
           u == SubSeq(s, b + 1, h)
           n == a + (h - b)
           from == [i \in 1..n |-> IF i <= a THEN i ELSE i - a + b]
<1>0. h \in Nat /\ n \in Nat /\ n > 0 /\ DOMAIN s = 1..h /\ h - b \in Nat
  OBVIOUS
<1>1. t \in Seq(Nat) /\ Len(t) = a /\ \A i \in 1..a : t[i] = s[i]
  <2>1. 1 \in Nat \ {0} /\ a <= h /\ 1 <= a + 1
    BY <1>0
  <2>2. /\ t \in Seq(Nat) /\ Len(t) = a - 1 + 1
        /\ \A i \in 1..(a - 1 + 1) : t[i] = s[1 + i - 1]
    BY <2>1, PartOfSequence
  <2>3. ASSUME NEW i \in 1..a PROVE t[i] = s[i]
    <3>1. 1 + i - 1 = i /\ i \in 1..(a - 1 + 1)
      OBVIOUS
    <3> HIDE DEF t
    <3>2. t[i] = s[1 + i - 1]
      BY <2>2, <3>1
    <3> QED BY <3>1, <3>2
  <2>4. a - 1 + 1 = a
    OBVIOUS
  <2> QED BY <2>2, <2>3, <2>4
<1>2. u \in Seq(Nat) /\ Len(u) = h - b /\ \A i \in 1..(h - b) : u[i] = s[i + b]
  <2> DEFINE m == b + 1
  <2>1. m \in Nat \ {0} /\ h <= Len(s) /\ m <= h + 1 /\ h - m + 1 = h - b
    BY <1>0
  <2>2. /\ u \in Seq(Nat) /\ Len(u) = h - m + 1
        /\ \A i \in 1..(h - m + 1) : u[i] = s[m + i - 1]
    <3>1. h \in Nat
      BY <1>0
    <3>2. \A k \in Nat \ {0} : k <= h + 1 =>
            /\ SubSeq(s, k, h) \in Seq(Nat) /\ Len(SubSeq(s, k, h)) = h - k + 1
            /\ \A i \in 1..(h - k + 1) : SubSeq(s, k, h)[i] = s[k + i - 1]
      BY <2>1, <3>1, PartOfSequence
    <3> QED BY <2>1, <3>2
  <2>3. ASSUME NEW i \in 1..(h - b) PROVE u[i] = s[i + b]
    <3>1. m + i - 1 = i + b /\ i \in 1..(h - m + 1)
      BY <1>0
    <3> HIDE DEF u, m, h
    <3>2. u[i] = s[m + i - 1]
      BY <2>2, <3>1
    <3> QED BY <3>1, <3>2
  <2> HIDE DEF u
  <2> QED BY <2>1, <2>2, <2>3
<1>3. cut = t \o u
  BY DEF CutOf
<1> HIDE DEF t, u
<1>4. /\ cut \in Seq(Nat) /\ Len(cut) = n /\ DOMAIN cut = 1..n
      /\ \A i \in 1..n : cut[i] = IF i <= a THEN t[i] ELSE u[i - a]
  <2>1. /\ cut \in Seq(Nat) /\ Len(cut) = Len(t) + Len(u)
        /\ \A i \in 1..(Len(t) + Len(u)) : cut[i] = IF i <= Len(t) THEN t[i] ELSE u[i - Len(t)]
    <3>1. t \in Seq(Nat) /\ u \in Seq(Nat)
      BY <1>1, <1>2
    <3>2. /\ t \o u \in Seq(Nat) /\ Len(t \o u) = Len(t) + Len(u)
          /\ \A i \in 1..(Len(t) + Len(u)) : (t \o u)[i] = IF i <= Len(t) THEN t[i] ELSE u[i - Len(t)]
      BY <3>1, ConcatProperties
    <3> QED BY <1>3, <3>2
  <2>2. Len(t) + Len(u) = n
    BY <1>1, <1>2
  <2>3. DOMAIN cut = 1..Len(cut)
    BY <2>1
  <2> QED BY <1>1, <2>1, <2>2, <2>3
<1>5. \A i \in 1..n : from[i] \in 1..h /\ (from[i] <= a \/ from[i] > b)
  BY <1>0
<1>6. \A i, j \in 1..n : i < j => from[i] < from[j]
  BY <1>0
<1>7. ASSUME NEW i \in 1..n PROVE cut[i] = s[from[i]]
  <2>1. CASE i <= a
    <3>1. i \in 1..a /\ from[i] = i
      BY <1>0, <2>1
    <3> QED BY <1>1, <1>4, <2>1, <3>1
  <2>2. CASE ~(i <= a)
    <3> DEFINE k == i - a
    <3>1. k \in 1..(h - b) /\ from[i] = k + b
      BY <1>0, <2>2
    <3>2. cut[i] = u[k]
      BY <1>4, <2>2
    <3>3. u[k] = s[k + b]
      <4> HIDE DEF k
      <4> QED BY <1>2, <3>1
    <3> QED BY <3>1, <3>2, <3>3
  <2> QED BY <2>1, <2>2
<1>8. from \in [1..n -> DOMAIN s]
  BY <1>0, <1>5
<1> HIDE DEF from, n
<1>9. Increasing(cut)
  <2>1. Picks(cut, s, from, n)
    BY <1>4, <1>6, <1>7, <1>8 DEF Picks
  <2> QED BY <1>0, <2>1, SomeOf
<1> QED BY <1>0, <1>4, <1>5, <1>7, <1>9 DEF Apart

\* Or a part of the rows is kept.
Among(part, s) ==
    /\ (Increasing(s) => Increasing(part))
    /\ \A i \in DOMAIN part : \E j \in DOMAIN s : part[i] = s[j]

LEMMA Excerpt ==
    ASSUME NEW s \in Seq(Nat), NEW m \in Nat \ {0}, NEW k \in Nat, m <= k, k <= Len(s),
           NEW part, part = SubSeq(s, m, k)
    PROVE  /\ part \in Seq(Nat) /\ Len(part) > 0
           /\ Among(part, s)
<1> DEFINE n == k - m + 1
           from == [i \in 1..n |-> m + i - 1]
<1>1. /\ part \in Seq(Nat) /\ Len(part) = n /\ DOMAIN part = 1..n
      /\ \A i \in 1..n : part[i] = s[from[i]]
  BY PartOfSequence
<1>2. n \in Nat /\ n > 0 /\ from \in [1..n -> DOMAIN s]
  OBVIOUS
<1>3. \A i, j \in 1..n : i < j => from[i] < from[j]
  OBVIOUS
<1> HIDE DEF n, from
<1>4. Increasing(s) => Increasing(part)
  <2>1. Picks(part, s, from, n)
    BY <1>1, <1>2, <1>3 DEF Picks
  <2> QED BY <1>2, <2>1, SomeOf
<1> QED BY <1>1, <1>2, <1>4 DEF Among

\* The stages one after the other.  A cut leaves no encoding of what was there before.
LEMMA SetSrcFits ==
    ASSUME NEW work \in [src: Bitmaps, srcBytes: Bitmaps], NEW bitmap, NEW hidden,
           Shows(bitmap, hidden)
    PROVE  WorkFits(SetSrc(work, bitmap), hidden) /\ SetSrc(work, bitmap).src = bitmap
<1>1. NotEncoded \in Bitmaps
  BY EmptySeq DEF NotEncoded, Bitmaps
<1> QED BY <1>1 DEF SetSrc, Working, WorkFits, Shows

LEMMA ScrollFits ==
    ASSUME NEW w \in Nat \ {0}, NEW h \in Nat \ {0}, NEW c \in [CropFields -> Nat],
           NEW p, p = Rendered(w, h)
    PROVE  /\ p \in Bitmaps /\ Len(p.rows) = h /\ Len(p.cols) = w
           /\ WorkFits(ScrollComposite(Working(p, p), c), Hidden(p, c))
<1> DEFINE work == Working(p, p)
           a == c.scrollAreaOffsetY
           b == a + c.scrollTop
<1>1. /\ p \in Bitmaps /\ Len(p.rows) = h /\ Len(p.cols) = w
      /\ DOMAIN p.rows = 1..h /\ \A i \in 1..h : p.rows[i] = i
  BY DEF Rendered, Bitmaps
<1>2. work \in [src: Bitmaps, srcBytes: Bitmaps] /\ work.src = p /\ work.srcBytes = p
  BY <1>1 DEF Working
<1>3. a \in Nat /\ c.scrollTop \in Nat /\ b \in Nat
  BY DEF CropFields
<1>4. CASE ~Scrolls(p, c)
  <2>1. Shows(p, {})
    BY <1>1 DEF Shows, Increasing
  <2> QED BY <1>1, <1>2, <1>4, <2>1 DEF ScrollComposite, WorkFits, Hidden
<1>5. CASE Scrolls(p, c)
  <2> DEFINE cut == CutOf(p.rows, a, b)
             bitmap == [p EXCEPT !.rows = cut]
  <2>1. a <= b /\ b < Len(p.rows) /\ c.scrollTop > 0
    BY <1>1, <1>3, <1>5 DEF Scrolls, Height
  <2>2. Increasing(p.rows)
    BY <1>1 DEF Increasing
  <2>3. p.rows \in Seq(Nat)
    BY <1>1 DEF Bitmaps
  <2>4. /\ cut \in Seq(Nat) /\ Len(cut) > 0 /\ Increasing(cut)
        /\ Apart(cut, p.rows, a, b)
    <3> HIDE DEF a, b, cut
    <3> QED BY <1>3, <2>1, <2>2, <2>3, CutOut DEF cut
  <2> HIDE DEF cut
  <2>5. ASSUME NEW i \in DOMAIN cut PROVE cut[i] \notin Hidden(p, c)
    <3>1. PICK j \in DOMAIN p.rows : cut[i] = p.rows[j] /\ (j <= a \/ j > b)
      BY <2>4 DEF Apart
    <3>2. cut[i] = j /\ j \in Nat
      BY <1>1, <3>1
    <3>3. Hidden(p, c) = (a + 1)..b
      BY <1>5 DEF Hidden
    <3> QED BY <1>3, <3>1, <3>2, <3>3
  <2>6. bitmap \in Bitmaps /\ bitmap.rows = cut /\ bitmap.cols = p.cols
    BY <1>1, <2>4 DEF Bitmaps
  <2>7. Shows(bitmap, Hidden(p, c))
    BY <1>1, <2>4, <2>5, <2>6 DEF Shows
  <2>8. ScrollComposite(work, c) = SetSrc(work, bitmap)
    BY <1>2, <1>5 DEF ScrollComposite, Rows, Height, cut, CutOf
  <2> HIDE DEF bitmap, work
  <2> QED BY <1>1, <1>2, <2>7, <2>8, SetSrcFits DEF work
<1> QED BY <1>4, <1>5

LEMMA OverflowFits ==
    ASSUME NEW work, NEW hidden, WorkFits(work, hidden), NEW c \in [CropFields -> Nat],
           NEW gridLineY \in GridLines(work.src)
    PROVE  WorkFits(OverflowComposite(work, c, gridLineY), hidden)
<1> DEFINE p == work.src
           a == gridLineY - c.renderingOverflow
           cut == CutOf(p.rows, a, gridLineY)
           bitmap == [p EXCEPT !.rows = cut]
<1>1. /\ work \in [src: Bitmaps, srcBytes: Bitmaps] /\ p \in Bitmaps /\ p.rows \in Seq(Nat)
      /\ Shows(p, hidden)
  BY DEF WorkFits, Bitmaps
<1>2. c.renderingOverflow \in Nat
  BY DEF CropFields
<1>3. Height(p) = Len(p.rows) /\ Len(p.rows) \in Nat
  BY <1>1 DEF Height
<1>4. gridLineY \in Int /\ (gridLineY = -1 \/ gridLineY < Len(p.rows))
  <2> DEFINE h == Len(p.rows)
             low == h \div 2
  <2>1. gridLineY \in {-1} \cup {y \in 1..(h - 5) : low <= y} /\ h \in Nat
    BY <1>3 DEF GridLines
  <2>2. gridLineY = -1 \/ gridLineY \in 1..(h - 5)
    <3> HIDE DEF low, h
    <3> QED BY <2>1
  <2> HIDE DEF h
  <2>3. gridLineY \in Int /\ (gridLineY = -1 \/ gridLineY < h)
    BY <2>1, <2>2
  <2> QED BY <2>3 DEF h
<1>5. CASE c.renderingOverflow = 0 \/ gridLineY < 0 \/ a < 0
  BY <1>5 DEF OverflowComposite
<1>6. CASE ~(c.renderingOverflow = 0 \/ gridLineY < 0 \/ a < 0)
  <2>1. a \in Nat /\ gridLineY \in Nat /\ a <= gridLineY /\ gridLineY < Len(p.rows)
    BY <1>2, <1>4, <1>6
  <2>2. Increasing(p.rows)
    BY <1>1 DEF Shows
  <2>3. /\ cut \in Seq(Nat) /\ Len(cut) > 0 /\ Increasing(cut)
        /\ Apart(cut, p.rows, a, gridLineY)
    <3> HIDE DEF a, p, cut
    <3> QED BY <1>1, <2>1, <2>2, CutOut DEF cut
  <2>4. OverflowComposite(work, c, gridLineY) = SetSrc(work, bitmap)
    BY <1>3, <1>6 DEF OverflowComposite, Rows, CutOf
  <2> HIDE DEF cut
  <2>5. bitmap \in Bitmaps /\ bitmap.rows = cut /\ bitmap.cols = p.cols
    BY <1>1, <2>3 DEF Bitmaps
  <2>6. Shows(bitmap, hidden)
    BY <1>1, <2>3, <2>5 DEF Shows, Apart
  <2> HIDE DEF bitmap
  <2> QED BY <1>1, <2>4, <2>6, SetSrcFits
<1> QED BY <1>5, <1>6

\* What is written is what is handed on.
LEMMA RectangleFits ==
    ASSUME NEW work, NEW hidden, WorkFits(work, hidden), NEW c \in [CropFields -> Nat]
    PROVE  /\ Shows(Rectangle(work, c).bytes, hidden)
           /\ Rectangle(work, c).bytes = Rectangle(work, c).decoded
<1> DEFINE p == work.src
           cropW == Smaller(c.width, Width(p) - c.left)
           cropH == Smaller(c.height, Height(p) - c.top)
           cols == SubSeq(p.cols, c.left + 1, c.left + cropW)
           rows == SubSeq(p.rows, c.top + 1, c.top + cropH)
           dst == [cols |-> cols, rows |-> rows]
           kept == \/ Width(p) <= c.width /\ Height(p) <= c.height
                   \/ cropW <= 0
                   \/ cropH <= 0
<1>1. /\ p \in Bitmaps /\ p.rows \in Seq(Nat) /\ p.cols \in Seq(Nat) /\ Shows(p, hidden)
      /\ work.srcBytes \in {p, NotEncoded}
  BY DEF WorkFits, Bitmaps
<1>2. /\ c.left \in Nat /\ c.top \in Nat /\ c.width \in Nat /\ c.height \in Nat
  BY DEF CropFields
<1>3. CASE kept
  <2>1. EncodedCurrent(work) = p
    BY <1>1 DEF EncodedCurrent
  <2>2. Rectangle(work, c) = Result(EncodedCurrent(work), p)
    BY <1>3 DEF Rectangle
  <2> QED BY <1>1, <2>1, <2>2 DEF Result
<1>4. CASE ~kept
  <2>1. /\ cropW \in Nat /\ cropH \in Nat /\ cropW > 0 /\ cropH > 0
        /\ c.left + cropW <= Len(p.cols) /\ c.top + cropH <= Len(p.rows)
    <3> DEFINE w == Len(p.cols)
               h == Len(p.rows)
    <3>1. cropW = Smaller(c.width, w - c.left) /\ cropH = Smaller(c.height, h - c.top)
      BY DEF Width, Height
    <3>2. w \in Nat /\ h \in Nat /\ ~(cropW <= 0) /\ ~(cropH <= 0)
      BY <1>1, <1>4
    <3> HIDE DEF w, h, cropW, cropH
    <3>3. /\ cropW \in Int /\ cropW <= w - c.left
          /\ cropH \in Int /\ cropH <= h - c.top
      BY <1>2, <3>1, <3>2 DEF Smaller
    <3> QED BY <1>2, <3>2, <3>3 DEF w, h
  <2>2. Rectangle(work, c) = Result(dst, dst)
    BY <1>4 DEF Rectangle, Rows, Cols
  <2> HIDE DEF cropW, cropH, p
  <2>3. cols \in Seq(Nat) /\ Len(cols) > 0
    <3> DEFINE m == c.left + 1
               n == c.left + cropW
    <3>1. m \in Nat \ {0} /\ n \in Nat /\ m <= n /\ n <= Len(p.cols)
      BY <1>2, <2>1
    <3> HIDE DEF m, n
    <3> QED BY <1>1, <3>1, Excerpt DEF m, n
  <2>4. rows \in Seq(Nat) /\ Len(rows) > 0 /\ Among(rows, p.rows)
    <3> DEFINE m == c.top + 1
               n == c.top + cropH
    <3>1. m \in Nat \ {0} /\ n \in Nat /\ m <= n /\ n <= Len(p.rows)
      BY <1>2, <2>1
    <3>2. rows = SubSeq(p.rows, m, n) /\ p.rows \in Seq(Nat)
      BY <1>1
    <3> HIDE DEF m, n, rows
    <3> QED BY <3>1, <3>2, Excerpt
  <2> HIDE DEF cols, rows
  <2>5. dst \in Bitmaps /\ dst.rows = rows /\ dst.cols = cols
    BY <2>3, <2>4 DEF Bitmaps
  <2>6. Shows(dst, hidden)
    BY <1>1, <2>3, <2>4, <2>5 DEF Shows, Among
  <2> QED BY <2>2, <2>6 DEF Result
<1> QED BY <1>3, <1>4

\* Where there is nothing to do, the stages do nothing.
LEMMA NothingIsDone ==
    ASSUME NEW w \in Nat \ {0}, NEW h \in Nat \ {0}, NEW c \in [CropFields -> Nat], NEW gridLineY,
           NEW p, p = Rendered(w, h), NothingToDo(p, c)
    PROVE  Decoded(p, c, gridLineY).bytes = p
<1> DEFINE work == Working(p, p)
<1>1. p \in Bitmaps
  BY DEF Rendered, Bitmaps
<1>2. /\ Width(p) \in Nat /\ Height(p) \in Nat /\ c.width \in Nat /\ c.height \in Nat
  BY <1>1 DEF Bitmaps, Width, Height, CropFields
<1>3. Width(p) <= c.width /\ Height(p) <= c.height
  <2>1. ~(Width(p) > c.width) /\ ~(Height(p) > c.height)
    BY DEF NothingToDo
  <2> QED BY <1>2, <2>1
<1>4. work.src = p /\ work.srcBytes = p
  BY DEF Working
<1> HIDE DEF work
<1>5. ScrollComposite(work, c) = work
  BY <1>4 DEF ScrollComposite, NothingToDo
<1>6. OverflowComposite(work, c, gridLineY) = work
  BY DEF OverflowComposite, NothingToDo
<1>7. Rectangle(work, c) = Result(EncodedCurrent(work), p)
  BY <1>3, <1>4 DEF Rectangle
<1>8. EncodedCurrent(work) = p
  BY <1>4 DEF EncodedCurrent
<1> QED BY <1>5, <1>6, <1>7, <1>8 DEF Decoded, work, Result

\* Whichever stages apply, and at either log level.
Fits(p, c, gridLineY) ==
    LET shot == CropPng(p, c, gridLineY, FALSE)
    IN  /\ Shows(shot.bytes, Hidden(p, c))
        /\ shot.decoded # NotEncoded => shot.bytes = shot.decoded
        /\ shot.bytes = CropPng(p, c, gridLineY, TRUE).bytes

LEMMA ShotFits ==
    ASSUME NEW w \in Nat \ {0}, NEW h \in Nat \ {0}, NEW c \in [CropFields -> Nat],
           NEW p, p = Rendered(w, h),
           NEW gridLineY \in GridLines(ScrollComposite(Working(p, p), c).src)
    PROVE  Fits(p, c, gridLineY)
<1> DEFINE shot == CropPng(p, c, gridLineY, FALSE)
           dec == Decoded(p, c, gridLineY)
           scrolled == ScrollComposite(Working(p, p), c)
           overflown == OverflowComposite(scrolled, c, gridLineY)
<1>1. WorkFits(scrolled, Hidden(p, c))
  BY ScrollFits
<1>2. WorkFits(overflown, Hidden(p, c))
  <2> HIDE DEF scrolled
  <2>1. gridLineY \in GridLines(scrolled.src)
    BY DEF scrolled
  <2> QED BY <1>1, <2>1, OverflowFits
<1>3. dec = Rectangle(overflown, c)
  BY DEF Decoded
<1>4. Shows(dec.bytes, Hidden(p, c)) /\ dec.bytes = dec.decoded
  <2> HIDE DEF overflown, dec
  <2> QED BY <1>2, <1>3, RectangleFits
<1>5. CropPng(p, c, gridLineY, TRUE) = dec
  BY DEF CropPng
<1>6. CASE NothingToDo(p, c)
  <2>1. dec.bytes = p
    BY <1>6, NothingIsDone
  <2>2. shot.bytes = p /\ shot.decoded = NotEncoded
    BY <1>6 DEF CropPng, Result
  <2> HIDE DEF shot, dec
  <2> QED BY <1>4, <1>5, <2>1, <2>2 DEF Fits, shot
<1>7. CASE ~NothingToDo(p, c)
  <2>1. shot = dec
    BY <1>7 DEF CropPng
  <2> HIDE DEF shot, dec
  <2> QED BY <1>4, <1>5, <2>1 DEF Fits, shot
<1> QED BY <1>6, <1>7

\* Finitely many numbers have a greatest: there is a number that none of them exceeds.
LeastNumber(T) == CHOOSE x \in T : \A y \in T : x <= y

LEMMA LeastOne ==
    ASSUME NEW T, T \subseteq Nat, T # {}
    PROVE  LeastNumber(T) \in T /\ \A y \in T : LeastNumber(T) <= y
<1> DEFINE Less == {ss \in Nat \X Nat : ss[1] < ss[2]}
<1>1. IsWellFoundedOn(Less, Nat)
  BY NatLessThanWellFounded DEF OpToRel
<1>2. PICK x \in T : \A y \in T : ~(<<y, x>> \in Less)
  <2> HIDE DEF Less
  <2> QED BY <1>1, WFMin
<1>3. ASSUME NEW y \in T PROVE x <= y
  <2>1. x \in Nat /\ y \in Nat
    OBVIOUS
  <2>2. y < x => <<y, x>> \in Less
    BY <2>1
  <2> QED BY <1>2, <2>1, <2>2
<1>4. \E z \in T : \A y \in T : z <= y
  BY <1>3
<1> QED BY <1>4 DEF LeastNumber

Below(s, n, b) == \A i \in 1..n : s[i] <= b

LEMMA Bounded ==
    ASSUME NEW s \in Seq(Nat)
    PROVE  \E b \in Nat : Below(s, Len(s), b)
<1> DEFINE h == Len(s)
           without == {n \in 0..h : ~ \E b \in Nat : Below(s, n, b)}
<1>0. h \in Nat
  OBVIOUS
<1>1. SUFFICES ASSUME without # {} PROVE FALSE
  BY <1>0
<1>2. PICK n \in without : \A k \in without : n <= k
  <2>1. without \subseteq Nat
    BY <1>0
  <2> HIDE DEF without
  <2> QED BY <1>1, <2>1, LeastOne
<1>3. n \in 0..h
  OBVIOUS
<1>4. n # 0
  BY DEF Below
<1>5. n - 1 \in 0..h /\ n - 1 \notin without
  BY <1>0, <1>2, <1>3, <1>4
<1>6. PICK b \in Nat : Below(s, n - 1, b)
  BY <1>5
<1>7. s[n] \in Nat
  BY <1>0, <1>3, <1>4
<1>8. PICK top \in Nat : b <= top /\ s[n] <= top
  BY <1>7
<1>9. \A i \in 1..(n - 1) : s[i] \in Nat
  BY <1>0, <1>3
<1>10. Below(s, n, top)
  <2> SUFFICES ASSUME NEW i \in 1..n PROVE s[i] <= top
    BY DEF Below
  <2>1. CASE i = n
    BY <1>8, <2>1
  <2>2. CASE i # n
    <3>1. i \in 1..(n - 1)
      BY <1>3, <2>2
    <3>2. s[i] <= b
      BY <1>6, <3>1 DEF Below
    <3> QED BY <1>8, <1>9, <3>1, <3>2
  <2> QED BY <2>1, <2>2
<1> QED BY <1>10

LEMMA Greatest ==
    ASSUME NEW S, S \subseteq Nat, S # {}, NEW b \in Nat, \A x \in S : x <= b
    PROVE  Max(S) \in S /\ \A x \in S : x <= Max(S)
<1> DEFINE bounds == {n \in Nat : \A x \in S : x <= n}
<1>1. PICK n \in bounds : \A k \in bounds : n <= k
  <2>1. bounds \subseteq Nat /\ bounds # {}
    OBVIOUS
  <2> HIDE DEF bounds
  <2> QED BY <2>1, LeastOne
<1>2. n \in S
  <2> SUFFICES ASSUME n \notin S PROVE FALSE
    OBVIOUS
  <2>1. \A x \in S : x \in Nat /\ x < n
    OBVIOUS
  <2>2. n \in Nat /\ n > 0
    <3>1. PICK x \in S : TRUE
      OBVIOUS
    <3> QED BY <2>1, <3>1
  <2>3. n - 1 \in Nat /\ \A x \in S : x <= n - 1
    BY <2>1, <2>2
  <2>4. n - 1 \in bounds
    BY <2>3
  <2> QED BY <1>1, <2>2, <2>4
<1>3. \E x \in S : \A y \in S : x >= y
  BY <1>2
<1>4. Max(S) \in S /\ \A y \in S : Max(S) >= y
  BY <1>3 DEF Max
<1> QED BY <1>4

LEMMA HeaderFits ==
    ASSUME NEW lines \in Seq(Nat), NEW w \in Nat
    PROVE  /\ Padding + Len(lines) * LineHeight <= HeaderHeight(lines) - 1
           /\ \A i \in DOMAIN lines : Padding + lines[i] * Advance <= Larger(w, HeaderWidth(lines))
<1> DEFINE S == {0} \cup {lines[i] * Advance : i \in DOMAIN lines}
<1>1. Padding = 8 /\ LineHeight = 10 /\ Advance = 6 /\ Len(lines) \in Nat
  BY DEF Padding, LineHeight, Advance
<1>2. \A i \in DOMAIN lines : lines[i] \in Nat /\ lines[i] * Advance \in Nat
  BY <1>1
<1>3. PICK b \in Nat : Below(lines, Len(lines), b)
  BY Bounded
<1>4. \A i \in DOMAIN lines : lines[i] <= b
  BY <1>3 DEF Below
<1>5. b * 6 \in Nat /\ \A x \in S : x <= b * 6
  BY <1>1, <1>2, <1>4
<1>6. S \subseteq Nat /\ S # {}
  BY <1>2
<1>7. Max(S) \in S /\ \A x \in S : x <= Max(S)
  <2> HIDE DEF S
  <2> QED BY <1>5, <1>6, Greatest
<1>8. HeaderWidth(lines) = 16 + Max(S)
  BY <1>1 DEF HeaderWidth
<1>9. ASSUME NEW i \in DOMAIN lines PROVE Padding + lines[i] * Advance <= Larger(w, HeaderWidth(lines))
  <2>1. lines[i] * Advance \in S
    OBVIOUS
  <2> DEFINE x == lines[i] * Advance
  <2>2. x \in Nat /\ x <= Max(S) /\ Max(S) \in Nat
    BY <1>6, <1>7, <2>1
  <2>3. Padding + x <= HeaderWidth(lines) /\ HeaderWidth(lines) \in Nat
    <3> HIDE DEF x, S
    <3> QED BY <1>1, <1>8, <2>2
  <2> HIDE DEF x
  <2>4. Padding + x <= Larger(w, HeaderWidth(lines))
    BY <1>1, <2>2, <2>3 DEF Larger
  <2> QED BY <2>4 DEF x
<1>10. Padding + Len(lines) * LineHeight <= HeaderHeight(lines) - 1
  <2>1. HeaderHeight(lines) = 8 + Len(lines) * 10 + 8
    BY <1>1 DEF HeaderHeight
  <2>2. Padding + Len(lines) * LineHeight = 8 + Len(lines) * 10
    BY <1>1
  <2> QED BY <1>1, <2>1, <2>2
<1> QED BY <1>9, <1>10

LEMMA PixelsFit ==
    ASSUME NEW crop \in Crop
    PROVE  NormalizeCrop(crop) \in [CropFields -> Nat]
<1>1. DOMAIN crop = CropFields /\ \A f \in CropFields : crop[f] \in Int
  BY DEF Crop, CropFields
<1>2. ASSUME NEW f \in CropFields PROVE Pixels(crop[f]) \in Nat
  <2>1. crop[f] \div 2 \in Int
    BY <1>1
  <2> QED BY <2>1 DEF Pixels, Larger
<1> QED BY <1>1, <1>2 DEF NormalizeCrop

\* Every picture is saved as it was seen.
LEMMA EverySaved ==
    ASSUME NEW crop \in Crop
    PROVE  SavedAsSeen(crop)
<1> SUFFICES ASSUME NEW size \in Sizes, NEW p, p = Rendered(size[1], size[2]),
                    NEW c, c = NormalizeCrop(crop),
                    NEW grid \in GridLines(ScrollComposite(Working(p, p), c).src)
             PROVE  /\ AsSeen(CropPng(p, c, grid, FALSE), Hidden(p, c))
                    /\ CropPng(p, c, grid, FALSE).bytes = CropPng(p, c, grid, TRUE).bytes
  BY DEF SavedAsSeen
<1> DEFINE w == size[1]
           h == size[2]
           shot == CropPng(p, c, grid, FALSE)
<1>1. w \in Nat \ {0} /\ h \in Nat \ {0}
  BY ScreenshotImageAssumption
<1>2. c \in [CropFields -> Nat]
  BY PixelsFit
<1>3. p = Rendered(w, h) /\ shot = CropPng(p, c, grid, FALSE)
  OBVIOUS
<1> HIDE DEF w, h
<1>31. Fits(p, c, grid)
  BY <1>1, <1>2, <1>3, ShotFits
<1>4. /\ Shows(shot.bytes, Hidden(p, c))
      /\ shot.decoded # NotEncoded => shot.bytes = shot.decoded
      /\ shot.bytes = CropPng(p, c, grid, TRUE).bytes
  BY <1>31 DEF Fits
<1> HIDE DEF shot
<1>5. shot.bytes \in Bitmaps /\ Len(shot.bytes.rows) > 0 /\ Len(shot.bytes.cols) > 0
  BY <1>4 DEF Shows
<1>6. Width(shot.bytes) \in Nat /\ Width(shot.bytes) > 0 /\ Height(shot.bytes) > 0
  BY <1>5 DEF Bitmaps, Width, Height
<1>7. ASSUME NEW lines \in HeaderLines PROVE CopiedWhole(shot, lines)
  <2> DEFINE copy == WithHeader(shot, lines)
             picture == IF shot.decoded # NotEncoded THEN shot.decoded ELSE shot.bytes
  <2>1. picture = shot.bytes
    BY <1>4
  <2>2. /\ copy.picture = picture
        /\ copy.matches = (Width(picture) = Width(shot.bytes) /\ Height(picture) = Height(shot.bytes))
        /\ copy.width = Larger(Width(picture), HeaderWidth(lines))
        /\ copy.textEnd = Padding + Len(lines) * LineHeight
        /\ copy.separator = HeaderHeight(lines) - 1
    BY DEF WithHeader
  <2> HIDE DEF copy, picture
  <2>3. lines \in Seq(Nat)
    BY ScreenshotImageAssumption
  <2>4. /\ Padding + Len(lines) * LineHeight <= HeaderHeight(lines) - 1
        /\ \A i \in DOMAIN lines :
              Padding + lines[i] * Advance <= Larger(Width(shot.bytes), HeaderWidth(lines))
    BY <1>6, <2>3, HeaderFits
  <2>5. copy.matches /\ copy.picture = shot.bytes /\ copy.textEnd <= copy.separator
    BY <2>1, <2>2, <2>4
  <2>6. \A i \in DOMAIN lines : Padding + lines[i] * Advance <= copy.width
    BY <2>1, <2>2, <2>4
  <2> QED BY <2>5, <2>6 DEF copy, CopiedWhole
<1> QED BY <1>3, <1>4, <1>6, <1>7 DEF AsSeen, Shows, Increasing

\* A picture that is being saved is what the user saw, whatever its crop rectangle and
\* whichever stages of cropPngBuffer apply (PicturesSound).
THEOREM PicturesAreSound == Spec => []PicturesSound
<1> DEFINE Chosen == settings \in SettingsSet
<1>1. Chosen => PicturesSound
  BY EverySaved, AuditApiAssumption DEF PicturesSound, Posted
<1>2. SessionInv => Chosen
  BY DEF SessionInv
<1>3. Spec => []SessionInv
  BY SessionInvariant
<1> HIDE DEF Chosen
<1> QED BY <1>1, <1>2, <1>3, PTL

-----------------------------------------------------------------------------
(* Three pieces of code, one record *)

\* The facts that are no texts.
OwnFacts == {"durationMs", "visible", "dataStateId", "selectionDetails", "savedPaths",
             "objectType", "objectData"}

\* What is no zero, no fraction and no string of digits is read alike by all readers.
LEMMA ReadersAgree ==
    ASSUME NEW v, v \notin {"7.5", "'7'"}
    PROVE  ReadInteger(v) = ReadNumber(v)
<1>1. CASE v \in {"0", "7"}
  BY <1>1 DEF ReadInteger, ReadNumber
<1>2. CASE v \notin {"0", "7"}
  BY <1>2 DEF ReadInteger, ReadNumber
<1> QED BY <1>1, <1>2

LEMMA RecordOf ==
    ASSUME NEW e, NEW own, NEW f
    PROVE  /\ f \in DOMAIN own => Record(e, own)[f] = own[f]
           /\ f \in TextFacts \ DOMAIN own => Record(e, own)[f] = ReadString(e, f)
           /\ DOMAIN Record(e, own) = TextFacts \cup DOMAIN own
  BY DEF Record

LEMMA RecordsTheSame ==
    ASSUME NEW e, NEW static
    PROVE  SameRecords(e, static)
<1> DEFINE x == Extras(e)
           table == e.objectData # Absent
           number == ReadNumber(e.dataStateId)
           type == IF table THEN ReadType(e) ELSE Absent
           row ==
            [durationMs |-> ReadInteger(e.duration),
             visible |-> e.visible,
             dataStateId |-> OrElse(ReadInteger(e.dataStateId), ReadInteger(x.dataStateId)),
             selectionDetails |-> Listed(x.selectionDetails),
             savedPaths |-> Listed(x.savedPaths),
             objectType |-> IF table THEN ReadType(e) ELSE Absent,
             objectData |-> IF table THEN e.objectData ELSE Absent]
           doc ==
            [durationMs |-> ReadNumber(e.duration),
             visible |-> e.visible,
             dataStateId |-> OrElse(ReadNumber(e.dataStateId), ReadNumber(x.dataStateId)),
             selectionDetails |-> Listed(x.selectionDetails),
             savedPaths |-> Listed(x.savedPaths),
             objectType |-> ReadType(e),
             objectData |-> e.objectData]
           fields ==
            [enterSelectionTxnId |-> ReadString(e, "enterSelectionTxnId"),
             leaveSelectionTxnId |-> ReadString(e, "leaveSelectionTxnId"),
             durationMs |-> ReadNumber(e.duration),
             visible |-> e.visible,
             dataStateId |-> IF number \in {"0", Absent} THEN ReadNumber(x.dataStateId) ELSE number,
             selectionDetails |-> Listed(x.selectionDetails),
             savedPaths |-> Listed(x.savedPaths),
             objectType |-> IF type = Absent /\ "objectType" \in static THEN "static" ELSE type,
             objectData |-> e.objectData]
<1>1. /\ DOMAIN row = OwnFacts /\ DOMAIN doc = OwnFacts
      /\ DOMAIN fields = OwnFacts \cup TransactionFacts
  BY DEF OwnFacts, TransactionFacts
<1>2. Row(e) = Record(e, row) /\ Doc(e) = Record(e, doc)
  BY DEF Row, Doc
<1>3. ASSUME NEW f \in TextFacts \cup OwnFacts
      PROVE  InfluxPoint(e, static)[f] =
                IF f \in TagFacts \cap static THEN "static" ELSE Record(e, fields)[f]
  <2>1. InfluxPoint(e, static) =
            [g \in DOMAIN Record(e, fields) |->
                IF g \in TagFacts \cap static THEN "static" ELSE Record(e, fields)[g]]
    BY DEF InfluxPoint
  <2> HIDE DEF fields
  <2>2. f \in DOMAIN Record(e, fields)
    BY <1>1, RecordOf
  <2> QED BY <2>1, <2>2
<1>4. Facts = TextFacts \cup OwnFacts /\ TextFacts \cap OwnFacts = {}
      /\ TextFacts \cap TransactionFacts = {} /\ TagFacts \cap OwnFacts = {}
  BY DEF Facts, TextFacts, OwnFacts, TransactionFacts, TagFacts
<1>5. ASSUME NEW f \in TextFacts, f \notin static
      PROVE  Row(e)[f] = InfluxPoint(e, static)[f] /\ Doc(e)[f] = Row(e)[f]
  <2> HIDE DEF row, doc, fields
  <2>1. f \notin OwnFacts /\ f \notin TransactionFacts
    BY <1>4
  <2>2. /\ Record(e, row)[f] = ReadString(e, f) /\ Record(e, doc)[f] = ReadString(e, f)
        /\ Record(e, fields)[f] = ReadString(e, f)
    BY <1>1, <2>1, RecordOf
  <2> QED BY <1>2, <1>3, <1>5, <2>2
<1>6. ASSUME NEW f \in OwnFacts, ~Differs(e, f, static)
      PROVE  row[f] = fields[f] /\ (Documented(e) => doc[f] = row[f])
  <2>1. CASE f = "durationMs"
    <3>1. e.duration \notin {"7.5", "'7'"}
      BY <1>6, <2>1 DEF Differs
    <3>2. ReadInteger(e.duration) = ReadNumber(e.duration)
      BY <3>1, ReadersAgree
    <3> QED BY <2>1, <3>2
  <2>2. CASE f = "dataStateId"
    <3> DEFINE own == e.dataStateId
               extra == x.dataStateId
    <3>1. own \notin {"0", "7.5", "'7'"}
      BY <1>6, <2>2 DEF Differs
    <3>2. extra = own \/ extra = Absent
      BY DEF Extras
    <3>3. extra \notin {"0", "7.5", "'7'"}
      BY <3>1, <3>2 DEF Absent
    <3> HIDE DEF own, extra
    <3>4. ReadInteger(own) = ReadNumber(own) /\ ReadInteger(extra) = ReadNumber(extra)
      BY <3>1, <3>3, ReadersAgree
    <3>5. ReadNumber(own) # "0"
      BY <3>1 DEF ReadNumber, Absent
    <3>6. OrElse(ReadNumber(own), ReadNumber(extra)) =
            IF ReadNumber(own) \in {"0", Absent} THEN ReadNumber(extra) ELSE ReadNumber(own)
      BY <3>5 DEF OrElse
    <3> QED BY <2>2, <3>4, <3>6 DEF own, extra
  <2>3. CASE f = "objectType"
    <3>1. "objectType" \notin static
      BY <1>6, <2>3 DEF Differs
    <3> QED BY <2>3, <3>1 DEF Documented
  <2>4. CASE f \in {"visible", "selectionDetails", "savedPaths", "objectData"}
    BY <2>4 DEF Documented
  <2> QED BY <2>1, <2>2, <2>3, <2>4 DEF OwnFacts
<1>7. ASSUME NEW f \in OwnFacts, ~Differs(e, f, static)
      PROVE  Row(e)[f] = InfluxPoint(e, static)[f] /\ (Documented(e) => Doc(e)[f] = Row(e)[f])
  <2>1. row[f] = fields[f] /\ (Documented(e) => doc[f] = row[f])
    BY <1>6, <1>7
  <2>2. f \in DOMAIN row /\ f \in DOMAIN doc /\ f \in DOMAIN fields
    BY <1>1
  <2> HIDE DEF row, doc, fields
  <2>3. /\ Record(e, row)[f] = row[f] /\ Record(e, doc)[f] = doc[f]
        /\ Record(e, fields)[f] = fields[f]
    BY <2>2, RecordOf
  <2>4. f \notin TagFacts
    BY <1>4
  <2> QED BY <1>2, <1>3, <2>1, <2>3, <2>4
<1>8. ASSUME NEW f \in Facts, ~Differs(e, f, static)
      PROVE  Row(e)[f] = InfluxPoint(e, static)[f] /\ (Documented(e) => Doc(e)[f] = Row(e)[f])
  <2>1. f \notin static
    BY <1>8 DEF Differs
  <2> QED BY <1>4, <1>5, <1>7, <1>8, <2>1
<1> QED BY <1>8 DEF SameRecords

\* Whatever a stored event has in it and whatever the static tags are: its row, its JSON
\* document and its InfluxDB point agree on every fact but those known to differ
\* (RecordsAgree; extractAuditEventFields, writeAuditEventToJson, buildAuditInfluxPointModel).
THEOREM AllRecordsAgree == Spec => []RecordsAgree
<1>1. RecordsAgree
  BY RecordsTheSame DEF RecordsAgree
<1> QED BY <1>1, PTL
=============================================================================
