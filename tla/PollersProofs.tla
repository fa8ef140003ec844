--------------------------- MODULE PollersProofs ---------------------------
(***************************************************************************)
(* Proofs about Pollers, for any targets, settings, bodies and number of   *)
(* firings: a round that is over has asked each of its targets once, the   *)
(* gauges go forward, and every reading is accounted for.                  *)
(***************************************************************************)
EXTENDS Pollers, SequenceTheorems, TLAPS

Polled == AllTargets(settings)
Reading == [target : Polled \cup {Butler}, n : Nat]
Round == [left : Seq(Polled), asked : Reading]

PollTypes ==
    /\ settings \in SettingsSet
    /\ ticks \in [Collectors \cup {"uptime"} -> Nat]
    /\ started \in [Collectors -> Nat]
    /\ rounds \in [Collectors -> Seq(Round)]
    /\ readings \in [Polled -> Nat]
    /\ gauge \in [Polled -> Nat]

\* isCollecting lets no two rounds of a collector overlap, a round asks no target twice,
\* and the reading it waits for is the last one its target was asked for.
RoundsFit ==
    \A c \in Collectors :
        /\ Len(rounds[c]) <= 1
        /\ \A i \in DOMAIN rounds[c] :
              LET r == rounds[c][i]
              IN  /\ \A k \in DOMAIN r.left : r.left[k] \in ToSet(Targets(c))
                  /\ \A k, l \in DOMAIN r.left : r.left[k] = r.left[l] => k = l
                  /\ r.asked # NoReading => /\ r.asked.target \in ToSet(Targets(c))
                                            /\ r.asked.n = readings[r.asked.target]

\* A target is asked once in each round, unless its turn is still to come.
Awaits(t, c) == \E i \in DOMAIN rounds[c] : t \in ToSet(rounds[c][i].left)
TurnsFit ==
    settings.cert =>
        \A c \in Collectors : \A t \in ToSet(Targets(c)) :
            readings[t] = IF Awaits(t, c) THEN started[c] - 1 ELSE started[c]

GaugesFit == \A t \in Polled : gauge[t] <= readings[t]

RoundInv == PollTypes /\ RoundsFit /\ TurnsFit /\ GaugesFit

-----------------------------------------------------------------------------
(* The targets.                                                            *)

LEMMA TargetFacts ==
    ASSUME settings \in SettingsSet, NEW c \in Collectors
    PROVE  /\ Targets(c) \in Seq(Polled)
           /\ ToSet(Targets(c)) \in SUBSET Polled
           /\ \A i, j \in DOMAIN Targets(c) : Targets(c)[i] = Targets(c)[j] => i = j
           /\ \A t \in ToSet(Targets(c)) : t.collector = c /\ t # Butler
<1>1. ToSet(Targets(c)) \in SUBSET Polled
  BY DEF Polled, AllTargets, Targets
<1>2. /\ Targets(c) \in Seq(ToSet(Targets(c)))
      /\ \A i, j \in DOMAIN Targets(c) : Targets(c)[i] = Targets(c)[j] => i = j
      /\ \A t \in ToSet(Targets(c)) : t.collector = c
  BY PollersAssumption DEF Targets
<1>3. Targets(c) \in Seq(Polled)
  BY <1>1, <1>2
<1>4. Butler.collector # c
  BY DEF Butler, Collectors
<1> QED BY <1>1, <1>2, <1>3, <1>4

\* No target is in the lists of two collectors.
LEMMA TargetsApart ==
    ASSUME settings \in SettingsSet, NEW c \in Collectors, NEW d \in Collectors, c # d,
           NEW t \in ToSet(Targets(c))
    PROVE  t \notin ToSet(Targets(d))
BY TargetFacts

\* What there is to ask is a target of a collector.
LEMMA PolledFacts ==
    ASSUME settings \in SettingsSet, NEW t \in Polled
    PROVE  t.collector \in Collectors /\ t \in ToSet(Targets(t.collector))
<1>1. PICK c \in Collectors : t \in ToSet(Targets(c))
  BY DEF Polled, AllTargets, Targets
<1> QED BY <1>1, TargetFacts

-----------------------------------------------------------------------------
(* The rounds.                                                             *)

LEMMA RoundInvInit == Init => RoundInv
<1> SUFFICES ASSUME Init PROVE RoundInv
  OBVIOUS
<1>1. PollTypes
  <2>1. <<>> \in Seq(Round)
    OBVIOUS
  <2> QED BY <2>1 DEF Init, PollTypes, Polled
<1>2. \A c \in Collectors : rounds[c] = <<>> /\ started[c] = 0
  BY DEF Init
<1>3. \A c \in Collectors : Len(rounds[c]) = 0 /\ DOMAIN rounds[c] = {}
  BY <1>2
<1>4. RoundsFit
  BY <1>3 DEF RoundsFit
<1>5. TurnsFit
  <2> SUFFICES ASSUME NEW c \in Collectors, NEW t \in ToSet(Targets(c))
               PROVE  readings[t] = IF Awaits(t, c) THEN started[c] - 1 ELSE started[c]
    BY DEF TurnsFit
  <2>1. t \in Polled
    BY <1>1, TargetFacts DEF PollTypes
  <2>2. readings[t] = 0
    BY <2>1 DEF Init, Polled
  <2> QED BY <2>2, <1>2, <1>3 DEF Awaits
<1>6. GaugesFit
  BY DEF Init, GaugesFit, Polled
<1> QED BY <1>1, <1>4, <1>5, <1>6 DEF RoundInv

\* A round that is under way is its collector's only one.
LEMMA RoundAt ==
    ASSUME RoundInv, NEW c \in Collectors, NEW i \in DOMAIN rounds[c]
    PROVE  i = 1 /\ Len(rounds[c]) = 1 /\ rounds[c][i] \in Round
<1>1. rounds[c] \in Seq(Round) /\ Len(rounds[c]) <= 1
  BY DEF RoundInv, PollTypes, RoundsFit
<1>2. Len(rounds[c]) \in Nat /\ DOMAIN rounds[c] = 1..Len(rounds[c])
  BY <1>1
<1>3. i = 1 /\ Len(rounds[c]) = 1
  <2> DEFINE l == Len(rounds[c])
  <2>1. l \in Nat /\ l <= 1 /\ i \in 1..l
    BY <1>1, <1>2
  <2> HIDE DEF l
  <2>2. i = 1 /\ l = 1
    BY <2>1
  <2> QED BY <2>2 DEF l
<1> QED BY <1>1, <1>2, <1>3, ElementOfSeq

LEMMA RoundBecomes ==
    ASSUME RoundInv, NEW c \in Collectors, NEW i \in DOMAIN rounds[c], NEW r \in Round,
           rounds' = [rounds EXCEPT ![c][i] = r]
    PROVE  /\ rounds' \in [Collectors -> Seq(Round)]
           /\ Len(rounds'[c]) = 1 /\ DOMAIN rounds'[c] = {1} /\ rounds'[c][1] = r
           /\ \A d \in Collectors : d # c => rounds'[d] = rounds[d]
<1>1. i = 1 /\ Len(rounds[c]) = 1
  BY RoundAt
<1>2. rounds \in [Collectors -> Seq(Round)]
  BY DEF RoundInv, PollTypes
<1>3. rounds[c] \in Seq(Round) /\ DOMAIN rounds[c] = {1}
  BY <1>1, <1>2
<1>4. rounds'[c] = [rounds[c] EXCEPT ![i] = r]
  BY <1>2
<1>5. rounds'[c] \in Seq(Round) /\ Len(rounds'[c]) = 1 /\ rounds'[c][1] = r
  BY <1>1, <1>3, <1>4
<1> QED BY <1>2, <1>5

LEMMA TickKeeps ==
    ASSUME RoundInv, NEW c \in Collectors, Tick(c)
    PROVE  RoundInv'
<1>0. UNCHANGED <<settings, readings, gauge>> /\ Polled' = Polled /\ Round' = Round
  BY DEF Tick, giveVars, Polled, Round, Reading
<1>1. ticks' \in [Collectors \cup {"uptime"} -> Nat]
  BY DEF Tick, RoundInv, PollTypes
<1>2. CASE rounds[c] # <<>>
  BY <1>0, <1>2, <1>1 DEF Tick, RoundInv, PollTypes, RoundsFit, TurnsFit, GaugesFit, Awaits, Targets
<1>3. CASE rounds[c] = <<>>
  <2> DEFINE r == [left |-> Targets(c), asked |-> NoReading]
  <2>1. r \in Round
    BY TargetFacts DEF RoundInv, PollTypes, Round, Reading, NoReading
  <2>2. /\ rounds' = [rounds EXCEPT ![c] = <<r>>]
        /\ started' = [started EXCEPT ![c] = @ + 1]
    BY <1>3 DEF Tick
  <2>3. <<r>> \in Seq(Round) /\ Len(<<r>>) = 1 /\ DOMAIN <<r>> = {1} /\ <<r>>[1] = r
    BY <2>1
  <2>4. /\ rounds' \in [Collectors -> Seq(Round)]
        /\ started' \in [Collectors -> Nat]
        /\ rounds'[c] = <<r>> /\ started'[c] = started[c] + 1
        /\ \A d \in Collectors : d # c => rounds'[d] = rounds[d] /\ started'[d] = started[d]
    BY <2>2, <2>3 DEF RoundInv, PollTypes
  <2>5. PollTypes'
    BY <1>0, <1>1, <2>4 DEF RoundInv, PollTypes
  <2>6. RoundsFit'
    <3> SUFFICES ASSUME NEW d \in Collectors
                 PROVE  /\ Len(rounds'[d]) <= 1
                        /\ \A i \in DOMAIN rounds'[d] :
                              /\ \A k \in DOMAIN rounds'[d][i].left :
                                    rounds'[d][i].left[k] \in ToSet(Targets(d))
                              /\ \A k, l \in DOMAIN rounds'[d][i].left :
                                    rounds'[d][i].left[k] = rounds'[d][i].left[l] => k = l
                              /\ rounds'[d][i].asked # NoReading =>
                                    /\ rounds'[d][i].asked.target \in ToSet(Targets(d))
                                    /\ rounds'[d][i].asked.n = readings[rounds'[d][i].asked.target]
      BY <1>0 DEF RoundsFit, Targets
    <3>1. CASE d # c
      <4>1. rounds'[d] = rounds[d]
        BY <3>1, <2>4
      <4> QED BY <4>1 DEF RoundInv, RoundsFit
    <3>2. CASE d = c
      <4>1. \A k \in DOMAIN Targets(c) : Targets(c)[k] \in ToSet(Targets(c))
        BY DEF ToSet
      <4> QED BY <3>2, <2>3, <2>4, <4>1, TargetFacts DEF RoundInv, PollTypes
    <3> QED BY <3>1, <3>2
  <2>7. TurnsFit'
    <3> SUFFICES ASSUME settings.cert, NEW d \in Collectors, NEW t \in ToSet(Targets(d))
                 PROVE  readings[t] = IF Awaits(t, d)' THEN started'[d] - 1 ELSE started'[d]
      BY <1>0 DEF TurnsFit, Targets
    <3>1. CASE d # c
      BY <3>1, <2>4 DEF RoundInv, TurnsFit, Awaits
    <3>2. CASE d = c
      <4>1. readings[t] = started[c]
        <5>1. ~Awaits(t, c)
          BY <1>3 DEF Awaits
        <5> QED BY <3>2, <5>1 DEF RoundInv, TurnsFit
      <4>2. Awaits(t, c)'
        BY <3>2, <2>3, <2>4 DEF Awaits
      <4>3. started[c] \in Nat
        BY DEF RoundInv, PollTypes
      <4> QED BY <3>2, <4>1, <4>2, <4>3, <2>4
    <3> QED BY <3>1, <3>2
  <2>8. GaugesFit'
    BY <1>0 DEF RoundInv, GaugesFit
  <2> QED BY <2>5, <2>6, <2>7, <2>8 DEF RoundInv
<1> QED BY <1>2, <1>3

LEMMA AskKeeps ==
    ASSUME RoundInv, NEW c \in Collectors, NEW i \in DOMAIN rounds[c], Ask(c, i)
    PROVE  RoundInv'
<1> DEFINE left == rounds[c][i].left
           t == Head(left)
           n == readings[t] + 1
           asked == IF settings.cert THEN [target |-> t, n |-> n] ELSE NoReading
           r == [left |-> Tail(left), asked |-> asked]
<1>0. UNCHANGED <<settings, ticks, started, gauge>> /\ Polled' = Polled /\ Round' = Round
  BY DEF Ask, giveVars, Polled, Round, Reading
<1>1. i = 1 /\ Len(rounds[c]) = 1 /\ rounds[c][i] \in Round /\ left \in Seq(Polled)
  BY RoundAt DEF Round
<1>2. left # <<>>
  BY DEF Ask
<1>3. /\ Tail(left) \in Seq(Polled) /\ t = left[1] /\ 1 \in DOMAIN left
      /\ Len(Tail(left)) = Len(left) - 1 /\ Len(left) \in Nat
      /\ DOMAIN Tail(left) = 1..(Len(left) - 1) /\ DOMAIN left = 1..Len(left)
      /\ \A k \in 1..(Len(left) - 1) : Tail(left)[k] = left[k + 1]
  BY <1>1, <1>2
<1>4. /\ \A k \in DOMAIN left : left[k] \in ToSet(Targets(c))
      /\ \A k, l \in DOMAIN left : left[k] = left[l] => k = l
  BY DEF RoundInv, RoundsFit
<1>5. t \in ToSet(Targets(c)) /\ t \in Polled /\ readings[t] \in Nat
  <2>1. t \in ToSet(Targets(c))
    BY <1>3, <1>4
  <2>2. settings \in SettingsSet /\ readings \in [Polled -> Nat]
    BY DEF RoundInv, PollTypes
  <2>3. t \in Polled
    BY <2>1, <2>2, TargetFacts
  <2> QED BY <2>1, <2>2, <2>3
<1>6. r \in Round
  BY <1>3, <1>5 DEF Round, Reading, NoReading
<1>7. rounds' = [rounds EXCEPT ![c][i] = r]
  BY DEF Ask
<1>8. /\ rounds' \in [Collectors -> Seq(Round)]
      /\ Len(rounds'[c]) = 1 /\ DOMAIN rounds'[c] = {1} /\ rounds'[c][1] = r
      /\ \A d \in Collectors : d # c => rounds'[d] = rounds[d]
  <2> HIDE DEF r
  <2> QED BY <1>6, <1>7, RoundBecomes
<1>9. /\ readings' \in [Polled -> Nat]
      /\ readings'[t] = IF settings.cert THEN n ELSE readings[t]
      /\ \A u \in Polled : u # t => readings'[u] = readings[u]
  BY <1>5 DEF Ask, RoundInv, PollTypes
<1> HIDE DEF r, n
<1>10. PollTypes'
  BY <1>0, <1>8, <1>9 DEF RoundInv, PollTypes
<1>11. /\ \A k \in DOMAIN Tail(left) : Tail(left)[k] \in ToSet(Targets(c)) /\ Tail(left)[k] # t
       /\ \A k, l \in DOMAIN Tail(left) : Tail(left)[k] = Tail(left)[l] => k = l
  <2>1. \A k \in 1..(Len(left) - 1) : k + 1 \in DOMAIN left /\ k + 1 # 1
    BY <1>3
  <2>2. SUFFICES ASSUME NEW k \in 1..(Len(left) - 1), NEW l \in 1..(Len(left) - 1)
                 PROVE  /\ Tail(left)[k] \in ToSet(Targets(c)) /\ Tail(left)[k] # t
                        /\ Tail(left)[k] = Tail(left)[l] => k = l
    BY <1>3
  <2>3. Tail(left)[k] = left[k + 1] /\ Tail(left)[l] = left[l + 1]
    BY <1>3
  <2>4. left[k + 1] # left[1] /\ (left[k + 1] = left[l + 1] => k + 1 = l + 1)
    BY <2>1, <1>3, <1>4
  <2>5. k + 1 = l + 1 => k = l
    BY <1>3
  <2> QED BY <2>1, <2>3, <2>4, <2>5, <1>3, <1>4
<1>12. RoundsFit'
  <2> SUFFICES ASSUME NEW d \in Collectors
               PROVE  /\ Len(rounds'[d]) <= 1
                      /\ \A j \in DOMAIN rounds'[d] :
                            /\ \A k \in DOMAIN rounds'[d][j].left :
                                  rounds'[d][j].left[k] \in ToSet(Targets(d))
                            /\ \A k, l \in DOMAIN rounds'[d][j].left :
                                  rounds'[d][j].left[k] = rounds'[d][j].left[l] => k = l
                            /\ rounds'[d][j].asked # NoReading =>
                                  /\ rounds'[d][j].asked.target \in ToSet(Targets(d))
                                  /\ rounds'[d][j].asked.n = readings'[rounds'[d][j].asked.target]
    BY <1>0 DEF RoundsFit, Targets
  <2>1. CASE d # c
    <3>1. \A u \in ToSet(Targets(d)) : readings'[u] = readings[u]
      BY <2>1, <1>5, <1>9, TargetsApart, TargetFacts DEF RoundInv, PollTypes
    <3>2. rounds'[d] = rounds[d]
      BY <2>1, <1>8
    <3> QED BY <3>1, <3>2 DEF RoundInv, RoundsFit
  <2>2. CASE d = c
    <3>1. r.asked # NoReading => r.asked.target = t /\ r.asked.n = n /\ settings.cert
      BY DEF r
    <3>2. r.left = Tail(left)
      BY DEF r
    <3>3. /\ DOMAIN rounds'[d] = {1} /\ Len(rounds'[d]) = 1
          /\ rounds'[d][1] = r
      BY <2>2, <1>8
    <3>4. r.asked # NoReading => readings'[r.asked.target] = r.asked.n
      BY <3>1, <1>9
    <3>5. r.asked # NoReading => r.asked.target \in ToSet(Targets(d))
      BY <2>2, <3>1, <1>5
    <3>6. /\ \A k \in DOMAIN r.left : r.left[k] \in ToSet(Targets(d))
          /\ \A k, l \in DOMAIN r.left : r.left[k] = r.left[l] => k = l
      BY <2>2, <3>2, <1>11, Zenon
    <3>7. \A j \in DOMAIN rounds'[d] : rounds'[d][j] = r
      BY <3>3
    <3>8. Len(rounds'[d]) <= 1
      BY <3>3
    <3> QED BY <3>4, <3>5, <3>6, <3>7, <3>8, Zenon
  <2> QED BY <2>1, <2>2
<1>13. TurnsFit'
  <2> SUFFICES ASSUME settings.cert, NEW d \in Collectors, NEW u \in ToSet(Targets(d))
               PROVE  readings'[u] = IF Awaits(u, d)' THEN started[d] - 1 ELSE started[d]
    BY <1>0 DEF TurnsFit, Targets
  <2>0. readings[u] = (IF Awaits(u, d) THEN started[d] - 1 ELSE started[d]) /\ u \in Polled
    BY TargetFacts DEF RoundInv, TurnsFit, PollTypes
  <2>1. CASE d # c
    <3>1. readings'[u] = readings[u]
      BY <2>0, <2>1, <1>5, <1>9, TargetsApart DEF RoundInv, PollTypes
    <3>2. Awaits(u, d)' <=> Awaits(u, d)
      BY <2>1, <1>8 DEF Awaits
    <3> QED BY <3>1, <3>2, <2>0
  <2>2. CASE d = c
    <3>1. Awaits(u, d)' <=> u \in ToSet(Tail(left))
      <4>1. r.left = Tail(left)
        BY DEF r
      <4> QED BY <2>2, <1>8, <4>1 DEF Awaits
    <3>2. Awaits(u, d) <=> u \in ToSet(left)
      BY <2>2, <1>1 DEF Awaits
    <3>3. u # t => (u \in ToSet(Tail(left)) <=> u \in ToSet(left))
      <4>1. \A k \in DOMAIN left : k = 1 \/ (k - 1 \in 1..(Len(left) - 1) /\ (k - 1) + 1 = k)
        BY <1>3
      <4>2. \A k \in 1..(Len(left) - 1) : k + 1 \in DOMAIN left
        BY <1>3
      <4> QED BY <4>1, <4>2, <1>3 DEF ToSet
    <3>4. t \in ToSet(left) /\ t \notin ToSet(Tail(left))
      BY <1>3, <1>11 DEF ToSet
    <3>5. CASE u = t
      <4>1. readings[t] = started[d] - 1
        BY <2>0, <3>2, <3>4, <3>5
      <4>2. readings'[t] = readings[t] + 1
        BY <1>9 DEF n
      <4>3. started[d] \in Nat
        BY DEF RoundInv, PollTypes
      <4> QED BY <3>5, <4>1, <4>2, <4>3, <3>1, <3>4
    <3>6. CASE u # t
      BY <3>6, <2>0, <3>1, <3>2, <3>3, <1>9
    <3> QED BY <3>5, <3>6
  <2> QED BY <2>1, <2>2
<1>14. GaugesFit'
  <2> SUFFICES ASSUME NEW u \in Polled PROVE gauge[u] <= readings'[u]
    BY <1>0 DEF GaugesFit
  <2>1. gauge[u] <= readings[u] /\ gauge[u] \in Nat /\ readings[u] \in Nat
    BY DEF RoundInv, GaugesFit, PollTypes
  <2>2. readings'[u] = readings[u] \/ readings'[u] = readings[u] + 1
    BY <1>9 DEF n
  <2> QED BY <2>1, <2>2
<1> QED BY <1>10, <1>12, <1>13, <1>14 DEF RoundInv

\* The round goes on, and the gauges show no more than was asked for.
LEMMA AnsweredKeeps ==
    ASSUME RoundInv, NEW c \in Collectors, NEW i \in DOMAIN rounds[c], Answered(c, i),
           UNCHANGED <<settings, ticks, started, readings>>,
           gauge' \in [Polled -> Nat], \A t \in Polled : gauge'[t] <= readings[t]
    PROVE  RoundInv'
<1> DEFINE r == [rounds[c][i] EXCEPT !.asked = NoReading]
<1>0. Polled' = Polled /\ Round' = Round /\ Targets(c)' = Targets(c)
  BY DEF Polled, Round, Reading, Targets
<1>1. i = 1 /\ Len(rounds[c]) = 1 /\ rounds[c][i] \in Round
  BY RoundAt
<1>2. r \in Round /\ r.left = rounds[c][i].left /\ r.asked = NoReading
  BY <1>1 DEF Round, Reading, NoReading
<1>3. rounds' = [rounds EXCEPT ![c][i] = r]
  BY DEF Answered
<1> HIDE DEF r
<1>4. /\ rounds' \in [Collectors -> Seq(Round)]
      /\ Len(rounds'[c]) = 1 /\ DOMAIN rounds'[c] = {1} /\ rounds'[c][1] = r
      /\ \A d \in Collectors : d # c => rounds'[d] = rounds[d]
  BY <1>2, <1>3, RoundBecomes
<1>5. PollTypes'
  BY <1>0, <1>4 DEF RoundInv, PollTypes
<1>6. RoundsFit'
  <2> SUFFICES ASSUME NEW d \in Collectors
               PROVE  /\ Len(rounds'[d]) <= 1
                      /\ \A j \in DOMAIN rounds'[d] :
                            /\ \A k \in DOMAIN rounds'[d][j].left :
                                  rounds'[d][j].left[k] \in ToSet(Targets(d))
                            /\ \A k, l \in DOMAIN rounds'[d][j].left :
                                  rounds'[d][j].left[k] = rounds'[d][j].left[l] => k = l
                            /\ rounds'[d][j].asked # NoReading =>
                                  /\ rounds'[d][j].asked.target \in ToSet(Targets(d))
                                  /\ rounds'[d][j].asked.n = readings[rounds'[d][j].asked.target]
    BY DEF RoundsFit, Targets
  <2>1. CASE d # c
    <3>1. rounds'[d] = rounds[d]
      BY <2>1, <1>4
    <3> QED BY <3>1 DEF RoundInv, RoundsFit
  <2>2. CASE d = c
    <3>1. /\ \A k \in DOMAIN r.left : r.left[k] \in ToSet(Targets(d))
          /\ \A k, l \in DOMAIN r.left : r.left[k] = r.left[l] => k = l
      BY <2>2, <1>1, <1>2 DEF RoundInv, RoundsFit
    <3>2. \A j \in DOMAIN rounds'[d] : rounds'[d][j] = r
      BY <2>2, <1>4
    <3>3. Len(rounds'[d]) <= 1
      BY <2>2, <1>4
    <3> QED BY <3>1, <3>2, <3>3, <1>2, Zenon
  <2> QED BY <2>1, <2>2
<1>7. TurnsFit'
  <2>1. \A d \in Collectors : \A t : Awaits(t, d)' <=> Awaits(t, d)
    <3> SUFFICES ASSUME NEW d \in Collectors, NEW t PROVE Awaits(t, d)' <=> Awaits(t, d)
      OBVIOUS
    <3>1. CASE d # c
      BY <3>1, <1>4 DEF Awaits
    <3>2. CASE d = c
      <4>1. DOMAIN rounds[c] = {1}
        <5>1. rounds[c] \in Seq(Round)
          BY DEF RoundInv, PollTypes
        <5> QED BY <5>1, <1>1
      <4> QED BY <3>2, <4>1, <1>1, <1>2, <1>4 DEF Awaits
    <3> QED BY <3>1, <3>2
  <2> QED BY <2>1 DEF RoundInv, TurnsFit, Targets
<1>8. GaugesFit'
  BY <1>0 DEF GaugesFit
<1> QED BY <1>5, <1>6, <1>7, <1>8 DEF RoundInv

LEMMA EndRoundKeeps ==
    ASSUME RoundInv, NEW c \in Collectors, NEW i \in DOMAIN rounds[c], EndRound(c, i)
    PROVE  RoundInv'
<1>0. UNCHANGED <<settings, ticks, started, readings, gauge>>
  BY DEF EndRound, giveVars
<1>1. i = 1 /\ Len(rounds[c]) = 1 /\ rounds[c] \in Seq(Round)
  BY RoundAt DEF RoundInv, PollTypes
<1>2. RemoveAt(rounds[c], i) = <<>>
  BY <1>1 DEF RemoveAt
<1>3. /\ rounds' \in [Collectors -> Seq(Round)]
      /\ rounds'[c] = <<>>
      /\ \A d \in Collectors : d # c => rounds'[d] = rounds[d]
  BY <1>2 DEF EndRound, RoundInv, PollTypes
<1>4. PollTypes'
  BY <1>0, <1>3 DEF RoundInv, PollTypes, Polled, Round, Reading
<1>5. Len(<<>>) = 0 /\ DOMAIN <<>> = {}
  OBVIOUS
<1>6. RoundsFit'
  <2> SUFFICES ASSUME NEW d \in Collectors
               PROVE  /\ Len(rounds'[d]) <= 1
                      /\ \A j \in DOMAIN rounds'[d] :
                            /\ \A k \in DOMAIN rounds'[d][j].left :
                                  rounds'[d][j].left[k] \in ToSet(Targets(d))
                            /\ \A k, l \in DOMAIN rounds'[d][j].left :
                                  rounds'[d][j].left[k] = rounds'[d][j].left[l] => k = l
                            /\ rounds'[d][j].asked # NoReading =>
                                  /\ rounds'[d][j].asked.target \in ToSet(Targets(d))
                                  /\ rounds'[d][j].asked.n = readings[rounds'[d][j].asked.target]
    BY <1>0 DEF RoundsFit, Targets
  <2>1. CASE d # c
    <3>1. rounds'[d] = rounds[d]
      BY <2>1, <1>3
    <3> QED BY <3>1 DEF RoundInv, RoundsFit
  <2>2. CASE d = c
    BY <2>2, <1>3, <1>5
  <2> QED BY <2>1, <2>2
<1>7. TurnsFit'
  <2>1. \A d \in Collectors : \A t : Awaits(t, d)' <=> Awaits(t, d)
    <3> SUFFICES ASSUME NEW d \in Collectors, NEW t PROVE Awaits(t, d)' <=> Awaits(t, d)
      OBVIOUS
    <3>1. CASE d # c
      BY <3>1, <1>3 DEF Awaits
    <3>2. CASE d = c
      <4>1. rounds[c][i].left = <<>> /\ DOMAIN rounds[c] = {1}
        BY <1>1 DEF EndRound
      <4>2. ~Awaits(t, c)
        BY <4>1, <1>1, <1>5 DEF Awaits, ToSet
      <4>3. ~Awaits(t, c)'
        BY <1>3, <1>5 DEF Awaits
      <4> QED BY <3>2, <4>2, <4>3
    <3> QED BY <3>1, <3>2
  <2> QED BY <2>1, <1>0 DEF RoundInv, TurnsFit, Targets
<1>8. GaugesFit'
  BY <1>0 DEF RoundInv, GaugesFit, Polled
<1> QED BY <1>4, <1>6, <1>7, <1>8 DEF RoundInv

\* An answer shows the reading its target was last asked for.
LEMMA AnswerShows ==
    ASSUME RoundInv, NEW c \in Collectors, NEW i \in DOMAIN rounds[c], NEW body,
           Answer(c, i, body)
    PROVE  /\ rounds[c][i].asked.target \in Polled
           /\ rounds[c][i].asked.target.collector = c
           /\ rounds[c][i].asked.n = readings[rounds[c][i].asked.target]
           /\ rounds[c][i].asked.n \in Nat
           /\ gauge' \in [Polled -> Nat]
           /\ \A t \in Polled : gauge[t] <= gauge'[t] /\ gauge'[t] <= readings[t]
           /\ Shows(c, body) => gauge'[rounds[c][i].asked.target] = rounds[c][i].asked.n
<1> DEFINE r == rounds[c][i].asked
           t == r.target
<1>1. r # NoReading
  BY DEF Answer
<1>2. t \in ToSet(Targets(c)) /\ r.n = readings[t]
  BY <1>1 DEF RoundInv, RoundsFit
<1>3. t \in Polled /\ t.collector = c
  BY <1>2, TargetFacts DEF RoundInv, PollTypes
<1>4. /\ gauge \in [Polled -> Nat] /\ readings \in [Polled -> Nat]
      /\ \A u \in Polled : gauge[u] <= readings[u]
  BY DEF RoundInv, PollTypes, GaugesFit
<1>5. r.n \in Nat
  BY <1>2, <1>3, <1>4
<1>6. gauge' = IF Shows(c, body) THEN [gauge EXCEPT ![t] = r.n] ELSE gauge
  BY DEF Answer
<1> HIDE DEF r, t
<1>7. CASE Shows(c, body)
  <2>1. gauge' = [gauge EXCEPT ![t] = r.n]
    BY <1>6, <1>7
  <2>2. \A u \in Polled : gauge[u] \in Nat /\ readings[u] \in Nat
    BY <1>4
  <2>3. gauge' \in [Polled -> Nat] /\ gauge'[t] = r.n /\ \A u \in Polled : u # t => gauge'[u] = gauge[u]
    BY <2>1, <1>3, <1>4, <1>5
  <2>4. \A u \in Polled : gauge[u] <= gauge'[u] /\ gauge'[u] <= readings[u]
    BY <2>2, <2>3, <1>2, <1>3, <1>4
  <2> QED BY <2>3, <2>4, <1>2, <1>3, <1>5 DEF r, t
<1>8. CASE ~Shows(c, body)
  <2>1. gauge' = gauge
    BY <1>6, <1>8
  <2>2. \A u \in Polled : gauge[u] <= gauge'[u] /\ gauge'[u] <= readings[u]
    BY <2>1, <1>4
  <2> QED BY <2>1, <2>2, <1>2, <1>3, <1>4, <1>5, <1>8 DEF r, t
<1> QED BY <1>7, <1>8

-----------------------------------------------------------------------------
(* Every step.                                                             *)

\* A publication, or Butler SOS' own memory: rounds and gauges stay as they are.
LEMMA AloneKeeps ==
    ASSUME RoundInv, UNCHANGED <<settings, started, rounds, readings, gauge>>,
           ticks' \in [Collectors \cup {"uptime"} -> Nat]
    PROVE  RoundInv'
<1>1. PollTypes'
  BY DEF RoundInv, PollTypes, Polled, Round, Reading
<1>2. RoundsFit'
  BY DEF RoundInv, RoundsFit, Targets
<1>3. TurnsFit'
  BY DEF RoundInv, TurnsFit, Targets, Awaits
<1>4. GaugesFit'
  BY DEF RoundInv, GaugesFit, Polled
<1> QED BY <1>1, <1>2, <1>3, <1>4 DEF RoundInv

LEMMA PublicationLeaves ==
    ASSUME NEW p, \/ Deliver(p) \/ FailMqtt(p) \/ FailInflux(p)
                  \/ PostToAccount(p) \/ FailToPost(p) \/ EndPosts(p)
    PROVE  UNCHANGED <<settings, ticks, started, rounds, readings, answered, gauge>>
BY DEF Deliver, FailMqtt, FailInflux, PostToAccount, FailToPost, EndPosts, roundVars

\* The invariant holds, and with it no gauge goes back.
GaugesRise == \A t \in DOMAIN gauge : gauge'[t] >= gauge[t]

LEMMA RoundInvNext ==
    ASSUME RoundInv, [Next]_vars
    PROVE  RoundInv' /\ GaugesRise
<1>0. /\ DOMAIN gauge = Polled /\ \A t \in Polled : gauge[t] \in Nat /\ gauge[t] <= readings[t]
      /\ gauge \in [Polled -> Nat] /\ ticks \in [Collectors \cup {"uptime"} -> Nat]
  BY DEF RoundInv, PollTypes, GaugesFit
<1>1. gauge' = gauge => GaugesRise
  BY <1>0 DEF GaugesRise
<1>2. CASE UNCHANGED vars
  BY <1>0, <1>1, <1>2, AloneKeeps DEF vars, roundVars, giveVars
<1>3. ASSUME NEW c \in Collectors, Tick(c) PROVE RoundInv' /\ GaugesRise
  BY <1>1, <1>3, TickKeeps DEF Tick, giveVars
<1>4. ASSUME NEW c \in Collectors, NEW i \in DOMAIN rounds[c], Ask(c, i)
      PROVE  RoundInv' /\ GaugesRise
  BY <1>1, <1>4, AskKeeps DEF Ask, giveVars
<1>5. ASSUME NEW c \in Collectors, NEW i \in DOMAIN rounds[c], EndRound(c, i)
      PROVE  RoundInv' /\ GaugesRise
  BY <1>1, <1>5, EndRoundKeeps DEF EndRound, giveVars
<1>6. ASSUME NEW c \in Collectors, NEW i \in DOMAIN rounds[c], NEW body \in Bodies,
             Answer(c, i, body)
      PROVE  RoundInv' /\ GaugesRise
  <2>1. /\ gauge' \in [Polled -> Nat]
        /\ \A t \in Polled : gauge[t] <= gauge'[t] /\ gauge'[t] <= readings[t]
    BY <1>6, AnswerShows
  <2>2. Answered(c, i) /\ UNCHANGED <<settings, ticks, started, readings>>
    BY <1>6 DEF Answer
  <2>3. RoundInv'
    BY <2>1, <2>2, AnsweredKeeps
  <2>4. GaugesRise
    <3> SUFFICES ASSUME NEW t \in Polled PROVE gauge'[t] >= gauge[t]
      BY <1>0 DEF GaugesRise
    <3>1. gauge[t] \in Nat /\ gauge'[t] \in Nat /\ gauge[t] <= gauge'[t]
      BY <2>1, <1>0
    <3> QED BY <3>1
  <2> QED BY <2>3, <2>4
<1>7. ASSUME NEW c \in Collectors, NEW i \in DOMAIN rounds[c],
             AnswerWithoutBody(c, i) \/ FailToAnswer(c, i)
      PROVE  RoundInv' /\ GaugesRise
  <2>1. Answered(c, i) /\ UNCHANGED <<settings, ticks, started, readings, gauge>>
    BY <1>7 DEF AnswerWithoutBody, FailToAnswer, giveVars
  <2> QED BY <2>1, <1>0, <1>1, AnsweredKeeps
<1>8. CASE UptimeTick
  BY <1>0, <1>1, <1>8, AloneKeeps DEF UptimeTick
<1>9. ASSUME NEW p \in sending,
             \/ Deliver(p) \/ FailMqtt(p) \/ FailInflux(p)
             \/ PostToAccount(p) \/ FailToPost(p) \/ EndPosts(p)
      PROVE  RoundInv' /\ GaugesRise
  BY <1>0, <1>1, <1>9, PublicationLeaves, AloneKeeps
<1> QED BY <1>2, <1>3, <1>4, <1>5, <1>6, <1>7, <1>8, <1>9 DEF Next

\* Rounds, turns and gauges fit in every state.
THEOREM RoundInvariant == Spec => []RoundInv
<1>1. RoundInv /\ [Next]_vars => RoundInv'
  BY RoundInvNext
<1> QED BY RoundInvInit, <1>1, PTL DEF Spec

\* When no round of a collector is under way, each of its targets has been asked once in
\* every round there was: an answer that failed, or none, kept no other from its turn.
THEOREM RoundsStayWhole == Spec => []RoundsAreWhole
<1>1. RoundInv => RoundsAreWhole
  <2> SUFFICES ASSUME RoundInv, NEW c \in Collectors, rounds[c] = <<>>, settings.cert,
                      NEW t \in ToSet(Targets(c))
               PROVE  readings[t] = started[c]
    BY DEF RoundsAreWhole
  <2>1. ~Awaits(t, c)
    BY DEF Awaits
  <2> QED BY <2>1 DEF RoundInv, TurnsFit
<1> QED BY RoundInvariant, <1>1, PTL

\* The gauges of a target never go back to an older reading, whatever answers late.
THEOREM GaugesNeverGoBack == Spec => GaugesGoForward
<1>1. RoundInv /\ [Next]_vars => [GaugesRise]_vars
  BY RoundInvNext
<1> QED BY RoundInvariant, <1>1, PTL DEF Spec, GaugesGoForward, GaugesRise

-----------------------------------------------------------------------------
(* What becomes of a reading.                                              *)

Account == ToSet(settings.userAccounts) \cup ToSet(settings.uptimeAccounts)
Publishing == [dest : {"mqtt", "influxdb", "newRelic"}, target : Polled \cup {Butler}, n : Nat,
               left : Seq(Account)]

\* The accounts that get what users' events get, too.
Due == ToSet(settings.userAccounts) \cap settings.credentials

\* An account that is due a reading has it, or its turn is still to come.
PostsFit ==
    \A p \in sending : p.dest = "newRelic" /\ p.target # Butler =>
        \A a \in Due : a \in ToSet(p.left) \/ Has(a, p)

AccountInv ==
    /\ RoundInv
    /\ sending \in SUBSET Publishing
    /\ \A r \in answered : r.target \in Polled /\ r.n \in Nat
    /\ PostsFit
    /\ ReadingsAccounted

\* What a reading is owed, destination by destination.
MqttHolds(r) ==
    On("mqtt") => \/ Has("mqtt", r) \/ UnderWay("mqtt", r) \/ Counted("MQTT_PUBLISH", r)
                  \/ [dest |-> "mqtt", target |-> r.target, n |-> r.n] \in unhandled
InfluxHolds(r) ==
    On("influxdb") /\ HasWriteApi(r.target.collector) /\ Expected(r.body) =>
        Has("influxdb", r) \/ UnderWay("influxdb", r) \/ Counted(InfluxType, r)
NewRelicHolds(r) ==
    ToNewRelic(r.target.collector) /\ Expected(r.body) =>
        \/ UnderWay("newRelic", r) \/ Counted("NEW_RELIC_POST", r)
        \/ \A a \in Due : Has(a, r)
GaugeHolds(r) == On("prometheus") /\ Expected(r.body) => gauge[r.target] >= r.n

LEMMA AccountedIsHeld ==
    ReadingsAccounted <=>
        \A r \in answered : MqttHolds(r) /\ InfluxHolds(r) /\ NewRelicHolds(r) /\ GaugeHolds(r)
BY DEF ReadingsAccounted, MqttHolds, InfluxHolds, NewRelicHolds, GaugeHolds, Due

\* What is received, counted or logged stays so; what is under way goes on, has arrived
\* or has failed.
Grows ==
    /\ settings' = settings
    /\ received \in SUBSET received' /\ errors \in SUBSET errors' /\ unhandled \in SUBSET unhandled'

GoesOn(p) == \E q \in sending' : q.dest = p.dest /\ q.target = p.target /\ q.n = p.n
Resolves(p) ==
    \/ GoesOn(p)
    \/ p.dest = "mqtt" /\ (Has("mqtt", p)' \/ Counted("MQTT_PUBLISH", p)')
    \/ p.dest = "influxdb" /\ (Has("influxdb", p)' \/ Counted(InfluxType, p)')
    \/ p.dest = "newRelic" /\ (\/ p.target = Butler
                               \/ Counted("NEW_RELIC_POST", p)'
                               \/ \A a \in Due : Has(a, p)')

\* A reading that was accounted for still is.
LEMMA HoldsOn ==
    ASSUME AccountInv, RoundInv', GaugesRise, Grows, NEW r \in answered,
           \A p \in sending : Resolves(p)
    PROVE  MqttHolds(r)' /\ InfluxHolds(r)' /\ NewRelicHolds(r)' /\ GaugeHolds(r)'
<1>1. MqttHolds(r) /\ InfluxHolds(r) /\ NewRelicHolds(r) /\ GaugeHolds(r)
  BY AccountedIsHeld DEF AccountInv
<1>2. r.target \in Polled /\ r.target # Butler /\ r.n \in Nat
  <2>1. r.target \in Polled /\ r.n \in Nat /\ settings \in SettingsSet
    BY DEF AccountInv, RoundInv, PollTypes
  <2> QED BY <2>1, PolledFacts, TargetFacts
<1>3. MqttHolds(r)'
  <2> SUFFICES ASSUME On("mqtt")'
               PROVE  \/ Has("mqtt", r)' \/ UnderWay("mqtt", r)' \/ Counted("MQTT_PUBLISH", r)'
                      \/ [dest |-> "mqtt", target |-> r.target, n |-> r.n] \in unhandled'
    BY DEF MqttHolds
  <2>1. On("mqtt")
    BY DEF On, Grows
  <2>2. UnderWay("mqtt", r) => UnderWay("mqtt", r)' \/ Has("mqtt", r)' \/ Counted("MQTT_PUBLISH", r)'
    <3> SUFFICES ASSUME NEW p \in sending, p.dest = "mqtt", p.target = r.target, p.n = r.n
                 PROVE  UnderWay("mqtt", r)' \/ Has("mqtt", r)' \/ Counted("MQTT_PUBLISH", r)'
      BY DEF UnderWay
    <3> QED BY DEF Resolves, GoesOn, UnderWay, Has, Counted
  <2> QED BY <1>1, <2>1, <2>2 DEF MqttHolds, Grows, Has, Counted
<1>4. InfluxHolds(r)'
  <2> SUFFICES ASSUME (On("influxdb") /\ HasWriteApi(r.target.collector) /\ Expected(r.body))'
               PROVE  Has("influxdb", r)' \/ UnderWay("influxdb", r)' \/ Counted(InfluxType, r)'
    BY DEF InfluxHolds
  <2>1. On("influxdb") /\ HasWriteApi(r.target.collector) /\ Expected(r.body) /\ InfluxType' = InfluxType
    BY DEF On, HasWriteApi, Expected, InfluxType, Grows
  <2>2. UnderWay("influxdb", r) => UnderWay("influxdb", r)' \/ Has("influxdb", r)' \/ Counted(InfluxType, r)'
    <3> SUFFICES ASSUME NEW p \in sending, p.dest = "influxdb", p.target = r.target, p.n = r.n
                 PROVE  UnderWay("influxdb", r)' \/ Has("influxdb", r)' \/ Counted(InfluxType, r)'
      BY DEF UnderWay
    <3> QED BY DEF Resolves, GoesOn, UnderWay, Has, Counted
  <2> QED BY <1>1, <2>1, <2>2 DEF InfluxHolds, Grows, Has, Counted
<1>5. NewRelicHolds(r)'
  <2> SUFFICES ASSUME (ToNewRelic(r.target.collector) /\ Expected(r.body))'
               PROVE  \/ UnderWay("newRelic", r)' \/ Counted("NEW_RELIC_POST", r)'
                      \/ \A a \in Due : Has(a, r)'
    BY DEF NewRelicHolds, Due, Grows
  <2>1. ToNewRelic(r.target.collector) /\ Expected(r.body)
    BY DEF ToNewRelic, On, Expected, Grows
  <2>2. UnderWay("newRelic", r) => \/ UnderWay("newRelic", r)' \/ Counted("NEW_RELIC_POST", r)'
                                   \/ \A a \in Due : Has(a, r)'
    <3> SUFFICES ASSUME NEW p \in sending, p.dest = "newRelic", p.target = r.target, p.n = r.n
                 PROVE  \/ UnderWay("newRelic", r)' \/ Counted("NEW_RELIC_POST", r)'
                        \/ \A a \in Due : Has(a, r)'
      BY DEF UnderWay
    <3> QED BY <1>2 DEF Resolves, GoesOn, UnderWay, Has, Counted
  <2> QED BY <1>1, <2>1, <2>2 DEF NewRelicHolds, Grows, Has, Counted
<1>6. GaugeHolds(r)'
  <2> SUFFICES ASSUME (On("prometheus") /\ Expected(r.body))' PROVE gauge'[r.target] >= r.n
    BY DEF GaugeHolds
  <2>1. On("prometheus") /\ Expected(r.body) /\ Polled' = Polled
    BY DEF On, Expected, Grows, Polled
  <2>2. gauge[r.target] >= r.n
    BY <1>1, <2>1 DEF GaugeHolds
  <2>3. gauge \in [Polled -> Nat] /\ gauge' \in [Polled -> Nat]
    BY <2>1 DEF AccountInv, RoundInv, PollTypes
  <2>4. gauge[r.target] \in Nat /\ gauge'[r.target] \in Nat /\ gauge'[r.target] >= gauge[r.target]
    BY <1>2, <2>3 DEF GaugesRise
  <2> QED BY <1>2, <2>2, <2>4
<1> QED BY <1>3, <1>4, <1>5, <1>6

LEMMA AccountInvInit == Init => AccountInv
<1> SUFFICES ASSUME Init PROVE AccountInv
  OBVIOUS
<1>1. sending = {} /\ answered = {}
  BY DEF Init
<1> QED BY <1>1, RoundInvInit DEF AccountInv, PostsFit, ReadingsAccounted

\* A step that settles nothing the wrong way keeps the invariant, if what it adds fits.
LEMMA AccountsStay ==
    ASSUME AccountInv, RoundInv', GaugesRise, Grows,
           \A p \in sending : Resolves(p),
           sending' \in SUBSET Publishing,
           \A p \in sending' \ sending : p.dest = "newRelic" /\ p.target # Butler =>
              \A a \in Due : a \in ToSet(p.left) \/ Has(a, p)',
           \A r \in answered' : \/ r \in answered
                                \/ /\ r.target \in Polled /\ r.n \in Nat
                                   /\ MqttHolds(r)' /\ InfluxHolds(r)'
                                   /\ NewRelicHolds(r)' /\ GaugeHolds(r)'
    PROVE  AccountInv'
<1>1. Polled' = Polled /\ Due' = Due /\ Publishing' = Publishing
  BY DEF Grows, Polled, Due, Publishing, Account
<1>2. PostsFit'
  <2> SUFFICES ASSUME NEW p \in sending', p.dest = "newRelic", p.target # Butler, NEW a \in Due
               PROVE  a \in ToSet(p.left) \/ Has(a, p)'
    BY <1>1 DEF PostsFit
  <2>1. CASE p \in sending
    BY <2>1 DEF AccountInv, PostsFit, Grows, Has
  <2>2. CASE p \notin sending
    BY <2>2
  <2> QED BY <2>1, <2>2
<1>3. \A r \in answered' : MqttHolds(r)' /\ InfluxHolds(r)' /\ NewRelicHolds(r)' /\ GaugeHolds(r)'
  BY HoldsOn
<1>4. ReadingsAccounted'
  BY <1>3 DEF ReadingsAccounted, MqttHolds, InfluxHolds, NewRelicHolds, GaugeHolds, Due
<1>5. \A r \in answered' : r.target \in Polled /\ r.n \in Nat
  BY DEF AccountInv
<1> QED BY <1>1, <1>2, <1>4, <1>5 DEF AccountInv

LEMMA PublicationFacts ==
    ASSUME NEW dest \in {"mqtt", "influxdb", "newRelic"}, NEW r, r.target \in Polled \cup {Butler},
           r.n \in Nat, settings \in SettingsSet
    PROVE  /\ Publication(dest, r) \in Publishing
           /\ [Publication(dest, r) EXCEPT !.left = settings.userAccounts] \in Publishing
           /\ [Publication(dest, r) EXCEPT !.left = settings.uptimeAccounts] \in Publishing
<1>1. /\ <<>> \in Seq(Account) /\ settings.userAccounts \in Seq(Account)
      /\ settings.uptimeAccounts \in Seq(Account)
  <2>1. /\ settings.userAccounts \in Seq(ToSet(settings.userAccounts))
        /\ settings.uptimeAccounts \in Seq(ToSet(settings.uptimeAccounts))
    BY PollersAssumption
  <2>2. /\ ToSet(settings.userAccounts) \in SUBSET Account
        /\ ToSet(settings.uptimeAccounts) \in SUBSET Account
    BY DEF Account
  <2> QED BY <2>1, <2>2
<1> QED BY <1>1 DEF Publication, Publishing

LEMMA AnswerAccounts ==
    ASSUME AccountInv, RoundInv', GaugesRise, NEW c \in Collectors, NEW i \in DOMAIN rounds[c],
           NEW body \in Bodies, Answer(c, i, body)
    PROVE  AccountInv'
<1>1. PICK q : q = rounds[c][i].asked
  OBVIOUS
<1>2. PICK r : r = [target |-> q.target, n |-> q.n, body |-> body]
  OBVIOUS
<1> DEFINE sent == Publications(c, q, body)
<1>0. settings \in SettingsSet /\ RoundInv /\ sending \in SUBSET Publishing
  BY DEF AccountInv, RoundInv, PollTypes
<1>3. /\ q.target \in Polled /\ q.target.collector = c /\ q.n \in Nat
      /\ Shows(c, body) => gauge'[q.target] = q.n
  BY <1>0, <1>1, AnswerShows
<1>4. /\ body = "negative" => c = "health"
      /\ answered' = answered \cup {r} /\ sending' = sending \cup sent
      /\ errors' = errors \cup {[type |-> type, target |-> q.target, n |-> q.n] :
                                     type \in ErrorTypes(c, body)}
      /\ unhandled' = unhandled \cup {[dest |-> d, target |-> q.target, n |-> q.n] :
                                           d \in Rejections(c, body)}
      /\ UNCHANGED <<settings, received>>
  BY <1>1, <1>2 DEF Answer
<1>5. Grows
  BY <1>4 DEF Grows
<1>6. \A p \in sending : Resolves(p)
  BY <1>4 DEF Resolves, GoesOn
<1>7. /\ Publication("mqtt", q) \in Publishing /\ Publication("influxdb", q) \in Publishing
      /\ [Publication("newRelic", q) EXCEPT !.left = settings.userAccounts] \in Publishing
  BY <1>0, <1>3, PublicationFacts
<1>8. sent \in SUBSET Publishing
  BY <1>7 DEF Publications
<1>9. \A p \in sent : p.dest = "newRelic" => p.left = settings.userAccounts
  BY DEF Publications, Publication
<1>10. r.target = q.target /\ r.n = q.n /\ r.body = body
  BY <1>2
<1>11. c = "health" \/ c = "sessions"
  BY DEF Collectors
<1>12. MqttHolds(r)'
  <2> SUFFICES ASSUME On("mqtt")
               PROVE  \/ UnderWay("mqtt", r)'
                      \/ [dest |-> "mqtt", target |-> r.target, n |-> r.n] \in unhandled'
    BY <1>4 DEF MqttHolds, On
  <2>1. CASE c = "sessions" \/ Expected(body)
    <3>1. Publication("mqtt", q) \in sending'
      BY <2>1, <1>4 DEF Publications
    <3> QED BY <3>1, <1>10 DEF UnderWay, Publication
  <2>2. CASE c = "health" /\ ~Expected(body)
    <3>1. "mqtt" \in Rejections(c, body)
      BY <2>2 DEF Rejections, On
    <3> QED BY <3>1, <1>4, <1>10
  <2> QED BY <2>1, <2>2, <1>11
<1>13. InfluxHolds(r)'
  <2> SUFFICES ASSUME On("influxdb"), HasWriteApi(c), Expected(body)
               PROVE  UnderWay("influxdb", r)' \/ Counted(InfluxType, r)'
    BY <1>3, <1>4, <1>10 DEF InfluxHolds, On, HasWriteApi, Expected, InfluxType
  <2>1. CASE InfluxSends(c, body)
    <3>1. Publication("influxdb", q) \in sending'
      BY <2>1, <1>4 DEF Publications
    <3> QED BY <3>1, <1>10 DEF UnderWay, Publication
  <2>2. CASE ~InfluxSends(c, body)
    <3>1. c = "health" /\ body = "negative" /\ settings.version = 2
      BY <2>2, <1>4, <1>11 DEF InfluxSends, Expected
    <3>2. InfluxType \in ErrorTypes(c, body)
      BY <3>1 DEF ErrorTypes, InfluxCounts
    <3>3. InfluxType' = InfluxType
      BY <1>4 DEF InfluxType
    <3> QED BY <3>2, <3>3, <1>4, <1>10 DEF Counted
  <2> QED BY <2>1, <2>2
<1>14. NewRelicHolds(r)'
  <2> SUFFICES ASSUME ToNewRelic(c), Expected(body) PROVE UnderWay("newRelic", r)'
    BY <1>3, <1>4, <1>10 DEF NewRelicHolds, ToNewRelic, On, Expected
  <2>1. [Publication("newRelic", q) EXCEPT !.left = settings.userAccounts] \in sending'
    BY <1>4 DEF Publications
  <2> QED BY <2>1, <1>10 DEF UnderWay, Publication
<1>15. GaugeHolds(r)'
  <2> SUFFICES ASSUME On("prometheus"), Expected(body) PROVE gauge'[r.target] >= r.n
    BY <1>4, <1>10 DEF GaugeHolds, On, Expected
  <2>1. gauge'[q.target] = q.n
    BY <1>3 DEF Shows
  <2> QED BY <2>1, <1>3, <1>10
<1>16. \A p \in sending' \ sending : p.dest = "newRelic" /\ p.target # Butler =>
          \A a \in Due : a \in ToSet(p.left) \/ Has(a, p)'
  BY <1>4, <1>9 DEF Due
<1>17. \A s \in answered' : s \in answered \/ s = r
  BY <1>4
<1>18. sending' \in SUBSET Publishing
  BY <1>0, <1>4, <1>8
<1>19. r.target \in Polled /\ r.n \in Nat
  BY <1>3, <1>10
<1> HIDE DEF sent
<1> QED BY <1>5, <1>6, <1>12, <1>13, <1>14, <1>15, <1>16, <1>17, <1>18, <1>19, AccountsStay

\* What is left of the accounts of p, once the first has had its turn.
LEMMA TurnTaken ==
    ASSUME NEW p \in Publishing, p.left # <<>>
    PROVE  /\ [p EXCEPT !.left = Tail(@)] \in Publishing
           /\ \A a \in ToSet(p.left) : a = Head(p.left) \/ a \in ToSet(Tail(p.left))
<1>1. p.left \in Seq(Account)
  BY DEF Publishing
<1>2. /\ Tail(p.left) \in Seq(Account) /\ Head(p.left) = p.left[1]
      /\ Len(p.left) \in Nat /\ Len(p.left) > 0
      /\ DOMAIN Tail(p.left) = 1..(Len(p.left) - 1) /\ DOMAIN p.left = 1..Len(p.left)
      /\ \A k \in 1..(Len(p.left) - 1) : Tail(p.left)[k] = p.left[k + 1]
  BY <1>1
<1>3. [p EXCEPT !.left = Tail(@)] \in Publishing
  BY <1>2 DEF Publishing
<1>4. ASSUME NEW k \in DOMAIN p.left, k # 1 PROVE p.left[k] \in ToSet(Tail(p.left))
  <2>1. k - 1 \in DOMAIN Tail(p.left) /\ Tail(p.left)[k - 1] = p.left[k]
    BY <1>2, <1>4
  <2> QED BY <2>1 DEF ToSet
<1>5. \A a \in ToSet(p.left) : \E k \in DOMAIN p.left : a = p.left[k]
  BY DEF ToSet
<1> QED BY <1>2, <1>3, <1>4, <1>5

LEMMA PublicationAccounts ==
    ASSUME AccountInv, RoundInv', GaugesRise, NEW p \in sending,
           \/ Deliver(p) \/ FailMqtt(p) \/ FailInflux(p)
           \/ PostToAccount(p) \/ FailToPost(p) \/ EndPosts(p)
    PROVE  AccountInv'
<1>0. UNCHANGED <<settings, answered>>
  BY PublicationLeaves
<1>1. sending \in SUBSET Publishing /\ p \in Publishing /\ PostsFit
  BY DEF AccountInv
<1>2. Grows
  <2>1. received \in SUBSET received' /\ errors \in SUBSET errors'
    BY DEF Deliver, FailMqtt, FailInflux, PostToAccount, FailToPost, EndPosts, Receives, Counts
  <2>2. unhandled \in SUBSET unhandled'
    BY DEF Deliver, FailMqtt, FailInflux, PostToAccount, FailToPost, EndPosts
  <2> QED BY <1>0, <2>1, <2>2 DEF Grows
<1>3. CASE ~PostToAccount(p)
  <2>1. sending' = sending \ {p}
    BY <1>3 DEF Deliver, FailMqtt, FailInflux, FailToPost, EndPosts, Settled
  <2>2. Resolves(p)
    <3>1. CASE Deliver(p)
      BY <3>1 DEF Deliver, Receives, Resolves, Has
    <3>2. CASE FailMqtt(p)
      BY <3>2 DEF FailMqtt, Counts, Resolves, Counted
    <3>3. CASE FailInflux(p)
      <4>1. InfluxType' = InfluxType
        BY <1>0 DEF InfluxType
      <4> QED BY <3>3, <4>1 DEF FailInflux, Counts, Resolves, Counted
    <3>4. CASE FailToPost(p)
      BY <3>4 DEF FailToPost, Counts, Resolves, Counted
    <3>5. CASE EndPosts(p)
      <4>1. p.dest = "newRelic" /\ p.left = <<>> /\ received' = received
        BY <3>5 DEF EndPosts
      <4>2. ToSet(p.left) = {}
        BY <4>1 DEF ToSet
      <4>3. p.target # Butler => \A a \in Due : Has(a, p)
        BY <1>1, <4>1, <4>2 DEF PostsFit
      <4> QED BY <4>1, <4>3 DEF Resolves, Has
    <3> QED BY <1>3, <3>1, <3>2, <3>3, <3>4, <3>5
  <2>3. \A q \in sending : Resolves(q)
    BY <2>1, <2>2 DEF Resolves, GoesOn
  <2> QED BY <1>0, <1>1, <1>2, <2>1, <2>3, AccountsStay
<1>4. CASE PostToAccount(p)
  <2> DEFINE q == [p EXCEPT !.left = Tail(@)]
  <2>1. p.dest = "newRelic" /\ p.left # <<>> /\ sending' = (sending \ {p}) \cup {q}
    BY <1>4 DEF PostToAccount
  <2>2. /\ q \in Publishing
        /\ \A a \in ToSet(p.left) : a = Head(p.left) \/ a \in ToSet(Tail(p.left))
    BY <1>1, <2>1, TurnTaken
  <2>3. q.dest = p.dest /\ q.target = p.target /\ q.n = p.n /\ q.left = Tail(p.left)
    BY <1>1 DEF Publishing
  <2> HIDE DEF q
  <2>4. \A s \in sending : Resolves(s)
    BY <2>1, <2>3 DEF Resolves, GoesOn
  <2>5. ASSUME p.target # Butler, NEW a \in Due PROVE a \in ToSet(q.left) \/ Has(a, q)'
    <3>1. a \in ToSet(p.left) \/ Has(a, p)
      BY <1>1, <2>1, <2>5 DEF PostsFit
    <3>2. Has(a, p) => Has(a, q)'
      BY <1>2, <2>3 DEF Has, Grows
    <3>3. a = Head(p.left) => Has(a, q)'
      BY <1>4, <2>3 DEF PostToAccount, Receives, Has, Due
    <3> QED BY <3>1, <3>2, <3>3, <2>2, <2>3
  <2>6. \A s \in sending' \ sending : s.dest = "newRelic" /\ s.target # Butler =>
            \A a \in Due : a \in ToSet(s.left) \/ Has(a, s)'
    BY <2>1, <2>3, <2>5
  <2>7. sending' \in SUBSET Publishing
    BY <1>1, <2>1, <2>2
  <2> QED BY <1>0, <1>2, <2>4, <2>6, <2>7, AccountsStay
<1> QED BY <1>3, <1>4

LEMMA AccountInvNext ==
    ASSUME AccountInv, [Next]_vars
    PROVE  AccountInv'
<1>0. RoundInv' /\ GaugesRise /\ sending \in SUBSET Publishing /\ settings \in SettingsSet
  BY RoundInvNext DEF AccountInv, RoundInv, PollTypes
<1>1. ASSUME Grows, answered' = answered, sending' = sending PROVE AccountInv'
  <2>1. \A p \in sending : Resolves(p)
    BY <1>1 DEF Resolves, GoesOn
  <2> QED BY <1>0, <1>1, <2>1, AccountsStay
<1>2. CASE UNCHANGED vars
  BY <1>1, <1>2 DEF vars, roundVars, giveVars, Grows
<1>3. ASSUME NEW c \in Collectors, Tick(c) PROVE AccountInv'
  BY <1>1, <1>3 DEF Tick, giveVars, Grows
<1>4. ASSUME NEW c \in Collectors, NEW i \in DOMAIN rounds[c],
             Ask(c, i) \/ EndRound(c, i) \/ AnswerWithoutBody(c, i) \/ FailToAnswer(c, i)
      PROVE  AccountInv'
  <2>1. /\ settings' = settings /\ received' = received /\ unhandled' = unhandled
        /\ sending' = sending /\ answered' = answered
    BY <1>4 DEF Ask, EndRound, AnswerWithoutBody, FailToAnswer, giveVars
  <2>2. errors \in SUBSET errors'
    BY <1>4 DEF Ask, EndRound, AnswerWithoutBody, FailToAnswer, giveVars
  <2> QED BY <1>1, <2>1, <2>2 DEF Grows
<1>5. ASSUME NEW c \in Collectors, NEW i \in DOMAIN rounds[c], NEW body \in Bodies,
             Answer(c, i, body)
      PROVE  AccountInv'
  BY <1>0, <1>5, AnswerAccounts
<1>6. CASE UptimeTick
  <2> DEFINE n == ticks["uptime"] + 1
             r == [target |-> Butler, n |-> n]
             i == Publication("influxdb", r)
             q == [Publication("newRelic", r) EXCEPT !.left = settings.uptimeAccounts]
  <2>1. n \in Nat /\ r.target = Butler /\ r.n = n
    BY DEF AccountInv, RoundInv, PollTypes
  <2>2. i \in Publishing /\ q \in Publishing
    BY <1>0, <2>1, PublicationFacts
  <2>3. i.target = Butler /\ q.target = Butler
    BY DEF Publication
  <2>4. /\ sending \in SUBSET sending' /\ \A p \in sending' : p \in sending \/ p = i \/ p = q
        /\ answered' = answered
    BY <1>6 DEF UptimeTick
  <2>5. Grows
    BY <1>6 DEF UptimeTick, Grows
  <2> HIDE DEF i, q
  <2>6. sending' \in SUBSET Publishing
    BY <1>0, <2>2, <2>4
  <2>7. \A p \in sending : Resolves(p)
    BY <2>4 DEF Resolves, GoesOn
  <2> QED BY <1>0, <2>3, <2>4, <2>5, <2>6, <2>7, AccountsStay
<1>7. ASSUME NEW p \in sending,
             \/ Deliver(p) \/ FailMqtt(p) \/ FailInflux(p)
             \/ PostToAccount(p) \/ FailToPost(p) \/ EndPosts(p)
      PROVE  AccountInv'
  BY <1>0, <1>7, PublicationAccounts
<1> QED BY <1>2, <1>3, <1>4, <1>5, <1>6, <1>7 DEF Next

\* So do publications and what was received, counted or logged.
THEOREM AccountInvariant == Spec => []AccountInv
<1>1. AccountInv /\ [Next]_vars => AccountInv'
  BY AccountInvNext
<1> QED BY AccountInvInit, <1>1, PTL DEF Spec

\* Every reading that was answered for is with each destination that is on, under way to
\* it or counted as an error, but for a rejection that was logged.
THEOREM NoReadingIsLost == Spec => []ReadingsAccounted
<1>1. AccountInv => ReadingsAccounted
  BY DEF AccountInv
<1> QED BY AccountInvariant, <1>1, PTL

-----------------------------------------------------------------------------
(* What each destination is given.                                         *)

LEMMA PointFields ==
    ASSUME NEW fields
    PROVE  DOMAIN Point(fields) = UNION {fields[type] : type \in DOMAIN fields}
BY DEF Point

\* The fields of points of one and of two types.
LEMMA FieldsOfTypes ==
    ASSUME NEW fields, NEW s, NEW t
    PROVE  /\ DOMAIN fields = {s} => DOMAIN Point(fields) = fields[s]
           /\ DOMAIN fields = {s, t} => DOMAIN Point(fields) = fields[s] \cup fields[t]
<1>1. DOMAIN Point(fields) = UNION {fields[type] : type \in DOMAIN fields}
  BY PointFields
<1>2. ASSUME DOMAIN fields = {s} PROVE DOMAIN Point(fields) = fields[s]
  BY <1>1, <1>2
<1>3. ASSUME DOMAIN fields = {s, t} PROVE DOMAIN Point(fields) = fields[s] \cup fields[t]
  BY <1>1, <1>3
<1> QED BY <1>2, <1>3

LEMMA FieldsOf ==
    ASSUME NEW s, NEW t
    PROVE  /\ DOMAIN Point([string |-> s]) = s
           /\ DOMAIN Point([float |-> s]) = s
           /\ DOMAIN Point([integer |-> s]) = s
           /\ DOMAIN Point([unsigned |-> s]) = s
           /\ DOMAIN Point([boolean |-> s]) = s
           /\ DOMAIN Point([integer |-> s, string |-> t]) = s \cup t
           /\ DOMAIN Point([unsigned |-> s, integer |-> t]) = s \cup t
<1>1. DOMAIN Point([string |-> s]) = s
  <2> DEFINE f == [string |-> s]
  <2>1. DOMAIN f = {"string"} /\ f["string"] = s
    OBVIOUS
  <2> HIDE DEF f
  <2>2. DOMAIN Point(f) = s
    BY <2>1, FieldsOfTypes
  <2> QED BY <2>2 DEF f
<1>2. DOMAIN Point([float |-> s]) = s
  <2> DEFINE f == [float |-> s]
  <2>1. DOMAIN f = {"float"} /\ f["float"] = s
    OBVIOUS
  <2> HIDE DEF f
  <2>2. DOMAIN Point(f) = s
    BY <2>1, FieldsOfTypes
  <2> QED BY <2>2 DEF f
<1>3. DOMAIN Point([integer |-> s]) = s
  <2> DEFINE f == [integer |-> s]
  <2>1. DOMAIN f = {"integer"} /\ f["integer"] = s
    OBVIOUS
  <2> HIDE DEF f
  <2>2. DOMAIN Point(f) = s
    BY <2>1, FieldsOfTypes
  <2> QED BY <2>2 DEF f
<1>4. DOMAIN Point([unsigned |-> s]) = s
  <2> DEFINE f == [unsigned |-> s]
  <2>1. DOMAIN f = {"unsigned"} /\ f["unsigned"] = s
    OBVIOUS
  <2> HIDE DEF f
  <2>2. DOMAIN Point(f) = s
    BY <2>1, FieldsOfTypes
  <2> QED BY <2>2 DEF f
<1>5. DOMAIN Point([boolean |-> s]) = s
  <2> DEFINE f == [boolean |-> s]
  <2>1. DOMAIN f = {"boolean"} /\ f["boolean"] = s
    OBVIOUS
  <2> HIDE DEF f
  <2>2. DOMAIN Point(f) = s
    BY <2>1, FieldsOfTypes
  <2> QED BY <2>2 DEF f
<1>6. DOMAIN Point([integer |-> s, string |-> t]) = s \cup t
  <2> DEFINE f == [integer |-> s, string |-> t]
  <2>1. DOMAIN f = {"integer", "string"} /\ f["integer"] = s /\ f["string"] = t
    OBVIOUS
  <2> HIDE DEF f
  <2>2. DOMAIN Point(f) = s \cup t
    BY <2>1, FieldsOfTypes
  <2> QED BY <2>2 DEF f
<1>7. DOMAIN Point([unsigned |-> s, integer |-> t]) = s \cup t
  <2> DEFINE f == [unsigned |-> s, integer |-> t]
  <2>1. DOMAIN f = {"unsigned", "integer"} /\ f["unsigned"] = s /\ f["integer"] = t
    OBVIOUS
  <2> HIDE DEF f
  <2>2. DOMAIN Point(f) = s \cup t
    BY <2>1, FieldsOfTypes
  <2> QED BY <2>2 DEF f
<1> QED BY <1>1, <1>2, <1>3, <1>4, <1>5, <1>6, <1>7

FieldNames(points) == [m \in DOMAIN points |-> DOMAIN points[m]]

Measurements == {"sense_server", "mem", "apps", "cpu", "session", "users", "cache", "saturated"}

LEMMA SameFields ==
    /\ FieldNames(V2HealthPoints) = V1HealthPoints
    /\ FieldNames(V3HealthPoints) = V1HealthPoints
    /\ \A m \in Measurements \ {"saturated"} : V1HealthPoints[m] = DOMAIN V1Schema[m]
<1>1. /\ DOMAIN V1HealthPoints = Measurements /\ DOMAIN V2HealthPoints = Measurements
      /\ DOMAIN V3HealthPoints = Measurements
  BY DEF V1HealthPoints, V2HealthPoints, V3HealthPoints, Measurements
<1>2. V1HealthPoints = [m \in Measurements |-> V1HealthPoints[m]]
  BY <1>1 DEF V1HealthPoints
<1>3. ASSUME NEW m \in Measurements
      PROVE  /\ DOMAIN V2HealthPoints[m] = V1HealthPoints[m]
             /\ DOMAIN V3HealthPoints[m] = V1HealthPoints[m]
             /\ m # "saturated" => DOMAIN V1Schema[m] = V1HealthPoints[m]
  <2>1. CASE m = "sense_server"
    <3>1. DOMAIN V2HealthPoints["sense_server"] = V1HealthPoints["sense_server"]
      BY FieldsOf DEF V1HealthPoints, V2HealthPoints
    <3>2. DOMAIN V3HealthPoints["sense_server"] = V1HealthPoints["sense_server"]
      BY FieldsOf DEF V1HealthPoints, V3HealthPoints
    <3>3. DOMAIN V1Schema["sense_server"] = V1HealthPoints["sense_server"]
      BY FieldsOf DEF V1HealthPoints, V1Schema
    <3> QED BY <2>1, <3>1, <3>2, <3>3
  <2>2. CASE m = "mem"
    <3>1. DOMAIN V2HealthPoints["mem"] = V1HealthPoints["mem"]
      BY FieldsOf DEF V1HealthPoints, V2HealthPoints
    <3>2. DOMAIN V3HealthPoints["mem"] = V1HealthPoints["mem"]
      BY FieldsOf DEF V1HealthPoints, V3HealthPoints
    <3>3. DOMAIN V1Schema["mem"] = V1HealthPoints["mem"]
      BY FieldsOf DEF V1HealthPoints, V1Schema
    <3> QED BY <2>2, <3>1, <3>2, <3>3
  <2>3. CASE m = "apps"
    <3> DEFINE more == {"calls", "selections"}
    <3>1. DOMAIN V2HealthPoints["apps"] = DocCounts \cup DocLists \cup more
      <4> DEFINE f == [integer |-> DocCounts, string |-> DocLists, unsigned |-> more]
      <4>1. V2HealthPoints["apps"] = Point(f)
        BY DEF V2HealthPoints
      <4>2. /\ DOMAIN f = {"integer", "string", "unsigned"}
            /\ f["integer"] = DocCounts /\ f["string"] = DocLists /\ f["unsigned"] = more
        OBVIOUS
      <4> HIDE DEF f, more
      <4>3. DOMAIN Point(f) = UNION {f[type] : type \in DOMAIN f}
        BY PointFields
      <4>4. UNION {f[type] : type \in DOMAIN f} = f["integer"] \cup f["string"] \cup f["unsigned"]
        BY <4>2
      <4> QED BY <4>1, <4>2, <4>3, <4>4
    <3>2. DOMAIN V3HealthPoints["apps"] = (DocCounts \cup more) \cup DocLists
      BY FieldsOf DEF V3HealthPoints
    <3>3. DOMAIN V1Schema["apps"] = (DocCounts \cup more) \cup DocLists
      BY FieldsOf DEF V1Schema
    <3>4. V1HealthPoints["apps"] = DocCounts \cup DocLists \cup more
      BY DEF V1HealthPoints
    <3> QED BY <2>3, <3>1, <3>2, <3>3, <3>4
  <2>4. CASE m = "cpu"
    <3>1. DOMAIN V2HealthPoints["cpu"] = V1HealthPoints["cpu"]
      BY FieldsOf DEF V1HealthPoints, V2HealthPoints
    <3>2. DOMAIN V3HealthPoints["cpu"] = V1HealthPoints["cpu"]
      BY FieldsOf DEF V1HealthPoints, V3HealthPoints
    <3>3. DOMAIN V1Schema["cpu"] = V1HealthPoints["cpu"]
      BY FieldsOf DEF V1HealthPoints, V1Schema
    <3> QED BY <2>4, <3>1, <3>2, <3>3
  <2>5. CASE m = "session"
    <3>1. DOMAIN V2HealthPoints["session"] = V1HealthPoints["session"]
      BY FieldsOf DEF V1HealthPoints, V2HealthPoints
    <3>2. DOMAIN V3HealthPoints["session"] = V1HealthPoints["session"]
      BY FieldsOf DEF V1HealthPoints, V3HealthPoints
    <3>3. DOMAIN V1Schema["session"] = V1HealthPoints["session"]
      BY FieldsOf DEF V1HealthPoints, V1Schema
    <3> QED BY <2>5, <3>1, <3>2, <3>3
  <2>6. CASE m = "users"
    <3>1. DOMAIN V2HealthPoints["users"] = V1HealthPoints["users"]
      BY FieldsOf DEF V1HealthPoints, V2HealthPoints
    <3>2. DOMAIN V3HealthPoints["users"] = V1HealthPoints["users"]
      BY FieldsOf DEF V1HealthPoints, V3HealthPoints
    <3>3. DOMAIN V1Schema["users"] = V1HealthPoints["users"]
      BY FieldsOf DEF V1HealthPoints, V1Schema
    <3> QED BY <2>6, <3>1, <3>2, <3>3
  <2>7. CASE m = "cache"
    <3>1. DOMAIN V2HealthPoints["cache"] = V1HealthPoints["cache"]
      BY FieldsOf DEF V1HealthPoints, V2HealthPoints
    <3>2. DOMAIN V3HealthPoints["cache"] = V1HealthPoints["cache"]
      BY FieldsOf DEF V1HealthPoints, V3HealthPoints
    <3>3. DOMAIN V1Schema["cache"] = V1HealthPoints["cache"]
      BY FieldsOf DEF V1HealthPoints, V1Schema
    <3> QED BY <2>7, <3>1, <3>2, <3>3
  <2>8. CASE m = "saturated"
    <3>1. DOMAIN V2HealthPoints["saturated"] = V1HealthPoints["saturated"]
      BY FieldsOf DEF V1HealthPoints, V2HealthPoints
    <3>2. DOMAIN V3HealthPoints["saturated"] = V1HealthPoints["saturated"]
      BY FieldsOf DEF V1HealthPoints, V3HealthPoints
    <3> QED BY <2>8, <3>1, <3>2
  <2> QED BY <2>1, <2>2, <2>3, <2>4, <2>5, <2>6, <2>7, <2>8 DEF Measurements
<1> QED BY <1>1, <1>2, <1>3 DEF FieldNames

LEMMA SameNumbers ==
    /\ MqttNumbers = PrometheusNumbers
    /\ NewRelicNumbers(NewRelicGroups) = PrometheusNumbers
<1>1. MqttNumbers = PrometheusNumbers
  BY DEF MqttNumbers, PrometheusNumbers
<1>2. NewRelicNumbers(NewRelicGroups) = PrometheusNumbers
  BY DEF NewRelicNumbers, NewRelicGroups, PrometheusNumbers
<1> QED BY <1>1, <1>2

LEMMA SchemaFits ==
    ASSUME NEW tags
    PROVE  /\ \A m \in DOMAIN V1Schema \cap DOMAIN V1HealthPoints :
                 /\ V1HealthPoints[m] = DOMAIN V1Schema[m]
                 /\ ServerTags(tags) \subseteq V1SchemaTags(m, tags)
           /\ \A m \in DOMAIN V1Schema \cap DOMAIN SessionPoints(1) :
                 /\ SessionPoints(1)[m] \subseteq DOMAIN V1Schema[m]
                 /\ SessionPointTags(1, tags) \subseteq V1SchemaTags(m, tags)
           /\ MemoryFields = DOMAIN V1Schema["butlersos_memory_usage"]
<1>1. ASSUME NEW m \in DOMAIN V1Schema \cap DOMAIN V1HealthPoints
      PROVE  V1HealthPoints[m] = DOMAIN V1Schema[m] /\ ServerTags(tags) \subseteq V1SchemaTags(m, tags)
  <2>1. m \in {"sense_server", "mem", "apps", "cpu", "session", "users", "cache"}
    BY DEF V1Schema, V1HealthPoints
  <2>2. V1HealthPoints[m] = DOMAIN V1Schema[m]
    BY <2>1, SameFields DEF Measurements
  <2>3. V1SchemaTags(m, tags) = ServerTags(tags)
    BY <2>1 DEF V1SchemaTags
  <2> QED BY <2>2, <2>3
<1>2. ASSUME NEW m \in DOMAIN V1Schema \cap DOMAIN SessionPoints(1)
      PROVE  /\ SessionPoints(1)[m] \subseteq DOMAIN V1Schema[m]
             /\ SessionPointTags(1, tags) \subseteq V1SchemaTags(m, tags)
  <2>1. m \in {"user_session_summary", "user_session_list"}
    BY DEF V1Schema, SessionPoints
  <2>2. SessionPoints(1)[m] \subseteq DOMAIN V1Schema[m]
    <3>1. DOMAIN V1Schema["user_session_summary"] = {"session_count"} \cup {"session_user_id_list"}
      BY FieldsOf DEF V1Schema
    <3>2. DOMAIN V1Schema["user_session_list"] = {"session_user_id_list"}
      BY FieldsOf DEF V1Schema
    <3> QED BY <2>1, <3>1, <3>2 DEF SessionPoints
  <2>3. V1SchemaTags(m, tags) = ServerTags(tags) \cup ProxyTags
    BY <2>1 DEF V1SchemaTags
  <2> QED BY <2>2, <2>3 DEF SessionPointTags
<1>3. MemoryFields = DOMAIN V1Schema["butlersos_memory_usage"]
  BY FieldsOf DEF V1Schema
<1> QED BY <1>1, <1>2, <1>3

\* A reading leaves the same facts wherever it is kept, for any tags of the servers
\* (DestinationsAgree).
THEOREM AllDestinationsAgree == Spec => []DestinationsAgree
<1>1. DestinationsAgree
  <2>1. /\ ServerTags(settings.tags) \subseteq PrometheusLabels({settings})
        /\ SessionPointTags(1, settings.tags) \subseteq PrometheusSessionLabels({settings})
    BY DEF PrometheusLabels, PrometheusSessionLabels, SessionPointTags
  <2> QED BY <2>1, SameFields, SameNumbers, SchemaFits DEF DestinationsAgree, FieldNames
<1> QED BY <1>1, PTL
=============================================================================
