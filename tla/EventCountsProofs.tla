------------------------- MODULE EventCountsProofs -------------------------
(***************************************************************************)
(* Proofs about EventCounts, for any events, any number of timer callbacks *)
(* and any settings: in version 1 nothing that was counted between firings *)
(* is cleared unreported, in versions 2 and 3 nothing is in the points of  *)
(* two writes while callbacks do not overlap.                              *)
(***************************************************************************)
EXTENDS EventCounts, FiniteSetTheorems, TLAPS

Location == {"idle", "getUser", "buildCounts", "writeCounts", "getRejected", "buildRejected",
             "writeRejected", "clearRejected", "clearLog", "clearUser"}

\* Types, as far as the proofs need them.
CountTypes ==
    /\ config \in Configs
    /\ unseen \subseteq Events /\ live \subseteq Events
    /\ at \in [Firings -> Location]
    /\ holds \in [Firings -> SUBSET Kind]
    /\ detached \in [Firings -> SUBSET Events]
    /\ points \in [Firings -> SUBSET Events]

\* A firing is past the writes of log and user events, or of rejected events, or has
\* them in the points it is writing.
PastCounts == {"getRejected", "buildRejected", "writeRejected",
               "clearRejected", "clearLog", "clearUser"}
PastRejected == {"clearRejected", "clearLog", "clearUser"}

\* The arrays a firing has been given at its locations.
Given(l) == CASE l = "getUser"       -> {"log"}
              [] l = "buildCounts"   -> {"log", "user"}
              [] l = "buildRejected" -> {"rejected"}
              [] OTHER               -> {}

\* The inductive invariant for version 1, about the events counted while no firing was
\* under way.  Whoever clears has reported; and an event that is still live is in the
\* very arrays the firings hold, none of which has been replaced since.
IdleEvents == (Events \ unseen) \ during
Survival ==
    config.version = 1 =>
        \A e \in IdleEvents :
            /\ e \notin live => e \in reported
            /\ \A f \in Firings :
                  /\ e \in LogEvents \cup UserEvents =>
                        /\ at[f] \in PastCounts => e \in reported
                        /\ at[f] = "writeCounts" => e \in reported \cup points[f]
                  /\ e \in RejectedEvents =>
                        /\ at[f] \in PastRejected => e \in reported
                        /\ at[f] = "writeRejected" => e \in reported \cup points[f]
                  /\ \A k \in Given(at[f]) :
                        e \in live /\ e \in EventsOf[k] => k \in holds[f]

\* What may be in a counter although it has been written, while the one firing is
\* where it is: what it has written and is still to clear.
Unclear(l) == CASE l = "clearRejected" -> Events
                [] l = "clearUser"     -> UserEvents
                [] l \in {"getRejected", "buildRejected", "writeRejected", "clearLog"} ->
                        LogEvents \cup UserEvents
                [] OTHER -> {}

\* The inductive invariant for versions 2 and 3 with one callback at a time.
Once ==
    config.version # 1 /\ config.atOnce = 1 =>
        /\ rewritten = {}
        /\ \A f, g \in Firings : at[f] # "idle" /\ at[g] # "idle" => f = g
        /\ (live \cup written) \cap unseen = {}
        /\ ~config.eventCount => live \subseteq RejectedEvents
        /\ (\A f \in Firings : at[f] = "idle") => live \cap written = {}
        /\ \A f \in Firings :
              /\ at[f] # "idle" => live \cap written \subseteq Unclear(at[f])
              /\ detached[f] = {}
              /\ holds[f] \subseteq Given(at[f])
              /\ points[f] \cap (written \cup unseen) = {}
              /\ points[f] # {} => at[f] \in {"writeCounts", "writeRejected"}
              /\ at[f] = "writeCounts" => points[f] \subseteq LogEvents \cup UserEvents

IInv == CountTypes /\ Survival /\ Once

-----------------------------------------------------------------------------
(* Kinds, and types.                                                       *)

LEMMA KindEvents ==
    /\ EventsOf["log"] = LogEvents
    /\ EventsOf["user"] = UserEvents
    /\ EventsOf["rejected"] = RejectedEvents
BY DEF EventsOf, Kind

LEMMA KindsApart ==
    /\ LogEvents \cap UserEvents = {}
    /\ LogEvents \cap RejectedEvents = {}
    /\ UserEvents \cap RejectedEvents = {}
<1>1. "log" \in Kind /\ "user" \in Kind /\ "rejected" \in Kind
    BY DEF Kind
<1>. QED  BY <1>1, KindEvents, EventCountsAssumption DEF EventCountsAssumption

\* Clear, as its effect on the firings.
LEMMA ClearTypes ==
    ASSUME CountTypes, NEW k \in Kind, Clear(k)
    PROVE  /\ live' \subseteq Events /\ holds' \in [Firings -> SUBSET Kind]
           /\ detached' \in [Firings -> SUBSET Events] /\ UNCHANGED <<config, unseen, points>>
BY DEF CountTypes, Clear

LEMMA TypesNext == CountTypes /\ [Next]_vars => CountTypes'
<1>. SUFFICES ASSUME CountTypes, [Next]_vars  PROVE CountTypes'
    OBVIOUS
<1>. USE DEF CountTypes
<1>1. ASSUME NEW e \in Events, Count(e)  PROVE CountTypes'
    BY <1>1 DEF Count
<1>2. ASSUME NEW f \in Firings, Fire(f)  PROVE CountTypes'
    BY <1>2 DEF Fire, Goto, Hold, Location, Kind
<1>3. ASSUME NEW f \in Firings, Resume(f)  PROVE CountTypes'
    <2>1. CASE GetUserEvents(f) \/ GetRejectedLogEvents(f)
        BY <2>1 DEF GetUserEvents, GetRejectedLogEvents, Goto, Hold, Location, Kind
    <2>2. CASE BuildCounts(f) \/ BuildRejected(f)
        <3>1. Held(f) \in SUBSET Events
            BY <1>3 DEF Held
        <3>. HIDE DEF Held
        <3>. QED  BY <2>2, <3>1 DEF BuildCounts, BuildRejected, TakePoints, Goto, Location
    <2>3. CASE WriteSucceeds(f) \/ WriteFailsV1(f) \/ WriteFailsV2V3(f)
        BY <2>3 DEF WriteSucceeds, WriteFailsV1, WriteFailsV2V3, Fails, EndWrite, Goto, AfterWrite,
                     Location
    <2>4. CASE ClearRejectedEvents(f) \/ ClearLogEvents(f) \/ ClearUserEvents(f)
        <3>1. PICK k \in Kind : Clear(k)
            BY <2>4 DEF ClearRejectedEvents, ClearLogEvents, ClearUserEvents, Kind
        <3>2. at' \in [Firings -> Location]
            BY <2>4 DEF ClearRejectedEvents, ClearLogEvents, ClearUserEvents, Goto, Location
        <3>. QED  BY <3>1, <3>2, ClearTypes
    <2>. QED  BY <1>3, <2>1, <2>2, <2>3, <2>4 DEF Resume
<1>4. CASE UNCHANGED vars
    BY <1>4 DEF vars
<1>. QED
    BY <1>1, <1>2, <1>3, <1>4 DEF Next, AddLogEvent, AddUserEvent, AddRejectedLogEvent

-----------------------------------------------------------------------------
(* Version 1.                                                              *)

LEMMA SurvivalClear ==
    ASSUME CountTypes, Survival, NEW f \in Firings, NEW k \in Kind, Clear(k), NEW l, Goto(f, l),
           UNCHANGED reported,
           \/ k = "rejected" /\ at[f] = "clearRejected" /\ l \in {"clearLog", "idle"}
           \/ k = "log" /\ at[f] = "clearLog" /\ l = "clearUser"
           \/ k = "user" /\ at[f] = "clearUser" /\ l = "idle"
    PROVE  Survival'
<1>. SUFFICES ASSUME config.version = 1, NEW e \in IdleEvents
              PROVE  /\ e \notin live' => e \in reported
                     /\ \A g \in Firings :
                           /\ e \in LogEvents \cup UserEvents =>
                                 /\ at'[g] \in PastCounts => e \in reported
                                 /\ at'[g] = "writeCounts" => e \in reported \cup points[g]
                           /\ e \in RejectedEvents =>
                                 /\ at'[g] \in PastRejected => e \in reported
                                 /\ at'[g] = "writeRejected" => e \in reported \cup points[g]
                           /\ \A j \in Given(at'[g]) :
                                 e \in live' /\ e \in EventsOf[j] => j \in holds'[g]
    BY DEF Survival, IdleEvents, Clear
<1>1. e \notin live' => e \in reported
    BY KindEvents DEF Survival, PastCounts, PastRejected, Clear, CountTypes
<1>2. ASSUME NEW g \in Firings
      PROVE  /\ e \in LogEvents \cup UserEvents =>
                   /\ at'[g] \in PastCounts => e \in reported
                   /\ at'[g] = "writeCounts" => e \in reported \cup points[g]
             /\ e \in RejectedEvents =>
                   /\ at'[g] \in PastRejected => e \in reported
                   /\ at'[g] = "writeRejected" => e \in reported \cup points[g]
    <2>1. CASE g = f
        BY <2>1 DEF Survival, PastCounts, PastRejected, CountTypes, Goto
    <2>2. CASE g # f
        BY <2>2 DEF Survival, CountTypes, Goto
    <2>. QED  BY <2>1, <2>2
<1>3. ASSUME NEW g \in Firings, NEW j \in Given(at'[g]), e \in live', e \in EventsOf[j]
      PROVE  j \in holds'[g]
    <2>1. g # f /\ at'[g] = at[g]
        BY <1>3 DEF Given, Goto, CountTypes
    <2>2. j \in holds[g] /\ j # k
        BY <1>3, <2>1 DEF Survival, Clear
    <2>. QED  BY <2>2 DEF Clear
<1>. QED  BY <1>1, <1>2, <1>3

LEMMA SurvivalNext == CountTypes /\ Survival /\ [Next]_vars => Survival'
<1>. SUFFICES ASSUME CountTypes, Survival, [Next]_vars  PROVE Survival'
    OBVIOUS
<1>1. ASSUME NEW e \in Events, Count(e)  PROVE Survival'
    <2>. SUFFICES ASSUME config.version = 1  PROVE Survival'
        BY <1>1 DEF Survival, Count
    <2>1. CASE Idle = Firings
        <3>1. \A g \in Firings : at[g] = "idle"
            BY <2>1 DEF Idle
        <3>. QED
            BY <1>1, <2>1, <3>1 DEF Survival, Count, IdleEvents, PastCounts, PastRejected, Given
    <2>2. CASE Idle # Firings
        BY <1>1, <2>2 DEF Survival, Count, IdleEvents
    <2>. QED  BY <2>1, <2>2
<1>2. ASSUME NEW f \in Firings, NEW l, NEW k, Goto(f, l), Hold(f, k),
             Given(l) \subseteq Given(at[f]) \cup {k},
             l \in PastCounts => at[f] \in PastCounts,
             l \notin {"writeCounts", "writeRejected"} \cup PastRejected,
             UNCHANGED <<config, unseen, live, points, reported, during>>
      PROVE  Survival'
    BY <1>2 DEF Survival, IdleEvents, Goto, Hold, CountTypes
<1>3. ASSUME NEW f \in Firings, Fire(f)  PROVE Survival'
    <2>. SUFFICES ASSUME config.version = 1  PROVE Survival'
        BY <1>3 DEF Survival, Fire
    <2>1. Goto(f, "getUser") /\ Hold(f, "log")
        BY <1>3 DEF Fire
    <2>. QED  BY <1>2, <1>3, <2>1 DEF Fire, Given, PastCounts, PastRejected
<1>4. ASSUME NEW f \in Firings, Resume(f)  PROVE Survival'
    <2>1. CASE GetUserEvents(f)
        BY <1>2, <2>1 DEF GetUserEvents, Given, PastCounts, PastRejected
    <2>2. CASE GetRejectedLogEvents(f)
        BY <1>2, <2>2 DEF GetRejectedLogEvents, Given, PastCounts, PastRejected
    <2>3. CASE BuildCounts(f)
        BY <2>3, KindEvents DEF BuildCounts, TakePoints, Goto, Held, Survival, IdleEvents, Given,
                                PastCounts, PastRejected, CountTypes
    <2>4. CASE BuildRejected(f)
        BY <2>4, KindEvents DEF BuildRejected, TakePoints, Goto, Held, Survival, IdleEvents, Given,
                                PastCounts, PastRejected, CountTypes
    <2>5. CASE WriteSucceeds(f)
        BY <2>5 DEF WriteSucceeds, EndWrite, AfterWrite, Goto, Survival, IdleEvents, Given,
                    PastCounts, PastRejected, CountTypes
    <2>6. CASE WriteFailsV1(f)
        BY <2>6 DEF WriteFailsV1, Fails, EndWrite, Goto, Survival, IdleEvents, Given,
                    PastCounts, PastRejected, CountTypes
    <2>7. CASE WriteFailsV2V3(f)
        BY <2>7 DEF WriteFailsV2V3, Fails, EndWrite, Survival
    <2>8. CASE ClearRejectedEvents(f)
        BY <2>8, SurvivalClear DEF ClearRejectedEvents, Clear, Kind
    <2>9. CASE ClearLogEvents(f)
        BY <2>9, SurvivalClear DEF ClearLogEvents, Clear, Kind
    <2>10. CASE ClearUserEvents(f)
        BY <2>10, SurvivalClear DEF ClearUserEvents, Clear, Kind
    <2>. QED
        BY <1>4, <2>1, <2>2, <2>3, <2>4, <2>5, <2>6, <2>7, <2>8, <2>9, <2>10 DEF Resume
<1>5. CASE UNCHANGED vars
    BY <1>5 DEF vars, Survival, IdleEvents
<1>. QED
    BY <1>1, <1>3, <1>4, <1>5 DEF Next, AddLogEvent, AddUserEvent, AddRejectedLogEvent

-----------------------------------------------------------------------------
(* Versions 2 and 3, one callback at a time.                               *)

Alone == config.version # 1 /\ config.atOnce = 1

\* A callback that is under way is the only one.
LEMMA OthersIdle ==
    ASSUME CountTypes, Once, Alone, NEW f \in Firings, at[f] # "idle"
    PROVE  \A g \in Firings \ {f} : at[g] = "idle"
BY DEF Once, Alone

\* The timer fires only when nothing is under way.
LEMMA FireAlone ==
    ASSUME CountTypes, Alone, NEW f \in Firings, Fire(f)
    PROVE  \A g \in Firings : at[g] = "idle"
<1>. DEFINE Active == Firings \ Idle
<1>1. IsFiniteSet(Active)
    BY EventCountsAssumption, FS_Subset DEF EventCountsAssumption
<1>2. Cardinality(Active) < 1 /\ Cardinality(Active) \in Nat
    BY <1>1, FS_CardinalityType DEF Fire, Alone
<1>3. Cardinality(Active) = 0
    BY <1>2
<1>4. Active = {}
    BY <1>1, <1>3, FS_EmptySet
<1>. QED  BY <1>4 DEF Idle

\* What is asked of the one callback under way, apart from what was written before.
Lone(f) ==
    /\ at[f] # "idle" => live \cap written \subseteq Unclear(at[f])
    /\ detached[f] = {}
    /\ holds[f] \subseteq Given(at[f])
    /\ points[f] \cap (written \cup unseen) = {}
    /\ points[f] # {} => at[f] \in {"writeCounts", "writeRejected"}
    /\ at[f] = "writeCounts" => points[f] \subseteq LogEvents \cup UserEvents

Shared ==
    /\ rewritten = {}
    /\ (live \cup written) \cap unseen = {}
    /\ ~config.eventCount => live \subseteq RejectedEvents

\* A step of the callback under way, with the others idle, keeps Once if it keeps what
\* is asked of that callback.
LEMMA OnceByOne ==
    ASSUME CountTypes, Once, Alone, NEW f \in Firings, NEW l \in Location,
           \A g \in Firings \ {f} : at[g] = "idle", Goto(f, l),
           \A g \in Firings \ {f} : /\ detached'[g] = detached[g]
                                    /\ holds'[g] \subseteq holds[g]
                                    /\ points'[g] = points[g],
           UNCHANGED config, Shared', Lone(f)',
           l = "idle" => live' \cap written' = {}
    PROVE  Once'
<1>. USE DEF Once, Alone
<1>1. at'[f] = l /\ \A g \in Firings \ {f} : at'[g] = "idle"
    BY DEF Goto, CountTypes
<1>2. \A g, h \in Firings : at'[g] # "idle" /\ at'[h] # "idle" => g = h
    BY <1>1
<1>3. (\A g \in Firings : at'[g] = "idle") => live' \cap written' = {}
    BY <1>1
<1>4. \A g \in Firings \ {f} : /\ detached'[g] = {} /\ holds'[g] \subseteq Given(at'[g])
                               /\ points'[g] = {}
    BY <1>1
<1>5. \A g \in Firings \ {f} : Lone(g)'
    BY <1>1, <1>4 DEF Lone
<1>. QED  BY <1>2, <1>3, <1>5 DEF Lone, Shared

LEMMA OnceWrite ==
    ASSUME CountTypes, Once, Alone, NEW f \in Firings, at[f] \in {"writeCounts", "writeRejected"},
           Goto(f, AfterWrite(at[f])), NEW S, EndWrite(f, S)
    PROVE  Once'
<1>1. \A g \in Firings \ {f} : at[g] = "idle"
    BY OthersIdle
<1>2. AfterWrite(at[f]) \in Location \ {"idle"} /\ at'[f] = AfterWrite(at[f])
    BY DEF AfterWrite, Location, Goto, CountTypes
<1>3. written \cap points[f] = {} /\ points[f] \cap unseen = {} /\ points[f] \subseteq Events
    BY DEF Once, Alone, CountTypes
<1>4. Shared'
    BY <1>3 DEF Shared, Once, Alone, EndWrite
<1>5. live' \cap written' \subseteq Unclear(at'[f])
    <2>1. CASE at[f] = "writeCounts"
        <3>1. points[f] \subseteq LogEvents \cup UserEvents /\ live \cap written = {}
            BY <2>1 DEF Once, Alone, Unclear
        <3>2. Unclear(at'[f]) = LogEvents \cup UserEvents
            BY <1>2, <2>1 DEF AfterWrite, Unclear
        <3>. QED  BY <3>1, <3>2 DEF EndWrite
    <2>2. CASE at[f] = "writeRejected"
        <3>1. Unclear(at'[f]) = Events
            BY <1>2, <2>2 DEF AfterWrite, Unclear
        <3>. QED  BY <3>1 DEF CountTypes, EndWrite
    <2>. QED  BY <2>1, <2>2
<1>6. detached[f] = {} /\ holds[f] = {}
    BY DEF Once, Alone, Given
<1>7. Lone(f)'
    BY <1>2, <1>5, <1>6 DEF Lone, CountTypes, AfterWrite, EndWrite
<1>. QED  BY <1>1, <1>2, <1>4, <1>7, OnceByOne DEF CountTypes, EndWrite

LEMMA OnceClear ==
    ASSUME CountTypes, Once, Alone, NEW f \in Firings, at[f] # "idle", NEW k \in Kind, Clear(k),
           NEW l \in Location, Goto(f, l), UNCHANGED <<config, written, rewritten>>,
           Given(at[f]) = {}, Given(l) = {}, l \notin {"writeCounts", "writeRejected"},
           points[f] = {},
           l # "idle" => live' \cap written \subseteq Unclear(l),
           l = "idle" => live' \cap written = {}
    PROVE  Once'
<1>1. \A g \in Firings \ {f} : at[g] = "idle"
    BY OthersIdle
<1>2. at'[f] = l
    BY DEF Goto, CountTypes
<1>3. \A g \in Firings : holds[g] = {} /\ detached[g] = {}
    BY <1>1 DEF Once, Alone, Given
<1>4. \A g \in Firings : holds'[g] = {} /\ detached'[g] = {}
    BY <1>3 DEF Clear
<1>5. Shared'
    BY DEF Shared, Once, Alone, Clear
<1>6. Lone(f)'
    BY <1>2, <1>4 DEF Lone, Clear
<1>. QED  BY <1>1, <1>3, <1>4, <1>5, <1>6, OnceByOne DEF Clear

LEMMA OnceNext == CountTypes /\ Once /\ [Next]_vars => Once'
<1>. SUFFICES ASSUME CountTypes, Once, [Next]_vars  PROVE Once'
    OBVIOUS
<1>0. UNCHANGED config
    BY DEF Next, vars, AddLogEvent, AddUserEvent, AddRejectedLogEvent, Count, Fire, Resume,
           GetUserEvents, GetRejectedLogEvents, BuildCounts, BuildRejected, TakePoints,
           WriteSucceeds, WriteFailsV1, WriteFailsV2V3, Fails, EndWrite, ClearRejectedEvents,
           ClearLogEvents, ClearUserEvents, Clear
<1>. SUFFICES ASSUME Alone  PROVE Once'
    BY <1>0 DEF Once, Alone
<1>1. ASSUME NEW e \in Events, AddLogEvent(e) \/ AddUserEvent(e) \/ AddRejectedLogEvent(e)
      PROVE  Once'
    <2>1. /\ e \in unseen /\ unseen' = unseen \ {e} /\ live' = live \cup {e}
          /\ UNCHANGED <<config, at, holds, detached, points, written, rewritten>>
        BY <1>1 DEF AddLogEvent, AddUserEvent, AddRejectedLogEvent, Count
    <2>2. e \notin written
        BY <2>1 DEF Once, Alone
    <2>3. config.eventCount \/ e \in RejectedEvents
        BY <1>1 DEF AddLogEvent, AddUserEvent, AddRejectedLogEvent
    <2>. QED  BY <2>1, <2>2, <2>3 DEF Once, Alone
<1>2. ASSUME NEW f \in Firings, Fire(f)  PROVE Once'
    <2>1. \A g \in Firings : at[g] = "idle"
        BY <1>2, FireAlone
    <2>2. PICK l \in {"getUser", "getRejected"} :
              /\ Goto(f, l)
              /\ \/ l = "getUser" /\ Hold(f, "log")
                 \/ l = "getRejected" /\ UNCHANGED holds
        BY <1>2 DEF Fire
    <2>3. UNCHANGED <<config, unseen, live, detached, points, written, rewritten>>
        BY <1>2 DEF Fire
    <2>4. live \cap written = {} /\ holds[f] = {}
        BY <2>1 DEF Once, Alone, Given
    <2>5. Lone(f)'
        BY <2>1, <2>2, <2>3, <2>4 DEF Lone, Once, Alone, Goto, Hold, Given, CountTypes
    <2>6. Shared'
        BY <2>3 DEF Shared, Once, Alone
    <2>7. \A g \in Firings \ {f} : holds'[g] \subseteq holds[g]
        BY <2>2 DEF Hold, CountTypes
    <2>. QED  BY <2>1, <2>2, <2>3, <2>5, <2>6, <2>7, OnceByOne DEF Location
<1>3. ASSUME NEW f \in Firings, Resume(f)  PROVE Once'
    <2>0. at[f] # "idle" /\ \A g \in Firings \ {f} : at[g] = "idle"
        <3>1. at[f] # "idle"
            BY <1>3 DEF Resume, GetUserEvents, GetRejectedLogEvents, BuildCounts, BuildRejected,
                        WriteSucceeds, WriteFailsV1, WriteFailsV2V3, Fails, EndWrite,
                        ClearRejectedEvents, ClearLogEvents, ClearUserEvents
        <3>. QED  BY <3>1, OthersIdle
    <2>1. CASE GetUserEvents(f) \/ GetRejectedLogEvents(f)
        <3>1. PICK l \in {"buildCounts", "buildRejected"}, k \in {"user", "rejected"} :
                  /\ Goto(f, l) /\ Hold(f, k) /\ Given(l) = Given(at[f]) \cup {k}
                  /\ Unclear(l) = Unclear(at[f])
                  /\ UNCHANGED <<config, unseen, live, detached, points, written, rewritten>>
                  /\ points[f] = {}
            BY <2>1 DEF GetUserEvents, GetRejectedLogEvents, Given, Unclear, Once, Alone
        <3>2. Lone(f)'
            BY <2>0, <3>1 DEF Lone, Once, Alone, Goto, Hold, CountTypes
        <3>3. Shared'
            BY <3>1 DEF Shared, Once, Alone
        <3>4. \A g \in Firings \ {f} : holds'[g] \subseteq holds[g]
            BY <3>1 DEF Hold, CountTypes
        <3>. QED  BY <2>0, <3>1, <3>2, <3>3, <3>4, OnceByOne DEF Location
    <2>2. CASE BuildCounts(f) \/ BuildRejected(f)
        <3>1. PICK l \in {"getRejected", "writeCounts", "clearRejected", "writeRejected"} :
                  /\ Goto(f, l)
                  /\ l \in {"getRejected", "writeCounts"} <=> BuildCounts(f)
                  /\ Held(f) # {} => l \in {"writeCounts", "writeRejected"}
            BY <2>2 DEF BuildCounts, BuildRejected
        <3>2. TakePoints(f, Held(f))
            BY <2>2 DEF BuildCounts, BuildRejected
        <3>3. /\ Held(f) \subseteq live /\ Held(f) \cap written = {}
              /\ BuildCounts(f) => /\ Held(f) \subseteq LogEvents \cup UserEvents
                                   /\ live \cap written = {}
              /\ ~BuildCounts(f) => live \cap written \subseteq LogEvents \cup UserEvents
            <4>1. CASE BuildCounts(f)
                <5>1. holds[f] \subseteq {"log", "user"} /\ detached[f] = {}
                      /\ live \cap written = {}
                    BY <4>1 DEF BuildCounts, Once, Alone, Given, Unclear
                <5>. QED  BY <4>1, <5>1, KindEvents DEF Held
            <4>2. CASE BuildRejected(f)
                <5>1. holds[f] \subseteq {"rejected"} /\ detached[f] = {}
                      /\ live \cap written \subseteq LogEvents \cup UserEvents
                    BY <4>2 DEF BuildRejected, Once, Alone, Given, Unclear
                <5>2. Held(f) \subseteq live /\ Held(f) \subseteq RejectedEvents
                    BY <5>1, KindEvents DEF Held
                <5>3. ~BuildCounts(f)
                    BY <4>2 DEF BuildCounts, BuildRejected
                <5>. QED  BY <5>1, <5>2, <5>3, KindsApart
            <4>. QED  BY <2>2, <4>1, <4>2
        <3>. HIDE DEF Held
        <3>4. live \cap written \subseteq Unclear(l)
            BY <3>1, <3>3 DEF Unclear, CountTypes
        <3>5. Lone(f)'
            BY <2>0, <3>1, <3>2, <3>3, <3>4 DEF Lone, Once, Alone, Goto, TakePoints, CountTypes
        <3>6. Shared'
            BY <3>2 DEF Shared, Once, Alone, TakePoints
        <3>7. \A g \in Firings \ {f} :
                  UNCHANGED <<holds[g], detached[g], points[g]>>
            BY <3>2 DEF TakePoints, CountTypes
        <3>. QED  BY <2>0, <3>1, <3>2, <3>5, <3>6, <3>7, OnceByOne DEF Location, TakePoints
    <2>3. CASE WriteSucceeds(f)
        BY <2>3, OnceWrite DEF WriteSucceeds, EndWrite
    <2>4. CASE WriteFailsV1(f)
        BY <2>4 DEF WriteFailsV1, Alone
    <2>5. CASE WriteFailsV2V3(f)
        BY <2>5, OnceWrite DEF WriteFailsV2V3, Fails, EndWrite
    <2>6. CASE ClearRejectedEvents(f)
        <3>1. /\ at[f] = "clearRejected" /\ Clear("rejected") /\ points[f] = {}
              /\ live' = live \ RejectedEvents /\ UNCHANGED <<config, written, rewritten>>
            BY <2>6, KindEvents DEF ClearRejectedEvents, Clear, Once, Alone
        <3>2. live' \cap written \subseteq LogEvents \cup UserEvents
            BY <3>1 DEF CountTypes, Events
        <3>3. CASE config.eventCount
            <4>1. Goto(f, "clearLog")
                BY <2>6, <3>3 DEF ClearRejectedEvents
            <4>. QED  BY <3>1, <3>2, <4>1, OnceClear DEF Given, Unclear, Kind, Location
        <3>4. CASE ~config.eventCount
            <4>1. Goto(f, "idle") /\ live' \cap written = {}
                BY <2>6, <3>1, <3>4 DEF ClearRejectedEvents, Once, Alone
            <4>. QED  BY <3>1, <4>1, OnceClear DEF Given, Kind, Location
        <3>. QED  BY <3>3, <3>4
    <2>7. CASE ClearLogEvents(f)
        <3>1. /\ at[f] = "clearLog" /\ Clear("log") /\ points[f] = {} /\ Goto(f, "clearUser")
              /\ live' = live \ LogEvents /\ UNCHANGED <<config, written, rewritten>>
            BY <2>7, KindEvents DEF ClearLogEvents, Clear, Once, Alone
        <3>2. live' \cap written \subseteq UserEvents
            BY <3>1 DEF Once, Alone, Unclear
        <3>. QED  BY <3>1, <3>2, OnceClear DEF Given, Unclear, Kind, Location
    <2>8. CASE ClearUserEvents(f)
        <3>1. /\ at[f] = "clearUser" /\ Clear("user") /\ points[f] = {} /\ Goto(f, "idle")
              /\ live' = live \ UserEvents /\ UNCHANGED <<config, written, rewritten>>
            BY <2>8, KindEvents DEF ClearUserEvents, Clear, Once, Alone
        <3>2. live' \cap written = {}
            BY <3>1 DEF Once, Alone, Unclear
        <3>. QED  BY <3>1, <3>2, OnceClear DEF Given, Kind, Location
    <2>. QED
        BY <1>3, <2>1, <2>2, <2>3, <2>4, <2>5, <2>6, <2>7, <2>8 DEF Resume
<1>4. CASE UNCHANGED vars
    BY <1>4 DEF vars, Once
<1>. QED  BY <1>1, <1>2, <1>3, <1>4 DEF Next

-----------------------------------------------------------------------------
(* The theorems.                                                           *)

LEMMA IInvInit == Init => IInv
<1>. SUFFICES ASSUME Init  PROVE IInv
    OBVIOUS
<1>1. CountTypes
    BY DEF Init, CountTypes, Location
<1>2. Survival
    BY DEF Init, Survival, IdleEvents
<1>3. Once
    BY DEF Init, Once
<1>. QED  BY <1>1, <1>2, <1>3 DEF IInv

THEOREM InvariantHolds == Spec => []IInv
<1>1. IInv /\ [Next]_vars => IInv'
    BY TypesNext, SurvivalNext, OnceNext DEF IInv
<1>. QED  BY <1>1, IInvInit, PTL DEF Spec

\* In version 1 an event that was counted while no firing was under way is never
\* cleared without being in a point, however firings overlap and writes fail.
THEOREM IdleCountsAlwaysSurvive == Spec => []IdleCountsSurvive
<1>1. IInv => IdleCountsSurvive
    BY DEF IInv, Survival, IdleCountsSurvive, IdleEvents, Cleared
<1>. QED  BY <1>1, InvariantHolds, PTL

\* In versions 2 and 3, with one callback at a time, no event is in the points of two
\* writes, however counting falls between the reads, the writes and the three clears.
\* (A write is a whole call of the batch writer.)
THEOREM NothingIsWrittenTwice == Spec => []WrittenOnce
<1>1. IInv => WrittenOnce
    BY DEF IInv, Once, WrittenOnce
<1>. QED  BY <1>1, InvariantHolds, PTL
=============================================================================
