------------------------------ MODULE Pollers ------------------------------
(***************************************************************************)
(* The timers that poll Qlik Sense: the health check of every engine, the  *)
(* sessions of every virtual proxy, and Butler SOS' own memory.  A round   *)
(* asks one target after the other and hands every reading to MQTT,        *)
(* InfluxDB and New Relic, without waiting, and to the Prometheus gauges.  *)
(*                                                                         *)
(* isCollecting skips a round while the one before is not over.  A         *)
(* target's readings are numbered in the order they were asked for.        *)
(***************************************************************************)
EXTENDS MetricPoints, Naturals, SequencesExt

CONSTANTS
    SettingsSet,  \* the settings Butler SOS may be started with
    Bodies,       \* the bodies Qlik Sense may answer with
    MaxTicks      \* bound: how often each timer fires

Collectors == {"health", "sessions"}

\* A target is an entry of the configuration: the lists of a collector's targets have
\* no entry twice and share none.
ASSUME PollersAssumption ==
    /\ MaxTicks \in Nat
    /\ \A s \in SettingsSet :
          /\ s.userAccounts \in Seq(ToSet(s.userAccounts))
          /\ s.uptimeAccounts \in Seq(ToSet(s.uptimeAccounts))
          /\ \A c \in Collectors :
                /\ s.targets[c] \in Seq(ToSet(s.targets[c]))
                /\ \A i, j \in DOMAIN s.targets[c] : s.targets[c][i] = s.targets[c][j] => i = j
                /\ \A t \in ToSet(s.targets[c]) : t.collector = c

VARIABLES
    settings,   \* the configuration file, and what initialisation left
    ticks,      \* ticks[c]: how often the timer has fired
    started,    \* started[c]: rounds begun
    rounds,     \* rounds[c]: the rounds under way: targets left, reading asked for
    readings,   \* readings[t]: how often the target was asked
    answered,   \* the readings answered with status 200, and their bodies
    sending,    \* publications under way
    received,   \* which destination has which reading
    gauge,      \* gauge[t]: the reading the Prometheus gauges show
    errors,     \* errors counted for a reading, by type
    unhandled   \* rejections nobody catches: the safety net logs them

roundVars == <<ticks, started, rounds, readings, answered>>
giveVars == <<sending, received, gauge, errors, unhandled>>
vars == <<settings, roundVars, giveVars>>

Butler == [collector |-> "uptime", server |-> "", proxy |-> ""]
NoReading == [target |-> Butler, n |-> 0]

\* What a round asks, in order: the engines, or the virtual proxies of those
\* servers whose sessions are monitored.
Targets(c) == settings.targets[c]
AllTargets(s) == UNION {ToSet(s.targets[c]) : c \in Collectors}

On(dest) == dest \in settings.destinations

Init ==
    /\ settings \in SettingsSet
    /\ ticks = [c \in Collectors \cup {"uptime"} |-> 0]
    /\ started = [c \in Collectors |-> 0]
    /\ rounds = [c \in Collectors |-> <<>>]
    /\ readings = [t \in AllTargets(settings) |-> 0]
    /\ answered = {}
    /\ sending = {}
    /\ received = {}
    /\ gauge = [t \in AllTargets(settings) |-> 0]
    /\ errors = {}
    /\ unhandled = {}

-----------------------------------------------------------------------------
(* Rounds.                                                                 *)

\* Mutant: no isCollecting.
TickMutant(c) ==
    /\ ticks[c] < MaxTicks
    /\ ticks' = [ticks EXCEPT ![c] = @ + 1]
    /\ rounds' = [rounds EXCEPT ![c] = Append(@, [left |-> Targets(c), asked |-> NoReading])]
    /\ started' = [started EXCEPT ![c] = @ + 1]
    /\ UNCHANGED <<settings, readings, answered, giveVars>>

\* The interval fires: a round begins, unless one is under way.
Tick(c) ==
    /\ ticks[c] < MaxTicks
    /\ ticks' = [ticks EXCEPT ![c] = @ + 1]
    /\ IF rounds[c] # <<>>
       THEN UNCHANGED <<rounds, started>>
       ELSE /\ rounds' = [rounds EXCEPT ![c] = <<[left |-> Targets(c), asked |-> NoReading]>>]
            /\ started' = [started EXCEPT ![c] = @ + 1]
    /\ UNCHANGED <<settings, readings, answered, giveVars>>

\* The next target of the round is asked, with a timeout; without the client
\* certificate it is passed over.
Ask(c, i) ==
    /\ rounds[c][i].asked = NoReading
    /\ rounds[c][i].left # <<>>
    /\ LET t == Head(rounds[c][i].left)
           n == readings[t] + 1
       IN  /\ rounds' = [rounds EXCEPT ![c][i] =
                            [left |-> Tail(@.left),
                             asked |-> IF settings.cert THEN [target |-> t, n |-> n]
                                       ELSE NoReading]]
           /\ readings' = IF settings.cert THEN [readings EXCEPT ![t] = n] ELSE readings
    /\ UNCHANGED <<settings, ticks, started, answered, giveVars>>

\* Mutant: without a certificate isCollecting is never given back.
EndRoundMutant(c, i) ==
    /\ rounds[c][i] = [left |-> <<>>, asked |-> NoReading]
    /\ settings.cert
    /\ rounds' = [rounds EXCEPT ![c] = RemoveAt(@, i)]
    /\ UNCHANGED <<settings, ticks, started, readings, answered, giveVars>>

\* Whatever happened in it, the round gives isCollecting back.
EndRound(c, i) ==
    /\ rounds[c][i] = [left |-> <<>>, asked |-> NoReading]
    /\ rounds' = [rounds EXCEPT ![c] = RemoveAt(@, i)]
    /\ UNCHANGED <<settings, ticks, started, readings, answered, giveVars>>

Answered(c, i) == rounds' = [rounds EXCEPT ![c][i].asked = NoReading]

-----------------------------------------------------------------------------
(* What is done with a reading.                                            *)

\* An engine's answer is an object with all sections; a proxy's a list.  "text" is
\* a page of a login form or a gateway, "object" some other JSON, "negative" a
\* health check with a counter below zero.
Expected(body) == body \in {"good", "negative"}

InfluxType == IF settings.version = 1 THEN "INFLUXDB_V1_WRITE"
              ELSE IF settings.version = 2 THEN "INFLUXDB_V2_WRITE" ELSE "INFLUXDB_V3_WRITE"

\* Version 3 looks up its write API by server for health metrics, version 2 for
\* sessions; one that initialisation has not made costs the reading, with a warning.
HasWriteApi(c) ==
    settings.writeApi \/ <<settings.version, c>> \notin {<<3, "health">>, <<2, "sessions">>}

\* Version 2 refuses a negative counter, version 3 makes it 0, version 1 takes it.
InfluxSends(c, body) ==
    /\ HasWriteApi(c)
    /\ IF c = "health"
       THEN body = "good" \/ (body = "negative" /\ settings.version # 2)
       ELSE body # "object"

\* Building the health points fails: counted in versions 1 and 2, where it happens
\* inside the try; version 3 builds them before, and version 1 throws again.
InfluxCounts(c, body) ==
    /\ c = "health"
    /\ \/ settings.version = 1 /\ ~Expected(body)
       \/ settings.version = 2 /\ body \in {"negative", "object"}

InfluxThrows(c, body) ==
    /\ c = "health"
    /\ \/ settings.version = 1 /\ ~Expected(body)
       \/ settings.version = 3 /\ body = "object"

\* New Relic takes health metrics whenever it is on, sessions if asked to; the
\* accounts of both are those of the user events.
ToNewRelic(c) == On("newRelic") /\ (c = "sessions" => settings.nrSessions)

Publication(dest, r) == [dest |-> dest, target |-> r.target, n |-> r.n, left |-> <<>>]
Publications(c, r, body) ==
    (IF On("mqtt") /\ (c = "sessions" \/ Expected(body)) THEN {Publication("mqtt", r)} ELSE {})
    \cup (IF On("influxdb") /\ InfluxSends(c, body) THEN {Publication("influxdb", r)} ELSE {})
    \cup (IF ToNewRelic(c) /\ (Expected(body) \/ (c = "sessions" /\ body = "text"))
          THEN {[Publication("newRelic", r) EXCEPT !.left = settings.userAccounts]} ELSE {})

\* A health body without its sections: publishing to MQTT and New Relic fails
\* outside their try, and nobody awaits them.
Rejections(c, body) ==
    (IF c = "health" /\ ~Expected(body) THEN {"mqtt", "newRelic"} \cap settings.destinations
     ELSE {})
    \cup (IF On("influxdb") /\ InfluxThrows(c, body) THEN {"influxdb"} ELSE {})

\* The gauges are set at once, all or, when the body lacks the sections, none.
Shows(c, body) == On("prometheus") /\ (Expected(body) \/ (c = "sessions" /\ body = "text"))

\* A proxy's answer that is no list fails after MQTT has had it.
ErrorTypes(c, body) ==
    (IF On("influxdb") /\ InfluxCounts(c, body) THEN {InfluxType} ELSE {})
    \cup (IF c = "sessions" /\ body = "object" THEN {"PROXY_API"} ELSE {})

\* Status 200: everything is handed over and the round goes on.
Answer(c, i, body) ==
    LET r == rounds[c][i].asked
    IN  /\ r # NoReading
        /\ body = "negative" => c = "health"
        /\ Answered(c, i)
        /\ answered' = answered \cup {[target |-> r.target, n |-> r.n, body |-> body]}
        /\ sending' = sending \cup Publications(c, r, body)
        /\ gauge' = IF Shows(c, body) THEN [gauge EXCEPT ![r.target] = r.n] ELSE gauge
        /\ errors' = errors \cup {[type |-> type, target |-> r.target, n |-> r.n] :
                                     type \in ErrorTypes(c, body)}
        /\ unhandled' = unhandled \cup {[dest |-> d, target |-> r.target, n |-> r.n] :
                                           d \in Rejections(c, body)}
        /\ UNCHANGED <<settings, ticks, started, readings, received>>

\* Another successful status: logged for an engine, passed over for a proxy.
AnswerWithoutBody(c, i) ==
    /\ rounds[c][i].asked # NoReading
    /\ Answered(c, i)
    /\ UNCHANGED <<settings, ticks, started, readings, answered, giveVars>>

\* Mutant: an error ends the round.
FailToAnswerMutant(c, i) ==
    LET r == rounds[c][i].asked
    IN  /\ r # NoReading
        /\ rounds' = [rounds EXCEPT ![c][i] = [left |-> <<>>, asked |-> NoReading]]
        /\ errors' = errors \cup {[type |-> "HEALTH_API", target |-> r.target, n |-> r.n]}
        /\ UNCHANGED <<settings, ticks, started, readings, answered, sending, received, gauge,
                       unhandled>>

\* An error status, no connection, or no answer within five seconds.
FailToAnswer(c, i) ==
    LET r == rounds[c][i].asked
    IN  /\ r # NoReading
        /\ Answered(c, i)
        /\ errors' = errors \cup {[type |-> IF c = "health" THEN "HEALTH_API" ELSE "PROXY_API",
                                   target |-> r.target, n |-> r.n]}
        /\ UNCHANGED <<settings, ticks, started, readings, answered, sending, received, gauge,
                       unhandled>>

\* Butler SOS' own memory and uptime, whatever became of the last one: to InfluxDB,
\* and to New Relic by a setting of its own.
UptimeTick ==
    /\ ticks["uptime"] < MaxTicks
    /\ ticks' = [ticks EXCEPT !["uptime"] = @ + 1]
    /\ LET r == [target |-> Butler, n |-> ticks["uptime"] + 1]
       IN  sending' = sending
              \cup (IF "influxdb" \in settings.uptime /\ On("influxdb")
                    THEN {Publication("influxdb", r)} ELSE {})
              \cup (IF "newRelic" \in settings.uptime
                    THEN {[Publication("newRelic", r) EXCEPT !.left = settings.uptimeAccounts]}
                    ELSE {})
    /\ UNCHANGED <<settings, started, rounds, readings, answered, received, gauge, errors,
                   unhandled>>

-----------------------------------------------------------------------------
(* The publications.                                                       *)

Settled(p) == sending' = sending \ {p}
Receives(dest, p) == received' = received \cup {[dest |-> dest, target |-> p.target, n |-> p.n]}
Counts(type, p) == errors' = errors \cup {[type |-> type, target |-> p.target, n |-> p.n]}

Deliver(p) ==
    /\ p.dest \in {"mqtt", "influxdb"}
    /\ Settled(p)
    /\ Receives(p.dest, p)
    /\ UNCHANGED <<settings, roundVars, gauge, errors, unhandled>>

\* Mutant: a topic that cannot be published is nobody's error.
FailMqttMutant(p) ==
    /\ p.dest = "mqtt"
    /\ Settled(p)
    /\ UNCHANGED <<settings, roundVars, received, gauge, errors, unhandled>>

FailMqtt(p) ==
    /\ p.dest = "mqtt"
    /\ Settled(p)
    /\ Counts("MQTT_PUBLISH", p)
    /\ UNCHANGED <<settings, roundVars, received, gauge, unhandled>>

\* Every attempt failed; version 1 counts it and throws it again.
FailInflux(p) ==
    /\ p.dest = "influxdb"
    /\ Settled(p)
    /\ Counts(InfluxType, p)
    /\ unhandled' = IF settings.version = 1
                    THEN unhandled \cup {[dest |-> "influxdb", target |-> p.target, n |-> p.n]}
                    ELSE unhandled
    /\ UNCHANGED <<settings, roundVars, received, gauge>>

\* The accounts one after the other: one without credentials is logged.
PostToAccount(p) ==
    /\ p.dest = "newRelic"
    /\ p.left # <<>>
    /\ sending' = (sending \ {p}) \cup {[p EXCEPT !.left = Tail(@)]}
    /\ IF Head(p.left) \in settings.credentials THEN Receives(Head(p.left), p)
       ELSE UNCHANGED received
    /\ UNCHANGED <<settings, roundVars, gauge, errors, unhandled>>

\* A post that fails, or times out, is counted and ends the loop.
FailToPost(p) ==
    /\ p.dest = "newRelic"
    /\ p.left # <<>>
    /\ Head(p.left) \in settings.credentials
    /\ Settled(p)
    /\ Counts("NEW_RELIC_POST", p)
    /\ UNCHANGED <<settings, roundVars, received, gauge, unhandled>>

EndPosts(p) ==
    /\ p.dest = "newRelic"
    /\ p.left = <<>>
    /\ Settled(p)
    /\ UNCHANGED <<settings, roundVars, received, gauge, errors, unhandled>>

Next ==
    \/ \E c \in Collectors : Tick(c)
    \/ \E c \in Collectors : \E i \in DOMAIN rounds[c] : Ask(c, i)
    \/ \E c \in Collectors : \E i \in DOMAIN rounds[c] : EndRound(c, i)
    \/ \E c \in Collectors : \E i \in DOMAIN rounds[c] : \E body \in Bodies : Answer(c, i, body)
    \/ \E c \in Collectors : \E i \in DOMAIN rounds[c] : AnswerWithoutBody(c, i)
    \/ \E c \in Collectors : \E i \in DOMAIN rounds[c] : FailToAnswer(c, i)
    \/ UptimeTick
    \/ \E p \in sending : Deliver(p)
    \/ \E p \in sending : FailMqtt(p)
    \/ \E p \in sending : FailInflux(p)
    \/ \E p \in sending : PostToAccount(p)
    \/ \E p \in sending : FailToPost(p)
    \/ \E p \in sending : EndPosts(p)

\* A round goes on by itself, and axios answers or times out.
RoundGoesOn(c) ==
    \E i \in DOMAIN rounds[c] :
        Ask(c, i) \/ EndRound(c, i) \/ AnswerWithoutBody(c, i) \/ FailToAnswer(c, i)
        \/ \E body \in Bodies : Answer(c, i, body)

Spec == Init /\ [][Next]_vars /\ \A c \in Collectors : WF_vars(RoundGoesOn(c))

-----------------------------------------------------------------------------
(* Properties.                                                             *)

\* The Prometheus gauges of a target never go back to an older reading: no two
\* requests to a target are under way at once, so an answer that is late cannot
\* overwrite one that was asked for after it.
GaugesGoForward == [][\A t \in DOMAIN gauge : gauge'[t] >= gauge[t]]_vars

\* Every round ends, whatever Qlik Sense answers or fails to answer, so a timer that
\* finds a round under way (isCollecting) skips only for a while.
RoundsEnd == \A c \in Collectors : []<>(rounds[c] = <<>>)

\* By the end of a round each of its targets has been asked exactly once, no failure
\* of one keeping another from its turn.
RoundsAreWhole ==
    \A c \in Collectors : rounds[c] = <<>> /\ settings.cert =>
        \A t \in ToSet(Targets(c)) : readings[t] = started[c]

Has(dest, r) == [dest |-> dest, target |-> r.target, n |-> r.n] \in received
Counted(type, r) == [type |-> type, target |-> r.target, n |-> r.n] \in errors
UnderWay(dest, r) == \E p \in sending : p.dest = dest /\ p.target = r.target /\ p.n = r.n

\* A reading is with every destination that is on, or an error was counted for it,
\* unless a publication is still under way, a rejection nobody caught was logged,
\* or the InfluxDB client was not set up for it.  All accounts of New Relic stand
\* or fall with the first that fails.
ReadingsAccounted ==
    \A r \in answered :
        LET c == r.target.collector
        IN  /\ On("mqtt") => \/ Has("mqtt", r) \/ UnderWay("mqtt", r) \/ Counted("MQTT_PUBLISH", r)
                             \/ [dest |-> "mqtt", target |-> r.target, n |-> r.n] \in unhandled
            /\ On("influxdb") /\ HasWriteApi(c) /\ Expected(r.body) =>
                  Has("influxdb", r) \/ UnderWay("influxdb", r) \/ Counted(InfluxType, r)
            /\ ToNewRelic(c) /\ Expected(r.body) =>
                  \/ UnderWay("newRelic", r) \/ Counted("NEW_RELIC_POST", r)
                  \/ \A a \in ToSet(settings.userAccounts) \cap settings.credentials : Has(a, r)
            /\ On("prometheus") /\ Expected(r.body) => gauge[r.target] >= r.n

\* What is kept of a reading does not depend on where it is kept: the three
\* versions' points have the same measurements and fields, every number of a
\* health check reaches MQTT, Prometheus and New Relic, and version 1's points fit
\* the schema its client refuses points by, tags included, as the labels fit the
\* gauges'.
DestinationsAgree ==
    LET fields(points) == [m \in DOMAIN points |-> DOMAIN points[m]]
    IN  /\ fields(V2HealthPoints) = V1HealthPoints
        /\ fields(V3HealthPoints) = V1HealthPoints
        /\ MqttNumbers = PrometheusNumbers
        /\ NewRelicNumbers(NewRelicGroups) = PrometheusNumbers
        /\ \A m \in DOMAIN V1Schema \cap DOMAIN V1HealthPoints :
              /\ V1HealthPoints[m] = DOMAIN V1Schema[m]
              /\ ServerTags(settings.tags) \subseteq V1SchemaTags(m, settings.tags)
        /\ \A m \in DOMAIN V1Schema \cap DOMAIN SessionPoints(1) :
              /\ SessionPoints(1)[m] \subseteq DOMAIN V1Schema[m]
              /\ SessionPointTags(1, settings.tags) \subseteq V1SchemaTags(m, settings.tags)
        /\ MemoryFields = DOMAIN V1Schema["butlersos_memory_usage"]
        /\ ServerTags(settings.tags) \subseteq PrometheusLabels({settings})
        /\ SessionPointTags(1, settings.tags) \subseteq PrometheusSessionLabels({settings})
=============================================================================
