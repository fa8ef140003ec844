---------------------------- MODULE SenseEvents ----------------------------
(***************************************************************************)
(* What happens to a UDP message from Qlik Sense after the queue manager   *)
(* has handed it to its handler: parsing by source, the filters of engine  *)
(* performance events, counting, categorising, the list of excluded users, *)
(* the look-up of app names, and the publication to MQTT, InfluxDB and New *)
(* Relic, which the handler starts and does not wait for.  Beside it runs  *)
(* the timer that fetches the app names from the repository service.       *)
(*                                                                         *)
(* A handler suspends once, on the call that counts the event (or, when    *)
(* counting is off, on the result of the performance event parser); what   *)
(* it does before and after is one step each.                              *)
(***************************************************************************)
EXTENDS EventPoints, Naturals, BagsExt

CONSTANTS
    Messages,     \* the messages that may arrive, each once
    SettingsSet,  \* the settings Butler SOS may be started with
    AppLists,     \* the app lists the repository service may hold: id -> name
    MaxArrivals,  \* bound: how many messages arrive
    MaxChanges,   \* bound: how often the repository's list changes
    MaxFetching   \* bound: requests for the list under way at once

ASSUME BoundsAssumption == MaxArrivals \in Nat /\ MaxChanges \in Nat /\ MaxFetching \in Nat \ {0}

\* A source is one of those that have a handler and a switch.
ASSUME SourcesAssumption == \A s \in SettingsSet : s.sources \subseteq LogSources

\* New Relic's accounts are lists, for either kind of event.
ASSUME AccountsAssumption ==
    \A s \in SettingsSet : \A kind \in {"log", "user"} :
        s.newRelicAccounts[kind] \in Seq(Range(s.newRelicAccounts[kind]))

VARIABLES
    settings,   \* the configuration file
    stage,      \* stage[m]: how far the handler of m has come
    event,      \* event[m]: the object built from m
    counted,    \* counted[m]: what udpEvents counted for m
    rejected,   \* messages counted by rejectedEvents
    sending,    \* sending[m]: destinations whose publication is under way
    accounts,   \* accounts[m]: New Relic accounts the loop has still to serve
    received,   \* received[m]: topics, database and accounts that have m
    errors,     \* errors[m]: types of the errors counted for m
    appNames,   \* globals.appNames
    repository, \* the list the repository service holds
    fetching,   \* bag of the lists under way as answers to getAppNames
    changes     \* how often the repository's list has changed

handlerVars == <<stage, event, counted, rejected, sending, accounts, received, errors>>
nameVars == <<appNames, repository, fetching, changes>>
vars == <<settings, handlerVars, nameVars>>

Destinations == {"mqtt", "influxdb", "newRelic"}

NoEvent == [kind |-> "none"]

-----------------------------------------------------------------------------
(* Engine performance filters.                                             *)

\* A filter entry names an app by id, by name or by both.
MatchesApp(entry, id, name) ==
    /\ entry.id = "any" \/ entry.id = id
    /\ entry.name = "any" \/ entry.name = name

\* Either everything but a list, or only what is on a list.
Passes(filter, value) ==
    IF filter.all THEN value \notin filter.exclude ELSE value \in filter.some

ProcessAppSpecificFilters(m, name, filters) ==
    /\ filters.enable
    /\ \E f \in filters.app :
          /\ \E entry \in f.include : MatchesApp(entry, m.app, name)
          /\ Passes(f.objectType, m.objectType)
          /\ Passes(f.appObject, m.object)
          /\ Passes(f.method, m.method)

ProcessAllAppsFilters(m, name, filters) ==
    /\ filters.enable
    /\ ~\E entry \in filters.appExclude : MatchesApp(entry, m.app, name)
    /\ Passes(filters.objectType, m.objectType)
    /\ Passes(filters.method, m.method)

\* An unknown app has no name, and is matched by entries that give only an id.
PerfAppName(m) ==
    IF settings.appNameLookup /\ m.app \in DOMAIN appNames THEN appNames[m.app] ELSE ""

AcceptPerfEvent(m) ==
    \/ ProcessAppSpecificFilters(m, PerfAppName(m), settings.appSpecific)
    \/ ProcessAllAppsFilters(m, PerfAppName(m), settings.allApps)

-----------------------------------------------------------------------------
(* Categories.                                                             *)

\* The text of a message is the set of filter values it matches; performance
\* events have no text, and testing it throws.
Matching(rule, m) == rule.filter \cap m.text # {}

Tested(m) == {r \in settings.rules : m.level \in r.logLevel}

CategoriseThrows(m) == m.source = "qixPerf" /\ \E r \in Tested(m) : r.filter # {}

\* A drop rule that matches returns no category at all; without a match the
\* default rule gives its own.
CategoriseLogEvent(m) ==
    LET matched == {r \in Tested(m) : Matching(r, m)}
    IN  IF \E r \in matched : r.action = "drop"
        THEN [category |-> {}, actionTaken |-> "dropped"]
        ELSE [category |-> IF matched = {} THEN settings.defaultCategory
                           ELSE UNION {r.category : r \in matched},
              actionTaken |-> "categorised"]

-----------------------------------------------------------------------------
Init ==
    /\ settings \in SettingsSet
    /\ stage = [m \in Messages |-> "unread"]
    /\ event = [m \in Messages |-> NoEvent]
    /\ counted = [m \in Messages |-> <<>>]
    /\ rejected = {}
    /\ sending = [m \in Messages |-> {}]
    /\ accounts = [m \in Messages |-> <<>>]
    /\ received = [m \in Messages |-> {}]
    /\ errors = [m \in Messages |-> {}]
    /\ appNames = [id \in {} |-> ""]
    /\ repository \in AppLists
    /\ fetching = EmptyBag
    /\ changes = 0

\* The counters of the other properties: one entry per call, naming the columns
\* taken for source, host and subsystem.
Count(m, key) ==
    counted' = IF settings.eventCount
               THEN [counted EXCEPT ![m] = Append(@, key)]
               ELSE counted

Arrives(m, kind) ==
    /\ m.kind = kind
    /\ stage[m] = "unread"
    /\ Cardinality({n \in Messages : stage[n] # "unread"}) < MaxArrivals

SourceIsOn(m) == m.source \in settings.sources

\* A source that is unknown or off: counted under the columns next to the right
\* ones (the log row as host, the host as subsystem), and no more.
SkipLogEvent(m) ==
    /\ Arrives(m, "log")
    /\ ~SourceIsOn(m)
    /\ stage' = [stage EXCEPT ![m] = "skipped"]
    /\ Count(m, <<m.source, "log_row", "host">>)
    /\ UNCHANGED <<settings, event, rejected, sending, accounts, received, errors, nameVars>>

\* With performance monitoring off the event is counted and forgotten.
SkipPerfEvent(m) ==
    /\ Arrives(m, "log")
    /\ SourceIsOn(m)
    /\ m.source = "qixPerf"
    /\ ~settings.perfMonitor
    /\ stage' = [stage EXCEPT ![m] = "skipped"]
    /\ Count(m, <<m.source, "host", "subsystem">>)
    /\ UNCHANGED <<settings, event, rejected, sending, accounts, received, errors, nameVars>>

\* No filter wants the event: it is counted among the rejected ones, if those
\* are tracked, and not among the received ones.
RejectPerfEvent(m) ==
    /\ Arrives(m, "log")
    /\ SourceIsOn(m)
    /\ m.source = "qixPerf"
    /\ settings.perfMonitor
    /\ ~AcceptPerfEvent(m)
    /\ stage' = [stage EXCEPT ![m] = "rejected"]
    /\ rejected' = IF settings.trackRejected THEN rejected \cup {m} ELSE rejected
    /\ UNCHANGED <<settings, event, counted, sending, accounts, received, errors, nameVars>>

\* The object built from the columns of a log message.
LogEvent(m) ==
    [kind |-> "log", source |-> m.source,
     has |-> FormatUserFields(m.has)
             \cup (IF m.source = "qixPerf" /\ PerfAppName(m) # "" THEN {"app_name"} ELSE {}),
     appName |-> IF m.source = "qixPerf" THEN PerfAppName(m) ELSE "",
     cats |-> {}, tags |-> settings.logTags]

ReceiveLogEvent(m) ==
    /\ Arrives(m, "log")
    /\ SourceIsOn(m)
    /\ m.source = "qixPerf" => settings.perfMonitor /\ AcceptPerfEvent(m)
    /\ stage' = [stage EXCEPT ![m] = "counting"]
    /\ event' = [event EXCEPT ![m] = LogEvent(m)]
    /\ Count(m, <<m.source, "host", "subsystem">>)
    /\ UNCHANGED <<settings, rejected, sending, accounts, received, errors, nameVars>>

\* A message that is no user event is counted as unknown.
SkipUserEvent(m) ==
    /\ Arrives(m, "user")
    /\ ~m.recognised
    /\ stage' = [stage EXCEPT ![m] = "skipped"]
    /\ Count(m, <<"Unknown", "Unknown", "Unknown">>)
    /\ UNCHANGED <<settings, event, rejected, sending, accounts, received, errors, nameVars>>

\* A user event is counted before it is known whether its user is excluded.
ReceiveUserEvent(m) ==
    /\ Arrives(m, "user")
    /\ m.recognised
    /\ stage' = [stage EXCEPT ![m] = "counting"]
    /\ Count(m, <<m.source, "host", "origin">>)
    /\ UNCHANGED <<settings, event, rejected, sending, accounts, received, errors, nameVars>>

-----------------------------------------------------------------------------
(* After the event is counted: the second half of the handler.             *)

\* Where an event of this kind goes: destinations that are on, and on for it.
Enabled(kind) == settings.destinations \cap settings.sendTo[kind]

KnownAccounts(kind) == settings.newRelicAccounts[kind]

\* publishToDestinations calls the three publishers and returns; New Relic's
\* decides at once whether a log event is for it.
Publish(m, e) ==
    LET toNewRelic == /\ "newRelic" \in Enabled(e.kind)
                      /\ e.kind = "log" => ForNewRelic(settings.newRelicLevels, m.source, m.level)
        toInflux   == "influxdb" \in Enabled(e.kind)
    IN  /\ event' = [event EXCEPT ![m] = e]
        /\ stage' = [stage EXCEPT ![m] = "published"]
        /\ sending' = [sending EXCEPT ![m] =
                          ({"mqtt"} \cap Enabled(e.kind))
                          \cup (IF toNewRelic THEN {"newRelic"} ELSE {})
                          \cup (IF toInflux THEN {"influxdb"} ELSE {})]
        /\ accounts' = [accounts EXCEPT ![m] =
                           IF toNewRelic THEN KnownAccounts(e.kind) ELSE <<>>]

\* The categories are put on the event; what the rules say of dropping it is not
\* looked at.
PublishLogEvent(m) ==
    /\ m.kind = "log"
    /\ stage[m] = "counting"
    /\ ~(settings.categorise /\ CategoriseThrows(m))
    /\ Publish(m, IF settings.categorise
                  THEN [event[m] EXCEPT !.cats = CategoriseLogEvent(m).category]
                  ELSE event[m])
    /\ UNCHANGED <<settings, counted, rejected, received, errors, nameVars>>

\* categoriseLogEvent logs the exception and returns null, on which the handler
\* throws: the event ends as an error.
FailLogEvent(m) ==
    /\ m.kind = "log"
    /\ stage[m] = "counting"
    /\ settings.categorise
    /\ CategoriseThrows(m)
    /\ stage' = [stage EXCEPT ![m] = "failed"]
    /\ errors' = [errors EXCEPT ![m] = @ \cup {"UDP_LOG_EVENT"}]
    /\ UNCHANGED <<settings, event, counted, rejected, sending, accounts, received, nameVars>>

ExcludeUserEvent(m) ==
    /\ m.kind = "user"
    /\ stage[m] = "counting"
    /\ m.user \in settings.excludeUser
    /\ stage' = [stage EXCEPT ![m] = "excluded"]
    /\ UNCHANGED <<settings, event, counted, rejected, sending, accounts, received, errors,
                   nameVars>>

\* The app a user event is about, if its context names one.
UserAppName(m) == IF m.app \in DOMAIN appNames THEN appNames[m.app] ELSE "<unknown app name>"

UserEvent(m) ==
    [kind |-> "user", source |-> m.source,
     has |-> m.has \cup (IF m.app # "" THEN {"appId", "appName"} ELSE {}),
     appName |-> IF m.app # "" THEN UserAppName(m) ELSE "",
     cats |-> {}, tags |-> settings.userTags]

PublishUserEvent(m) ==
    /\ m.kind = "user"
    /\ stage[m] = "counting"
    /\ m.user \notin settings.excludeUser
    /\ Publish(m, UserEvent(m))
    /\ UNCHANGED <<settings, counted, rejected, received, errors, nameVars>>

-----------------------------------------------------------------------------
(* The publications, which nobody waits for.                               *)

Topics(m) ==
    IF m.kind = "log" THEN LogTopics(settings.postTo) ELSE UserTopics(settings.postTo, m.command)

\* All topics are published to at once; however many fail, one error is counted.
SettleMqtt(m) ==
    /\ "mqtt" \in sending[m]
    /\ sending' = [sending EXCEPT ![m] = @ \ {"mqtt"}]
    /\ \E delivered \in SUBSET Topics(m) :
          /\ received' = [received EXCEPT ![m] = @ \cup delivered]
          /\ errors' = IF delivered = Topics(m) THEN errors
                       ELSE [errors EXCEPT ![m] = @ \cup {"MQTT_PUBLISH"}]
    /\ UNCHANGED <<settings, stage, event, counted, rejected, accounts, nameVars>>

\* The point is written, retries included.
StoreInInflux(m) ==
    /\ "influxdb" \in sending[m]
    /\ ~Unstorable(settings.influxVersion, event[m])
    /\ sending' = [sending EXCEPT ![m] = @ \ {"influxdb"}]
    /\ received' = [received EXCEPT ![m] = @ \cup {"influxdb"}]
    /\ UNCHANGED <<settings, stage, event, counted, rejected, accounts, errors, nameVars>>

\* Writing or building the point failed: counted, once or more.
FailInflux(m) ==
    /\ "influxdb" \in sending[m]
    /\ event[m].kind = "user" => RequiredUserColumns \subseteq event[m].has
    /\ sending' = [sending EXCEPT ![m] = @ \ {"influxdb"}]
    /\ errors' = [errors EXCEPT ![m] = @ \cup {"INFLUXDB_WRITE"}]
    /\ UNCHANGED <<settings, stage, event, counted, rejected, accounts, received, nameVars>>

\* A user event without one of the required columns is warned about and dropped.
RefuseUserEvent(m) ==
    /\ "influxdb" \in sending[m]
    /\ event[m].kind = "user"
    /\ ~(RequiredUserColumns \subseteq event[m].has)
    /\ sending' = [sending EXCEPT ![m] = @ \ {"influxdb"}]
    /\ UNCHANGED <<settings, stage, event, counted, rejected, accounts, received, errors,
                   nameVars>>

\* Mutant: a failed post to an account goes unnoticed.
FailNewRelicMutant(m) ==
    /\ "newRelic" \in sending[m]
    /\ accounts[m] # <<>>
    /\ Head(accounts[m]) \in settings.credentials
    /\ accounts' = [accounts EXCEPT ![m] = Tail(@)]
    /\ UNCHANGED <<settings, stage, event, counted, rejected, sending, received, errors,
                   nameVars>>

\* The loop over the accounts: one that has no credentials is logged and passed
\* over, one that has them gets the event.
PostToNewRelic(m) ==
    /\ "newRelic" \in sending[m]
    /\ accounts[m] # <<>>
    /\ accounts' = [accounts EXCEPT ![m] = Tail(@)]
    /\ received' = IF Head(accounts[m]) \in settings.credentials
                   THEN [received EXCEPT ![m] = @ \cup {Head(accounts[m])}]
                   ELSE received
    /\ UNCHANGED <<settings, stage, event, counted, rejected, sending, errors, nameVars>>

\* A post that fails or times out ends the loop, and the accounts after it get
\* nothing.  It is counted for a user event and only logged for a log event.
FailNewRelic(m) ==
    /\ "newRelic" \in sending[m]
    /\ accounts[m] # <<>>
    /\ Head(accounts[m]) \in settings.credentials
    /\ accounts' = [accounts EXCEPT ![m] = <<>>]
    /\ sending' = [sending EXCEPT ![m] = @ \ {"newRelic"}]
    /\ errors' = IF m.kind = "user" THEN [errors EXCEPT ![m] = @ \cup {"NEW_RELIC_POST"}]
                 ELSE errors
    /\ UNCHANGED <<settings, stage, event, counted, rejected, received, nameVars>>

EndNewRelic(m) ==
    /\ "newRelic" \in sending[m]
    /\ accounts[m] = <<>>
    /\ sending' = [sending EXCEPT ![m] = @ \ {"newRelic"}]
    /\ UNCHANGED <<settings, stage, event, counted, rejected, accounts, received, errors,
                   nameVars>>

-----------------------------------------------------------------------------
(* App names.                                                              *)

\* The timer asks for the list whether or not an earlier request is still under
\* way; the answer is the list at some moment of the request.
GetAppNames ==
    /\ settings.extractNames
    /\ BagCardinality(fetching) < MaxFetching
    /\ fetching' = fetching (+) SetToBag({repository})
    /\ UNCHANGED <<settings, handlerVars, appNames, repository, changes>>

\* Mutant: the answer is added to the names held so far.
AppNamesArriveMutant ==
    \E list \in BagToSet(fetching) :
        /\ appNames' = appNames @@ list
        /\ fetching' = fetching (-) SetToBag({list})
        /\ UNCHANGED <<settings, handlerVars, repository, changes>>

\* The table is replaced whole, by whichever answer comes last.
AppNamesArrive ==
    \E list \in BagToSet(fetching) :
        /\ appNames' = list
        /\ fetching' = fetching (-) SetToBag({list})
        /\ UNCHANGED <<settings, handlerVars, repository, changes>>

\* A failed request is counted as an error; the table stays.
AppNamesFail ==
    \E list \in BagToSet(fetching) :
        /\ fetching' = fetching (-) SetToBag({list})
        /\ UNCHANGED <<settings, handlerVars, appNames, repository, changes>>

\* Somebody creates, renames or deletes apps.
RepositoryChanges ==
    /\ settings.extractNames
    /\ changes < MaxChanges
    /\ repository' \in AppLists
    /\ changes' = changes + 1
    /\ UNCHANGED <<settings, handlerVars, appNames, fetching>>

-----------------------------------------------------------------------------
Handle(m) ==
    \/ SkipLogEvent(m)
    \/ SkipPerfEvent(m)
    \/ RejectPerfEvent(m)
    \/ ReceiveLogEvent(m)
    \/ PublishLogEvent(m)
    \/ FailLogEvent(m)
    \/ SkipUserEvent(m)
    \/ ReceiveUserEvent(m)
    \/ ExcludeUserEvent(m)
    \/ PublishUserEvent(m)

Settle(m) ==
    \/ SettleMqtt(m)
    \/ StoreInInflux(m)
    \/ FailInflux(m)
    \/ RefuseUserEvent(m)
    \/ PostToNewRelic(m)
    \/ FailNewRelic(m)
    \/ EndNewRelic(m)

FetchNames ==
    \/ GetAppNames
    \/ AppNamesArrive
    \/ AppNamesFail
    \/ RepositoryChanges

Next ==
    \/ \E m \in Messages : Handle(m) \/ Settle(m)
    \/ FetchNames

\* The timer keeps firing, and the repository service answers now and then.
Fairness == WF_vars(GetAppNames) /\ SF_vars(AppNamesArrive)

Spec == Init /\ [][Next]_vars /\ Fairness

-----------------------------------------------------------------------------
(* Properties.                                                             *)

Settled(m) == stage[m] \notin {"unread", "counting"} /\ sending[m] = {}

\* What a settled event lacks at a destination although it was meant for it.
Missing(m) ==
    CASE m.kind = "user" /\ "influxdb" \in Enabled("user")
             /\ ~(RequiredUserColumns \subseteq m.has) -> {}
      [] OTHER -> ({"influxdb"} \cap Enabled(m.kind)) \ received[m]

\* Every message is accounted for, whatever the interleaving of handlers,
\* publications and the app name timer: each is counted once by the event
\* counters, except a performance event the filters reject; nothing leaves for
\* any destination unless the event was published; and a destination that is on
\* and does not get a published event left an error in the counters.  (Two losses
\* leave none: a log event no New Relic account got, and a user event
\* without the columns InfluxDB needs.)
Accounted ==
    \A m \in Messages : Settled(m) =>
        /\ Len(counted[m]) = IF settings.eventCount /\ stage[m] # "rejected" THEN 1 ELSE 0
        /\ m \in rejected => stage[m] = "rejected" /\ settings.trackRejected
        /\ stage[m] = "failed" => "UDP_LOG_EVENT" \in errors[m]
        /\ stage[m] # "published" => received[m] = {}
        /\ stage[m] = "published" =>
              /\ Missing(m) # {} => "INFLUXDB_WRITE" \in errors[m]
              /\ "mqtt" \in Enabled(m.kind) /\ ~(Topics(m) \subseteq received[m]) =>
                    "MQTT_PUBLISH" \in errors[m]
              /\ m.kind = "user" /\ "newRelic" \in Enabled("user")
                    /\ ~(Range(KnownAccounts("user")) \cap settings.credentials
                            \subseteq received[m]) =>
                    "NEW_RELIC_POST" \in errors[m]

\* A field of one version's point is in another's, under its name or with the
\* suffix that tells it from a tag.
SameFields(fields, others) ==
    \A f \in fields : f \in others \/ (f \in DOMAIN Suffixed /\ Suffixed[f] \in others)

\* Head tags whose column is empty: version 1 gives its client all of them, version
\* 2 stores none, version 3 those it has a default for.
EmptyTags(e) == IF e.kind = "log" THEN HeadTags(e.source) \ e.has ELSE {}

SamePayloads(e) ==
    LET readable == (Columns(e.source) \ PerfFields) \cup e.has \cup {"raw_event"}
        attributes == IF e.kind = "log" THEN NewRelicLogAttributes(e, {})
                      ELSE NewRelicUserAttributes(e, TRUE)
    IN  /\ PointTags(2, e) \subseteq PointTags(3, e)
        /\ PointTags(3, e) \subseteq PointTags(1, e)
        /\ PointTags(1, e) \ PointTags(2, e) \subseteq EmptyTags(e)
        /\ SameFields(PointFields(1, e), PointFields(2, e))
        /\ e.kind = "log" => SameFields(PointFields(1, e) \cap readable, PointFields(3, e))
        /\ e.kind = "user" => SameFields(PointFields(1, e), PointFields(3, e))
        /\ PointTags(3, e) \cap PointFields(3, e) \subseteq e.tags \cup e.cats
        /\ e.tags \subseteq attributes
        /\ e.kind = "user" =>
              {"userFull", "userDirectory", "userId"} \cap attributes \subseteq e.tags

\* What is stored of an event depends on the InfluxDB version in empty columns and
\* unreadable numbers only.  The three points have the same tags, except a head tag
\* whose column is empty: version 2 has no default for it and drops it, where version
\* 1 and, for performance events, version 3 put one (a session id that is no UUID
\* ends so).  Version 2 and 3 have every field version 1 has, in version 3
\* numbers that do not parse excepted; in version 3 no tag has a field's name,
\* which that version of the database refuses, unless the settings have named a tag
\* or a category so.  New Relic gets the tags of the settings as InfluxDB does, and
\* with scrambling on no column of its own that names a user.
PayloadsAgree == \A m \in Messages : stage[m] = "published" => SamePayloads(event[m])

\* Requests for the app names overlap, and an old answer may come after a new one;
\* still, once the repository's list no longer changes, the table becomes that
\* list and stays so.
NamesCatchUp == settings.extractNames => <>[](appNames = repository)
=============================================================================
