---------------------------- MODULE MCSenseEvents ----------------------------
\* A small instance of SenseEvents: every source, the filters, the categories and
\* the accounts, under settings that switch each branch.
EXTENDS SenseEvents

Everything == [all |-> TRUE, exclude |-> {}, some |-> {}]
Only(x) == [all |-> FALSE, exclude |-> {}, some |-> {x}]
AllBut(x) == [all |-> TRUE, exclude |-> {x}, some |-> {x}]

LogMessage(source, level, has) ==
    [kind |-> "log", source |-> source, level |-> level, text |-> {"restart"}, has |-> has,
     app |-> "", objectType |-> "", object |-> "", method |-> ""]

PerfMessage(app, objectType, has) ==
    [kind |-> "log", source |-> "qixPerf", level |-> "error", text |-> {}, has |-> has,
     app |-> app, objectType |-> objectType, object |-> "o1", method |-> "GetLayout"]

UserMessage(user, app, command, has) ==
    [kind |-> "user", source |-> "qseow-proxy-session", recognised |-> TRUE, user |-> user,
     app |-> app, command |-> command, has |-> has]

MCMessages ==
    {LogMessage("engine", "error", PointHead \cup {"message", "user_directory", "user_id", "app_id"}),
     LogMessage("proxy", "warn", (PointHead \ {"subsystem"}) \cup {"message", "user_full", "result_code"}),
     LogMessage("scheduler", "warn", (PointHead \ {"log_row"}) \cup {"message", "task_id"}),
     LogMessage("other", "info", {}),
     PerfMessage("a1", "table", QixPerfColumns \ {"lock_time"}),
     PerfMessage("a2", "table", QixPerfColumns \ {"session_id", "proxy_session_id"}),
     UserMessage("ann", "a1", "Start session", RequiredUserColumns),
     UserMessage("bob", "", "Close connection", RequiredUserColumns \ {"origin"}),
     [UserMessage("ann", "", "Start session", {}) EXCEPT !.recognised = FALSE]}

Base ==
    [eventCount |-> TRUE, sources |-> LogSources, perfMonitor |-> TRUE, trackRejected |-> TRUE,
     appNameLookup |-> TRUE, extractNames |-> FALSE,
     appSpecific |-> [enable |-> TRUE, app |->
         {[include |-> {[id |-> "any", name |-> "Sales"]}, objectType |-> AllBut("kpi"),
           appObject |-> Only("o1"), method |-> Everything]}],
     allApps |-> [enable |-> FALSE, appExclude |-> {}, objectType |-> Everything,
                  method |-> Everything],
     categorise |-> TRUE,
     rules |-> {[logLevel |-> {"warn"}, filter |-> {"restart"}, action |-> "categorise",
                 category |-> {"area"}]},
     defaultCategory |-> {"other"},
     excludeUser |-> {}, destinations |-> Destinations,
     sendTo |-> [log |-> Destinations, user |-> Destinations],
     logTags |-> {"site"}, userTags |-> {"site"},
     postTo |-> {"baseTopic", "everythingTopic", "sessionStartTopic"},
     influxVersion |-> 3,
     newRelicLevels |-> [s \in LogSources \ {"qixPerf"} |-> {"error"}],
     newRelicAccounts |-> [log |-> <<"acc1", "acc2">>, user |-> <<"acc1", "none", "acc2">>],
     credentials |-> {"acc1", "acc2"}]

\* All destinations; app names looked up while they are fetched; performance
\* events of every app, with a rule that tests them, or not monitored at all.
MCSettings ==
    {Base,
     [Base EXCEPT !.extractNames = TRUE, !.destinations = {"influxdb"}, !.influxVersion = 2,
                  !.categorise = FALSE, !.excludeUser = {"bob"}],
     [Base EXCEPT !.allApps.enable = TRUE, !.destinations = {"influxdb", "newRelic"},
                  !.rules = {[logLevel |-> {"error"}, filter |-> {"restart"},
                              action |-> "drop", category |-> {}]}],
     [Base EXCEPT !.perfMonitor = FALSE, !.sources = @ \ {"proxy"}, !.destinations = {"mqtt"}]}

MCAppLists == {("a1" :> "Sales"), ("a1" :> "Stock" @@ "a2" :> "Sales")}
=============================================================================
