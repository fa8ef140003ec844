---------------------------- MODULE EventPoints ----------------------------
(***************************************************************************)
(* What Butler SOS makes of a Qlik Sense event before it sends it on: the  *)
(* columns each source's handler fills in, the tags and fields of the      *)
(* InfluxDB point built by each of the three InfluxDB versions, the topics *)
(* of the MQTT messages and the attributes sent to New Relic.  A column is *)
(* a name; an event `e` says in `e.has` which of its columns are not       *)
(* empty, in `e.cats` which categories it was given and in `e.tags` which  *)
(* tags the settings add to every event.                                   *)
(***************************************************************************)
EXTENDS FiniteSets, SequencesExt

LogSources == {"engine", "proxy", "repository", "scheduler", "qixPerf"}

UserColumns == {"user_full", "user_directory", "user_id"}

\* Columns filled by every log event handler.
HeadColumns == {"source", "log_row", "ts_iso", "ts_local", "level", "host",
                "subsystem", "windows_user"}

EngineColumns == HeadColumns \cup UserColumns \cup
    {"message", "proxy_session_id", "engine_ts", "process_id",
     "engine_exe_version", "server_started", "entry_type", "session_id", "app_id"}

\* Proxy and repository events share one handler.
GenericColumns == HeadColumns \cup UserColumns \cup
    {"message", "exception_message", "command", "result_code", "origin", "context"}

SchedulerColumns == HeadColumns \cup UserColumns \cup
    {"message", "exception_message", "task_name", "app_name", "task_id",
     "app_id", "execution_id"}

TimeColumns == {"process_time", "work_time", "lock_time", "validate_time", "traverse_time"}
SizeColumns == {"handle", "net_ram", "peak_ram"}

QixPerfColumns == HeadColumns \cup UserColumns \cup TimeColumns \cup SizeColumns \cup
    {"proxy_session_id", "engine_ts", "session_id", "app_id", "app_name",
     "request_id", "method", "object_id", "object_type", "event_activity_source"}

Columns(source) ==
    CASE source = "engine"                  -> EngineColumns
      [] source \in {"proxy", "repository"} -> GenericColumns
      [] source = "scheduler"               -> SchedulerColumns
      [] source = "qixPerf"                 -> QixPerfColumns

\* The user is given as directory and id, as one name holding both, or not at
\* all; afterwards all three columns are there or the full name is empty.
FormatUserFields(has) ==
    IF {"user_directory", "user_id"} \subseteq has THEN has \cup UserColumns
    ELSE IF has \cap UserColumns = {"user_full"} THEN has \cup UserColumns
    ELSE has \ {"user_full"}

\* What a field is called whose column is a tag too.
Suffixed ==
    [result_code |-> "result_code_field", app_id |-> "app_id_field",
     app_name |-> "app_name_field", userFull |-> "userFull_field",
     userId |-> "userId_field", appId |-> "appId_field", appName |-> "appName_field"]

-----------------------------------------------------------------------------
(* Log events in InfluxDB: tags that are set whatever their column holds,  *)
(* tags set when their column is not empty, fields.                        *)

PointHead == {"host", "level", "source", "log_row", "subsystem"}

\* Performance events have five more; a session id that is no UUID is emptied.
HeadTags(source) ==
    PointHead \cup
    IF source = "qixPerf"
    THEN {"method", "object_type", "proxy_session_id", "session_id", "event_activity_source"}
    ELSE {}

EngineOptional == UserColumns \cup
    {"result_code", "windows_user", "task_id", "task_name", "app_id", "app_name",
     "engine_exe_version"}

\* Tags of a version 1 log event: the head is given to the client whole, for a
\* performance event with a default where a column is empty.
V1LogTags(e) ==
    e.cats \cup e.tags \cup HeadTags(e.source) \cup
    CASE e.source = "engine"                  -> EngineOptional \cap e.has
      [] e.source \in {"proxy", "repository"} -> (UserColumns \cup {"result_code"}) \cap e.has
      [] e.source = "scheduler" ->
             (UserColumns \cup {"task_id", "task_name"}) \cap e.has
      [] e.source = "qixPerf" ->
             (UserColumns \cup {"app_id", "app_name", "object_id"}) \cap e.has

\* Tags of a version 2 log event: there are no defaults, and the client leaves
\* out a tag that is empty.
V2LogTags(e) ==
    e.cats \cup e.tags \cup (HeadTags(e.source) \cap e.has) \cup
    CASE e.source = "engine"                  -> EngineOptional \cap e.has
      [] e.source \in {"proxy", "repository"} -> (UserColumns \cup {"result_code"}) \cap e.has
      [] e.source = "scheduler" ->
             (UserColumns \cup {"task_id", "task_name"}) \cap e.has
      [] e.source = "qixPerf" ->
             (UserColumns \cup {"app_id", "app_name", "object_id"}) \cap e.has

\* Tags of a version 3 log event: performance events have a default for all of
\* the head, the others for the subsystem.
V3LogTags(e) ==
    e.cats \cup e.tags \cup
    (HeadTags(e.source) \cap IF e.source = "qixPerf" THEN HeadTags(e.source)
                             ELSE {"subsystem"} \cup e.has) \cup
    CASE e.source = "engine"                  -> EngineOptional \cap e.has
      [] e.source \in {"proxy", "repository"} -> (UserColumns \cup {"result_code"}) \cap e.has
      [] e.source = "scheduler" ->
             (UserColumns \cup {"task_id", "task_name"}) \cap e.has
      [] e.source = "qixPerf" ->
             (UserColumns \cup {"app_id", "app_name", "object_id"}) \cap e.has

TextFields == {"message", "exception_message", "command", "origin", "context"}
PerfFields == TimeColumns \cup SizeColumns

\* Fields of a version 1 log event: a column its handler does not fill is
\* undefined, and the client leaves it out.
V1LogFields(e) ==
    {"raw_event"} \cup (Columns(e.source) \cap
    CASE e.source = "engine" -> TextFields \cup {"result_code", "session_id"}
      [] e.source \in {"proxy", "repository"} -> TextFields \cup {"result_code"}
      [] e.source = "scheduler" ->
             {"message", "exception_message", "app_name", "app_id", "execution_id"}
      [] e.source = "qixPerf" -> PerfFields \cup {"app_id"})

\* Fields of a version 2 log event: a missing column is the empty string.
V2LogFields(e) ==
    {"raw_event"} \cup
    CASE e.source = "engine" -> TextFields \cup {"result_code_field", "session_id"}
      [] e.source \in {"proxy", "repository"} -> TextFields \cup {"result_code_field"}
      [] e.source = "scheduler" ->
             {"message", "exception_message", "app_name", "app_id", "execution_id"}
      [] e.source = "qixPerf" -> PerfFields \cup {"app_id"}

\* Mutant: version 3 of a scheduler event names its fields as the others do.
V3LogFieldsMutant(e) ==
    {"raw_event"} \cup
    CASE e.source = "engine" -> TextFields \cup {"result_code", "session_id"}
      [] e.source \in {"proxy", "repository"} -> TextFields \cup {"result_code"}
      [] e.source = "scheduler" ->
             {"message", "exception_message", "app_name", "app_id", "execution_id"}
      [] e.source = "qixPerf" -> (PerfFields \cap e.has) \cup {"app_id"}

\* Fields of a version 3 log event: numbers that do not parse are left out.
V3LogFields(e) ==
    {"raw_event"} \cup
    CASE e.source = "engine" -> TextFields \cup {"result_code_field", "session_id"}
      [] e.source \in {"proxy", "repository"} -> TextFields \cup {"result_code_field"}
      [] e.source = "scheduler" ->
             {"message", "exception_message", "app_name_field", "app_id_field",
              "execution_id"}
      [] e.source = "qixPerf" -> (PerfFields \cap e.has) \cup {"app_id_field"}

-----------------------------------------------------------------------------
(* User events.                                                            *)

RequiredUserColumns == {"host", "command", "user_directory", "user_id", "origin"}

UserPointHead == {"host", "event_action", "userFull", "userDirectory", "userId", "origin"}

\* Columns of a user event that become tags, by the name of the tag.
UserOptional == {"appId", "appName", "uaBrowserName", "uaBrowserMajorVersion",
                 "uaOsName", "uaOsVersion"}

V1UserTags(e) == UserPointHead \cup (UserOptional \cap e.has) \cup e.tags
V2UserTags(e) == UserPointHead \cup (UserOptional \cap e.has) \cup e.tags
V3UserTags(e) == UserPointHead \cup (UserOptional \cap e.has) \cup e.tags

V1UserFields(e) == {"userFull", "userId"} \cup ({"appId", "appName"} \cap e.has)

V2UserFields(e) ==
    {"userFull", "userId"} \cup {Suffixed[c] : c \in {"appId", "appName"} \cap e.has}

V3UserFields(e) ==
    {Suffixed[c] : c \in {"userFull", "userId"} \cup ({"appId", "appName"} \cap e.has)}

-----------------------------------------------------------------------------
PointTags(version, e) ==
    CASE e.kind = "log" ->
             (CASE version = 1 -> V1LogTags(e)
                [] version = 2 -> V2LogTags(e)
                [] version = 3 -> V3LogTags(e))
      [] e.kind = "user" ->
             (CASE version = 1 -> V1UserTags(e)
                [] version = 2 -> V2UserTags(e)
                [] version = 3 -> V3UserTags(e))

PointFields(version, e) ==
    CASE e.kind = "log" ->
             (CASE version = 1 -> V1LogFields(e)
                [] version = 2 -> V2LogFields(e)
                [] version = 3 -> V3LogFields(e))
      [] e.kind = "user" ->
             (CASE version = 1 -> V1UserFields(e)
                [] version = 2 -> V2UserFields(e)
                [] version = 3 -> V3UserFields(e))

\* Why a version does not store an event: user events need five columns, and
\* the version 2 client refuses a number that does not parse.
Unstorable(version, e) ==
    \/ e.kind = "user" /\ ~(RequiredUserColumns \subseteq e.has)
    \/ version = 2 /\ e.kind = "log" /\ e.source = "qixPerf" /\ ~(TimeColumns \subseteq e.has)

-----------------------------------------------------------------------------
\* Topics a log event is published to.
LogTopics(posting) == {"baseTopic", "subsystemTopics"} \cap posting

\* Topics a user event is published to: one for everything, one per command.
UserTopics(posting, command) ==
    {"everythingTopic",
     CASE command = "Start session"    -> "sessionStartTopic"
       [] command = "Stop session"     -> "sessionStopTopic"
       [] command = "Open connection"  -> "connectionOpenTopic"
       [] command = "Close connection" -> "connectionCloseTopic"} \cap posting

Hashed == [userFull |-> "hash of userFull", userDirectory |-> "hash of userDirectory",
           userId |-> "hash of userId"]

\* Columns of a user event as New Relic gets them; with scrambling on, the user
\* is hashed.
NewRelicUserAttributes(e, scramble) ==
    {"timestamp", "eventType", "host", "event_action", "origin"} \cup e.tags
    \cup (UserOptional \cap e.has)
    \cup {IF scramble THEN Hashed[c] ELSE c : c \in DOMAIN Hashed}

NewRelicLogColumns == (EngineColumns \cup GenericColumns \cup SchedulerColumns)
    \ {"log_row"}

\* Columns of a log event as New Relic gets them, with the tags of the settings
\* and the attributes set for New Relic; the categories are not among them.
NewRelicLogAttributes(e, attributes) ==
    {"timestamp", "eventType", "user_full"} \cup (NewRelicLogColumns \cap Columns(e.source))
    \cup e.tags \cup attributes

\* Whether a log event is for New Relic: its source is on there, and so is its
\* level, warn or error.  Performance events have no such switch.
ForNewRelic(levels, source, level) ==
    /\ source \in {"engine", "proxy", "repository", "scheduler"}
    /\ level \in {"error", "warn"}
    /\ level \in levels[source]
=============================================================================
