---------------------------- MODULE MetricPoints ----------------------------
(***************************************************************************)
(* What each destination is given of a reading: the points of the three    *)
(* InfluxDB versions, the schema the version 1 client is created with, the *)
(* MQTT topics, the Prometheus gauges and the New Relic metrics.  A point  *)
(* is a function from its fields to their types; a number of the engine's  *)
(* health check is named by its path in the answer.                        *)
(***************************************************************************)

\* The fields of a point, given by their types.
Point(fields) ==
    [f \in UNION {fields[type] : type \in DOMAIN fields} |->
        CHOOSE type \in DOMAIN fields : f \in fields[type]]

ServerFields == {"version", "started", "uptime"}
MemFields == {"comitted", "allocated", "free"}
DocCounts == {"active_docs_count", "loaded_docs_count", "in_memory_docs_count"}
DocLists == {"active_docs", "active_docs_names", "active_session_docs_names",
             "loaded_docs", "loaded_docs_names", "loaded_session_docs_names",
             "in_memory_docs", "in_memory_docs_names", "in_memory_session_docs_names"}
CacheReads == {"hits", "lookups"}
CacheWrites == {"added", "replaced", "bytes_added"}

-----------------------------------------------------------------------------
(* Health metrics.                                                         *)

\* Version 1 gives values without a type; the schema has them, saturated's excepted.
V1HealthPoints ==
    [sense_server |-> ServerFields, mem |-> MemFields,
     apps |-> DocCounts \cup DocLists \cup {"calls", "selections"},
     cpu |-> {"total"}, session |-> {"active", "total"}, users |-> {"active", "total"},
     cache |-> CacheReads \cup CacheWrites, saturated |-> {"saturated"}]

V2HealthPoints ==
    [sense_server |-> Point([string |-> ServerFields]), mem |-> Point([float |-> MemFields]),
     apps |-> Point([integer |-> DocCounts, string |-> DocLists,
                     unsigned |-> {"calls", "selections"}]),
     cpu |-> Point([float |-> {"total"}]),
     session |-> Point([unsigned |-> {"active", "total"}]),
     users |-> Point([unsigned |-> {"active", "total"}]),
     cache |-> Point([unsigned |-> CacheReads, integer |-> CacheWrites]),
     saturated |-> Point([boolean |-> {"saturated"}])]

\* Mutant: the point of the cache loses what was written to it.
V3HealthPointsMutant ==
    [V2HealthPoints EXCEPT !.cache = Point([integer |-> CacheReads])]

\* Version 3 has no unsigned numbers and clamps them, the CPU load too.
V3HealthPoints ==
    [sense_server |-> Point([string |-> ServerFields]), mem |-> Point([float |-> MemFields]),
     apps |-> Point([integer |-> DocCounts \cup {"calls", "selections"}, string |-> DocLists]),
     cpu |-> Point([integer |-> {"total"}]),
     session |-> Point([integer |-> {"active", "total"}]),
     users |-> Point([integer |-> {"active", "total"}]),
     cache |-> Point([integer |-> CacheReads \cup CacheWrites]),
     saturated |-> Point([boolean |-> {"saturated"}])]

-----------------------------------------------------------------------------
(* Proxy sessions and Butler SOS' own memory.                              *)

ServerTags(extra) == {"host", "server_name", "server_description"} \cup extra
ProxyTags == {"user_session_virtual_proxy", "user_session_host"}
SessionFields == {"session_id", "user_directory", "user_id"}
MemoryFields == {"heap_used", "heap_total", "external", "process_memory"}

\* Only version 1's list of users has no count; only version 2's points have no
\* tags of the server.
SessionPoints(version) ==
    [user_session_summary |-> {"session_count", "session_user_id_list"},
     user_session_list |-> {"session_user_id_list"}
                           \cup (IF version = 1 THEN {} ELSE {"session_count"}),
     user_session_details |-> SessionFields]

SessionPointTags(version, extra) ==
    ProxyTags \cup (IF version = 2 THEN {} ELSE ServerTags(extra))

-----------------------------------------------------------------------------
(* The schema of the version 1 client: a point with a field or tag that    *)
(* its measurement's schema does not have is refused by the client.        *)

V1Schema ==
    [sense_server |-> Point([string |-> ServerFields]), mem |-> Point([integer |-> MemFields]),
     apps |-> Point([integer |-> DocCounts \cup {"calls", "selections"}, string |-> DocLists]),
     cpu |-> Point([integer |-> {"total"}]),
     session |-> Point([integer |-> {"active", "total"}]),
     users |-> Point([integer |-> {"active", "total"}]),
     cache |-> Point([integer |-> CacheReads \cup CacheWrites]),
     butlersos_memory_usage |-> Point([float |-> MemoryFields]),
     user_session_summary |->
        Point([integer |-> {"session_count"}, string |-> {"session_user_id_list"}]),
     user_session_list |-> Point([string |-> {"session_user_id_list"}])]

\* The tags defined for all servers, and those of the sessions beside them.
V1SchemaTags(measurement, defined) ==
    CASE measurement = "butlersos_memory_usage" -> {"butler_sos_instance", "version"}
      [] measurement \in {"user_session_summary", "user_session_list"} ->
            ServerTags(defined) \cup ProxyTags
      [] OTHER -> ServerTags(defined)

-----------------------------------------------------------------------------
(* The numbers of a health check, by path.                                 *)

MemNumbers == {"mem.committed", "mem.allocated", "mem.free"}
SessionNumbers == {"session.active", "session.total"}
UserNumbers == {"users.active", "users.total"}
DocNumbers == {"apps.active_docs", "apps.loaded_docs", "apps.in_memory_docs"}
CacheNumbers == {"cache.hits", "cache.lookups", "cache.added", "cache.replaced",
                 "cache.bytes_added"}

MqttNumbers ==
    MemNumbers \cup {"cpu.total"} \cup SessionNumbers \cup DocNumbers
    \cup {"apps.calls", "apps.selections"} \cup UserNumbers \cup CacheNumbers \cup {"saturated"}

PrometheusNumbers ==
    {"apps.calls", "apps.selections"} \cup DocNumbers \cup CacheNumbers \cup {"saturated"}
    \cup {"cpu.total"} \cup MemNumbers \cup SessionNumbers \cup UserNumbers

\* New Relic gets the groups of metrics that are switched on.
NewRelicNumbers(groups) ==
    UNION {CASE g = "memory" -> MemNumbers
             [] g = "cpu" -> {"cpu.total"}
             [] g = "calls" -> {"apps.calls"}
             [] g = "selections" -> {"apps.selections"}
             [] g = "sessions" -> SessionNumbers
             [] g = "users" -> UserNumbers
             [] g = "saturated" -> {"saturated"}
             [] g = "docCount" -> DocNumbers
             [] g = "cache" -> CacheNumbers : g \in groups}

NewRelicGroups == {"memory", "cpu", "calls", "selections", "sessions", "users", "saturated",
                   "docCount", "cache"}

\* Prometheus refuses a label that was not declared when the gauge was made: the
\* labels declared are the tags of all servers.
PrometheusLabels(servers) == UNION {ServerTags(s.tags) : s \in servers}
PrometheusSessionLabels(servers) == PrometheusLabels(servers) \cup ProxyTags \cup {"service"}
=============================================================================
