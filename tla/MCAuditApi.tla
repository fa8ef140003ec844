----------------------------- MODULE MCAuditApi -----------------------------
\* A small instance of AuditApi.  Each choice of settings comes with the requests
\* that are posted under it: bursts against the limits, requests with flaws, and
\* events whose screenshots are downloaded with each kind of authentication.
EXTENDS AuditApi

Clean(user) ==
    [type |-> "screenshot.url.received", source |-> "s1", flaws |-> {}, version |-> "listed",
     host |-> "sense", user |-> user, crops |-> {}, contents |-> {}]
Flawed(source, version, flaws) ==
    [type |-> "object.view.duration", source |-> source, flaws |-> flaws, version |-> version,
     host |-> "none", user |-> "ann", crops |-> {}, contents |-> {}]
Unchecked == [Flawed("s1", "listed", {"payload"}) EXCEPT !.type = "audit.event"]

MCCrops == [top: {0, 2}, left: {0, 2}, width: {1, 4}, height: {2, 7, 24}, scrollTop: {0, 3, 8},
            scrollAreaOffsetY: {0, 2}, renderingOverflow: {0, 2, 14}]

Contents ==
    [type: {"selection.state.changed", "app.model.validated", "screenshot.url.received",
            "object.view.duration", "audit.event"},
     texts: {{}, TextFacts \cup TransactionFacts}, duration: {Absent, "0", "7", "7.5", "'7'"},
     visible: {Absent, "yes"}, dataStateId: {Absent, "0", "7", "7.5", "'7'"},
     details: {"empty", "some"}, paths: {Absent, "some"}, objectData: {Absent, "untyped", "typed"}]

Recorded == [Clean("ann") EXCEPT !.contents = Contents]

Base ==
    [auth |-> "none", maxEntries |-> 0, targets |-> 1, screenshots |-> FALSE, hosts |-> {"sense"},
     manager |-> TRUE, rateLimit |-> FALSE, httpLimit |-> TRUE, token |-> TRUE,
     maxSize |-> 2, maxConcurrent |-> 1,
     destinations |-> {"files"}, perEvent |-> FALSE, staticTags |-> {}, clock |-> 0,
     events |-> 1 :> Clean("ann") @@ 2 :> Clean("ann") @@ 3 :> Clean("ann") @@ 4 :> Clean("bob")]

Two(a, b) == 1 :> a @@ 2 :> b
Shots(auth, entries, a, b) ==
    [Base EXCEPT !.screenshots = TRUE, !.auth = auth, !.maxEntries = entries,
                 !.maxConcurrent = 2, !.events = Two(Clean(a), Clean(b))]

Buffered ==
    [Base EXCEPT !.destinations = {"influxdb"}, !.maxSize = 1, !.maxConcurrent = 2,
                 !.events = 1 :> Clean("ann") @@ 2 :> Clean("ann") @@ 3 :> Clean("ann")]

MCSettings ==
    {Base,
     [Base EXCEPT !.maxSize = 1],
     [Base EXCEPT !.maxConcurrent = 2, !.destinations = {}, !.maxSize = 1],
     [Base EXCEPT !.rateLimit = TRUE, !.clock = 2, !.events = 1 :> Clean("ann") @@
                  2 :> Clean("ann") @@ 3 :> Clean("ann")],
     [Base EXCEPT !.clock = 5, !.events = 1 :> Flawed("s1", "listed", {"tooMany", "token"}) @@
                  2 :> Flawed("s2", "listed", {"tooMany"}) @@ 3 :> Flawed("s1", "listed", {"tooMany"}) @@
                  4 :> Flawed("s1", "listed", {"tooMany", "schema"})],
     [Base EXCEPT !.clock = 5, !.httpLimit = FALSE, !.manager = FALSE,
                  !.events = 1 :> Flawed("s1", "none", {}) @@
                  2 :> Flawed("s2", "none", {"payload"}) @@
                  3 :> Flawed("s1", "none", {"tooMany"})],
     [Base EXCEPT !.events = 1 :> Flawed("s1", "listed", {"schema", "token"}) @@
                  2 :> Flawed("s1", "none", {"constraints"}) @@
                  3 :> Flawed("s1", "unlisted", {"payload"}) @@
                  4 :> Unchecked],
     [Base EXCEPT !.token = FALSE, !.events = Two(Flawed("s1", "listed", {"token"}), Clean("ann"))],
     [Base EXCEPT !.screenshots = TRUE, !.targets = 2,
                  !.events = 1 :> [Clean("ann") EXCEPT !.crops = MCCrops]],
     [Base EXCEPT !.events = 1 :> Recorded],
     [Base EXCEPT !.events = 1 :> Recorded, !.staticTags = {"appName", "objectType"}],
     [Shots("qpsTicket", 1, "ann", "bob") EXCEPT !.events = 1 :> Clean("ann")],
     Shots("qpsTicket", 0, "ann", "bob"),
     Shots("qpsTicket", 1, "ann", "bob"),
     Shots("userTicket", 1, "ann", "bob"),
     Shots("userTicket", 2, "ann", "unknown"),
     [Buffered EXCEPT !.perEvent = FALSE],
     [Buffered EXCEPT !.perEvent = TRUE],
     [Buffered EXCEPT !.manager = FALSE],
     [Buffered EXCEPT !.manager = FALSE, !.perEvent = TRUE],
     Shots("incomplete", 1, "ann", "bob")}

MCSizes == {<<2, 2>>, <<2, 12>>}
MCHeaders == {<<10, 30>>}
=============================================================================
