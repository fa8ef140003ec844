# Butler SOS in TLA+

Butler SOS is a Node.js service that watches a Qlik Sense Enterprise installation. It receives log and user events
over UDP, polls Sense servers for health and session metrics, accepts audit events over HTTP, and passes all of it
on to InfluxDB (v1, v2 or v3), Prometheus, New Relic, MQTT and files. This directory specifies it from the moment
something arrives (a datagram, a request, an answer to a poll) to the moment it is stored, published or given up. What is
left out is set-up and pure input and output (section 5). Paths below are relative to `src/lib/` unless they start with `docs/`.

The program is one Node.js process. Nothing runs in parallel, but every `await` lets other callbacks run, and
`setInterval` does not wait for a callback that is still waiting for the network. **An action of these modules is the
code that runs between two awaits**; a section under an `async-mutex` that touches no network is one action, because
nothing else can observe its middle. Nothing but exported files and what InfluxDB has accepted survives a restart.

## 1. Inventory

| Component | State it keeps | Operations | Talks to | Module |
|---|---|---|---|---|
| UDP queue manager (`udp-queue-manager.js`, `udp_handlers_*.js`) | p-queue, counters, rate limiter, backpressure flag, processing times | `validateMessageSize`, `checkRateLimit`, `addToQueue`, the job, `handle*Drop`, `getMetrics`, `clearMetrics` | socket callbacks, message handlers, metrics timer | `UdpQueue` |
| Queue metrics storage (`influxdb/index.js`, `influxdb/*/queue-metrics.js`) | the interval timer | read, write, clear | queue manager, InfluxDB | `QueueMetrics` |
| Sense event handlers (`udp_handlers/*`, `log-event-categorise.js`, `udp-event.js`) | none between messages | parse, filter, count, categorise, exclude, publish | queue jobs, event counters, publishers, app names | `SenseEvents` |
| App names (`appnamesextract.js`) | the table of names | a request per interval, the table replaced | Qlik repository, handlers | `SenseEvents` |
| Event publishers (`post-to-*.js`, `influxdb/v*/{log,user}-events.js`) | none | build and send to MQTT, InfluxDB, New Relic | handlers, error tracker | `EventPoints`, `SenseEvents` |
| Pollers (`healthmetrics.js`, `proxysessionmetrics.js`, `service_uptime.js`) | `isCollecting`, a timer each | a round over all targets per interval | Qlik Sense, publishers | `Pollers` |
| Metric points (`influxdb/v*/*`, `globals/influxdb.js`, `prom-client.js`, `post-to-*.js`) | the gauges | build the points, metrics and topics of a reading | pollers | `MetricPoints` |
| Event counters (`udp-event.js`, `influxdb/*/event-counts.js`) | three arrays of counters, a mutex each | `add*Event`, `get*`, `clear*`, the storage timer | message handlers, InfluxDB | `EventCounts` |
| InfluxDB batch writer (`influxdb/shared/utils.js`) | none between calls | retry after a time-out, smaller batches after a failure | InfluxDB client, error tracker | `InfluxWrite` |
| Error tracker (`error-tracker.js`) | counters per API and server, date, midnight timer | `incrementError`, `resetCounters`, the daily summary, error events | everything that can fail; InfluxDB | `ErrorTracker` |
| Audit events API (`audit-events-api.js`) | rate limiters, throttled warnings per source | admission, answer, processing | browser extension, queue, screenshots, destinations | `AuditApi`, `AuditJobs`, `RateWindow` |
| Audit screenshots (`audit-screenshots.js`, `audit-screenshot-session-cache.js`, `audit-screenshot-metadata-image.js`) | LRU cache of Qlik sessions | download in up to three attempts, session clean-up, crop, save | Qlik Sense, file system | `AuditScreenshots`, `ScreenshotImage` |
| Audit file destinations (`audit-destinations/shared/base.js`, `parquet`, `qvd`, `json`) | buffer, `flushQueued`, `flushPending`, timer; the export directory | `bufferEvent`, `requestFlush`, `flushBuffer` | audit API, file system | `AuditFileDestination`, `AuditRecords` |
| Audit InfluxDB destination (`audit-destinations/influxdb/*`) | buffer, `flushQueued`, timer | `bufferAuditInfluxEvent`, flush jobs | audit API, its queue, InfluxDB | `AuditInfluxBuffer`, `AuditRecords` |
| InfluxDB set-up (`globals/influxdb.js`, `audit-destinations/influxdb/init.js`), configuration, process life cycle, certificates and packaging | read-only after start | start-up in sequence | everything | not modelled |

How they interact: a datagram reaches a socket callback, which puts a job in the UDP queue; the job runs a message
handler, which counts the event and starts its publications; two interval timers later read the counters, write them to
InfluxDB and clear them. Other timers poll Qlik Sense and hand every reading to the same publishers. An audit event is
admitted by the HTTP API, answered with 202, and then processed by a job of a second queue manager, which may fetch
screenshots and finally puts a record in the buffer of each destination. Every failure anywhere is counted by the error
tracker, which writes error events to InfluxDB itself.

What is hard, and so what the properties are about:

* **Read, wait, clear.** Both metrics timers read counters, await a write, then clear whatever the counters hold by
  then; two firings of one timer can overlap.
* **Check, wait, act.** `addToQueue` compares the queue's size with its limit in one mutex section and adds the job in
  another step; callbacks of other datagrams run between them.
* **Answers late or out of order.** App names are fetched by requests that overlap; a cached session may be replaced,
  evicted or rejected while another download presents it.
* **One failure among several steps.** A batch rejected in part, a server of a round that does not answer, an account that
  refuses a post, a file left unfinished, a failure that is swallowed and taken for a success.
* **Several hands for one job.** Three InfluxDB versions and four other destinations build the same record separately.
* **State thrown away.** Throttled warnings are forgotten, sessions are evicted, error counters are reset twice at midnight.
* **Limits and thresholds**: full queues, window borders of the rate limiters, batch sizes, crop rectangles outside of the image.
* **Eventually**: flushes that were asked for during a flush, jobs that wait, rounds that must end, counts that nobody stores.

`PROJECT.json` lists each hazard at its line with the properties that watch it.

## 2. Modules

| Module | Models | Shape |
|---|---|---|
| `RateLimiter` | `RateLimiter` of the queue manager | operators over a state record |
| `RateWindow` | that limiter with a clock | state; part of `AuditApi` |
| `BoundedIntake` | what a bounded queue promises its callers | abstract specification |
| `UdpQueue` | the queue manager and the socket callbacks | state machine; implements `BoundedIntake` |
| `QueueMetrics` | the queue-metrics timer over `UdpQueue` | composition (EXTENDS `UdpQueue`) |
| `EventPoints` | what is made of a Sense event for each destination | operators |
| `SenseEvents` | the message handlers, their publications, the app names | state machine over `EventPoints` |
| `MetricPoints` | what is made of a reading for each destination | operators |
| `Pollers` | the polling timers, their rounds and publications | state machine over `MetricPoints` |
| `EventCounts` | the event counters and their timer | state machine |
| `InfluxWrite` | one call of the batch writer | state machine |
| `ErrorTracker` | the daily counters, the midnight timer, the error events | state machine |
| `AppendOnlyLog` | what a buffered destination promises | abstract specification |
| `AuditFileDestination` | the Parquet and QVD buffer and its files | state machine; implements `AppendOnlyLog` |
| `AuditJobs` | audit events, settings, and the queue of their jobs | state and operators; the base of the next two |
| `AuditInfluxBuffer` | the InfluxDB audit buffer and its flush jobs | part of `AuditApi` |
| `AuditScreenshots` | downloads and the session cache | part of `AuditApi` |
| `ScreenshotImage` | crop stages, encodings, the copy with a header | operators |
| `AuditRecords` | row, document and point of one audit event | operators |
| `AuditApi` | from the request to the record | composition (EXTENDS the five above and `RateWindow`) |
| `UdpQueueProofs` | `UdpQueue`, `QueueMetrics` and the intake | theorems |
| `SenseEventsProofs`, `PollersProofs`, `EventCountsProofs`, `InfluxWriteProofs`, `ErrorTrackerProofs`, `AuditFileDestinationProofs`, `AuditApiProofs` | the module of that name; `AuditApi` with its parts | theorems |
| `MC*` | | model values, symmetry, settings and messages |

Where a module has several settings of the configuration file to choose from, they are one record, `settings`, chosen in
`Init` from a set and never changed: the configuration is read once. `SettingsSet` of the `MC` module lists the
ones TLC checks, one for each code path that a setting selects.

### UdpQueue

`stage[m]` is the point the callback or job of message `m` has reached, `queue` is p-queue's list of waiting jobs,
`metrics` the counters, `limiter` the rate limiter's record, `backpressureActive` the flag. A callback goes `Receive`
(source check, size check, rate limit: one disjunct for every early return), then `Admit` or `RefuseFull` (the size
check of `addToQueue` and the backpressure update, one mutex section), then `Enqueue` (`queue.add`). A job goes
`ProcessingSettles`, then `CountProcessed` or `CountFailed` (one mutex section), then `FreeSlot`, which is p-queue's own
step: it starts the oldest waiting job. `ClearMetrics` may happen at any time, as the timer may. `cleared` and `logged`
are history: what `clearMetrics` threw away and what the drop log has announced.

`CountsExact`: every counter plus what was cleared of it equals the number of messages that took the counted step.
`CapacityRespected`: the check-then-add gap lets the queue overshoot by at most `MaxInFlight - 1`, never more than
`maxConcurrent` jobs run, and none waits while a slot is free. `RefusedOnlyWhenBusy`: a message is refused for lack of room only while all slots are busy
and `MaxSize` jobs wait. `DropsAnnounced`: no drop is announced twice or forgotten for good. `WarnedBeforeRefusing`: with
callbacks that do not overlap and a threshold the size can reach, backpressure is on before a message is refused.
`ImplementsIntake` is checked under weak fairness of each message's own steps.

### QueueMetrics

Each firing of the interval is a process: `GetMetrics`, then `WriteSucceeds` or `WriteFails`, then `ClearAfterWrite` (only
after a success). `PointsAddUp`: every point is a consistent cut of the queue, although callbacks and jobs count between the
read and the write: what was received was queued or dropped, and every drop has a reason.

### SenseEvents and EventPoints

`stage[m]` follows a message through its handler, which suspends once, on the call that counts it. Before that come one action for
each early return (`SkipLogEvent` for a source that is off, `SkipPerfEvent`, `RejectPerfEvent`, `SkipUserEvent`) and
`ReceiveLogEvent` or `ReceiveUserEvent`; after it `PublishLogEvent`, `FailLogEvent`, `ExcludeUserEvent` or `PublishUserEvent`. `sending[m]` are the
publications that were started and that nobody waits for; `received[m]` is who got the event, `errors[m]` which errors were
counted. New Relic's accounts are a loop of `PostToNewRelic` steps that one failure ends. `GetAppNames`, `AppNamesArrive` and
`AppNamesFail` are the app-name timer: `fetching` holds the answers that are under way, in no order, and
`RepositoryChanges` is the world. A message is a record that says which columns it fills and which filter texts it matches.

`Accounted`: every message is counted exactly as often as its outcome says, nothing leaves unless it was published, and a
destination that should have an event and has not left an error behind (two exceptions, stated with the property).
`PayloadsAgree`: the three InfluxDB points of one event, built by three files, have the same tags and fields, up to
the `_field` suffix, numbers that do not parse and tags whose column is empty (v2 has no default for those and drops them), no tag and field of version 3 share a name that the settings did not
choose, and New Relic gets the same tags and no user names of its own when they are scrambled. `NamesCatchUp`: although an old answer may replace a newer one, the table of names becomes the repository's list.

### Pollers and MetricPoints

`rounds[c]` holds the rounds of collector `c` that are under way; `isCollecting` makes it one at most (`Tick`). A round asks its
targets one by one (`Ask`), and each request is answered with a body, with a status without one, or fails (`Answer`,
`AnswerWithoutBody`, `FailToAnswer`). `Answer` is everything the code does with a reading before the next `await`: start the publications
(`sending`), set the gauges, count what fails at once, or let a promise reject that nobody awaits (`unhandled`). The three
InfluxDB versions differ in what they refuse, throw and count, which `InfluxSends`, `InfluxCounts` and `InfluxThrows` say.
`UptimeTick` is the report of Butler SOS' own memory.

`GaugesGoForward`: a gauge never goes back to an older reading. `RoundsEnd`: no server can stop the polling.
`RoundsAreWhole`: no failure of one target keeps another from its turn. `ReadingsAccounted`: a reading is at every destination that is on,
under way to it, or counted as an error (or logged as an unhandled rejection). `DestinationsAgree`: points, schema,
metrics and labels list the same measurements, fields, numbers and tags.

### EventCounts

A counter is the set of events it counted. The getters return the live array, so a firing that has it sees later events
until a `clear` puts a new array in its place: `holds[f]` are the kinds whose live array firing `f` has and `detached[f]` the
events in arrays that were replaced since. The three InfluxDB versions differ in what they do with a failed
write and in whether a missing counter object throws inside or outside their `try`; `config` holds the setting a behaviour runs with, and selects the code path.
`IdleCountsSurvive` and `IdleCountsReported` state what the timer does guarantee: what is counted while no firing is under way
is not cleared before it is in a point (v1), and gets there. `WrittenOnce` (v2, v3, one callback at a time): no event is in the points of two writes.
A write is a whole call of the batch writer (`EndWrite`): it stores some or all of its points, each once or, after time-outs and failed chunks, several times, and
with no time stamp each time is a point more. How often is `InfluxWrite`'s subject (`DuplicatesBounded`).
`RejectedLeaves`: with settings that get to them, rejected events do not stay in their counter for ever.

### InfluxWrite

One call: for each size of `<<maxBatchSize, 500, 250, 100, 10, 1>>` not above the configured one (`ProgressiveSizes`) the points are cut into chunks, each
chunk is written with up to `MaxRetries` retries after a time-out, and a pass with a failed chunk is repeated from the
first point with the next size. InfluxDB may fail before or after it stored the chunk, may store a part of it, and never accepts
the points in `poison`. `ReturnedMeansStored`: a call that returns normally has stored everything. `PoisonIsolated`: when
it throws, all points but the poisonous ones are stored. `DuplicatesBounded`: no point is stored more often than passes were
made. `Ends`: it ends.

### ErrorTracker

`incrementError` resets the counters when the date differs from `lastResetDate`; the midnight timer resets them whatever their date.
`errors` and `early` are history: the errors of each day and those of them that were counted before
that day's timer. Each error is also an event to write to InfluxDB: `pending[n]` counts the events that are at batch size `n`
of the writer, `EventFails` counts an error for each size that fails, which is one more event, and
`InfluxChanges` takes InfluxDB down and up. `CountsAreOfOneDay`: the counters never mix days, and what they lack are early errors. `DaysSummarised`: a day
whose summary is missing was followed by early errors. `ErrorsQuiesce`: however many events the failed ones have bred, they are
gone some time after InfluxDB has come back for good.

### AuditFileDestination

`buffer`, `flushQueued`, `flushPending` and the timer are the module's variables in `base.js`; `rows` and `file` are the local
variables of a `flushBuffer` that awaits `writeRows`; `files` is the export directory. `RequestFlush(b)` is `requestFlush` with `b`
as the buffer: nothing to do, a flush under way (then `flushPending`), or `StartFlush`, which takes the whole buffer and picks
the first free part of the day. `LoopOrLeave` is the `do ... while` and the `finally`. A write may fail and leave nothing or an
unfinished file, which counts as taken but holds no rows; `Restart` empties the memory and keeps the directory. `Lossless` is the
invariant everything rests on: `accepted = stored \o rows \o buffer`. `FilesHoldTheLog` reads the directory in the order of file
names (`Contents`) and gets what was `stored`; `FilesAreFinal`: no file is overwritten; `EverythingStored`: with the timer, everything accepted
is stored or lost by a restart. The events are taken to be valid
and the configuration complete, as the schema makes sure. `AuditRecords` has the columns, and the JSON destination, which
writes a file per event and keeps no state.

### AuditApi

`AuditJobs` holds what the parts share: `settings` (with the events that are posted under them), `stage[j]` of every event and
flush, and `queue`. Its `Admitted`, `Enqueued` and `Ended` are `UdpQueue` reduced to the size of the queue and its slots.

* **The request** (`AuditApi`): `Turned` and `Taken` are one POST up to its first suspension. `Checks` lists the checks in their order
  with the status each answers with; `Notice` is the throttled warning with the clean-up of its table. Then the rate limit of
  the queue (`RateWindow`), `Admit` (202 or 503) and `Enqueue`. Without a queue the event is worked on before it is answered.
* **The picture** (`AuditScreenshots`): `downloads[r]` is an attempt: the ticket it needs or the session it presents
  (`used`), the session Qlik opened for it (`cookie`), whether that went into the cache (`kept`), redirects, files. One action for every kind of
  answer: `Redirected`, `Refused`, `NotYet`, `SessionRejected`, `Picture`; `NoAnswer` for one that does not arrive whole (a time-out, more than 50 MB); `Throws` for the other exceptions; `Leave` is the `finally`
  block, which deletes the session unless it is cached. Qlik may have opened a session before a `NoAnswer`: `lost[r]` counts these, as nobody has their cookie. `CacheBecomes` is the `dispose` callback. `ScreenshotImage` computes what the bytes written
  show: a picture is the sequence of rows and of columns of the rendered image that are in it.
* **The record** (`AuditRecords`): what `extractAuditEventFields`, `writeAuditEventToJson` and `buildAuditInfluxPointModel` make of
  the same event.
* **The flushes** (`AuditInfluxBuffer`): a flush is asked for by `BufferEvent` or `Interval` (`RequestFlush`), then `AddFlush` adds its job or finds the queue
  full, then `FlushNow` or `NothingToFlush`, then `WriteSucceeds` or `WriteFails`. `EndFlush` is the `finally` of the job: it resets `flushQueued` even
  if a later flush has set it. Unlike the file destinations this one is no log: flushes overlap, and one that fails puts its points in
  front of newer ones, or behind those a later flush has stored.

`AnswersHold`: an event answered 202 is handed to the destinations exactly once, one that got another answer never, and the pictures a stored event names are on disk.
`WarnedOncePerWindow`: whatever is thrown away, each source is warned about once a window and no more. `AnySpanBounded`: a fixed
window lets at most twice the limit through in any span of its length. `SessionsKept`: every Qlik session whose cookie was read is cached, or
was given back, or has an owner that is about to decide; none is deleted while it is cached; a rejected one is not presented again by the same download; and of the
sessions nobody can give back, because the answer that opened them did not arrive whole, an event leaves at most one per attempt.
`PicturesSound`: the bytes saved are what the user saw, in every combination of crop stages. `RecordsAgree`: the destinations differ only where `Differs` says so.
`AtLeastOnce`: an event that was processed is in memory once or in InfluxDB, in both only after a failed flush. `JobsEnd` and
`AcceptedIsStored`: everything accepted is worked through, and stored; with `writeFrequency: 0` only if no flush fails or is refused
and, without a queue, if the event does not come while the flush of another is being written (`passedOver`).

Abstractions: `AddFlush` is one step (the gap between check and add is left to `UdpQueue`), and so is the write of a flush (its chunks are `InfluxWrite`'s);
a ticket opens one session, with an answer that sets a cookie or one that is lost; the client exists and is not replaced at run time; the order in which the files of one storage
target are written is left out; the test-connection handler changes no state.

## 3. Runs

| Run | Bounds | Shows |
|---|---|---|
| `udp_queue_metrics` | 4 messages, 1 slot, 1 waiting place, 2 callbacks at once, 2 firings one after the other | exact counters and a bounded queue with writes that fail and clears between any two steps; the points in InfluxDB add up |
| `udp_queue_intake` | 4 messages, 1 slot, 2 places, 1 callback at a time, 3 messages per window, 2 ticks, threshold 50%, fair | refinement and with it liveness, the drop log, the warning before a refusal |
| `sense_events` | any 2 of 9 messages (each source, readable and unreadable numbers, empty columns, incomplete and excluded users), 4 settings, 2 requests for names at once, 1 change of the list | every message accounted for, points that agree in every version, names that catch up |
| `pollers` | 2 engines, or 1 with a virtual proxy; 2 firings of each timer; 4 kinds of bodies; settings for every destination, InfluxDB version, missing certificate or write API | rounds that end and leave nobody out, readings that are accounted for, gauges that go forward |
| `event_counts` | 4 settings (see `MCEventCounts`): v1 with two events and two firings at once, v2 and v3 with three events and one, v2 without event counts | what is counted while the timer rests is reported (v1); nothing is in the points of two writes (v2, v3); rejected events are got to |
| `influx_write` | 4 points, any of them unacceptable, sizes 4, 4, 2 and 1, one retry | returning means stored; only unacceptable points are missing; every call ends |
| `error_tracker_days` | 3 days, 2 kinds, 2 errors of each per day, 2 batch sizes | the counters hold errors of one day only; which days get no summary; error events come to an end |
| `audit_files_timer` | 5 events, batches of 2, 2 failures, 2 days, 1 restart | the destination is an ordered log without loss |
| `audit_api` | up to 4 events under 21 settings, 2 flushes, batches of 2, 2 failed flushes, 2 attempts, 1 redirect, windows of 3 ticks, clean-up every 3, state kept for 4, up to 5 ticks | answers that hold, sessions that are given back, warnings that are neither lost nor repeated, sound pictures, equal records, and nothing lost on the way to InfluxDB |

The bounds are the smallest at which each hazard occurs: more messages than slots, places and overlapping callbacks
together, so that the queue overshoots and refuses; two firings, because a third adds no new pair; a largest batch size that
is also the next one to try; more events than two batches, so that one
fails while another is buffered; two attempts, so that there is a first, a repeated and a last one; two downloads, of one
user and of two, so that sessions are shared, replaced and evicted; a clock that crosses window, clean-up and
expiry of a throttle. Of the code's constants, `audit_api` has 2 of 3 attempts and 1 of 5 redirects, `influx_write` 4 of 6 sizes and 1 of 3
retries, `error_tracker_days` 2 of up to 6 sizes: all are loops whose middle turns are alike.
`MaxInFlight`, `MaxClock`, `Firings`, `Flushes`, `atOnce`, `events`, `MaxOverlap`, `MaxFailures`, `MaxDay`, `MaxCrashes`, `MaxErrors`, `MaxArrivals`,
`MaxChanges`, `MaxFetching`, `MaxTicks` and `clock` are bounds of the
models, not of the program; each is a guard and is named in its module. Symmetry is used only in `udp_queue_metrics`, which has no
liveness property; messages and firings are interchangeable there.

Where the requests or events of a behaviour are finitely many, `[]<>(everything is done)` (`JobsEnd`, `RoundsEnd`, `AcceptedIsStored`) says the same as
"each one ends", and is what TLC checks fastest.

### Where the program does not do what it says

Each of these runs checks one statement of a doc, a template or a comment and finds it violated; `PROJECT.json` quotes the line.

| Run | What happens |
|---|---|
| `udp_queue_backpressure_stuck` | backpressure is re-evaluated only when a message is added, so it stays on over an empty queue |
| `event_counts_failed_write` | v2 and v3 swallow a failed write, and the counters are cleared although nothing was stored |
| `audit_files_per_event` | `writeFrequency: 0` is said to write every event and instead waits for a full batch |

The models show more of the kind, which no run is spent on.

In the queues and timers:

* A threshold of 100 (`backpressureThreshold` is a percentage, 100 is allowed) is never reached, because the size is read before the add: the queue drops messages and
  `WarnedBeforeRefusing` fails.
* What is counted while a metrics point is being written is cleared unreported, in `QueueMetrics` and, in any version, in `EventCounts`: hence "while the timer
  rests" in its properties. `udp-event.js:359` says the counters are cleared "after they've been stored".
* A write that outlasts the interval lets the next firing store the same queue metrics again.
* With `rejectedEventCount` on and `eventCount` off, v1 and v3 throw before they get to the rejected events; with `eventCount` alone the timer is never started (`butler-sos.js:364`).
  `ReachesRejected` is the set of settings that work.
* An error counted between midnight and the timer callback is wiped out by the callback, and the old day's summary with it: the exceptions in `CountsAreOfOneDay` and `DaysSummarised`.
* While InfluxDB is down each error event that cannot be written counts up to six more errors, one for each batch size, each with an event of its own. Nothing
  in the repository bounds them; `ErrorsQuiesce` only says that they end when InfluxDB is back.

In the handlers and pollers:

* A rule with the action `drop` leaves a log event without categories but does not drop it: the handler looks only at the category (`udp_handlers/log_events/message-event.js:144`).
* A performance event that meets a rule of its own level makes the categoriser throw, as it has no `message`; the event ends as an error (`FailLogEvent`).
* A log message of an unknown source is counted with its row as host and its host as subsystem (`SkipLogEvent`).
* An account of New Relic that fails ends the loop over the accounts; for log events the failure is not even counted. Health metrics (`post-to-new-relic.js:305`) and proxy sessions
  (`:464`) go to the accounts of the user events.
* The InfluxDB versions treat a failing health write differently: v1 counts it and throws again, which nobody catches, v2 refuses negative counters, v3 sets them
  to 0 and builds its points outside of its `try`.
* InfluxDB v2 drops the tags of a log event whose column is empty, where v1 and, for performance events, v3 store a default (`v2/log-events.js:157`, `v1/log-events.js:129`,
  `v3/log-events.js:147`). A performance event whose session ids are no UUIDs is such a one (`qix-perf-handler.js:189`, `:193`): the exception in `PayloadsAgree`.
* `audit-destinations/influxdb/init.js:212` compares `destinationType` with one name, so the creation of a database is skipped where the setting lists several.

In the audit pipeline:

* `buffer.js:241` resets `flushQueued` "If enqueue fails", but the `finally` does so after a success too, so several flush jobs can wait and run at once; they find the buffer
  empty or take what is new, and `AtLeastOnce` holds all the same.
* `docs/audit.qs/AUDIT_EVENTS_INFLUXDB_DESTINATION.md` says `writeFrequency: 0` flushes each event immediately; a flush that fails or meets a full queue leaves the event
  until the next one arrives. Without a queue manager an event that comes while a flush is being written is left in the same way, though nothing has failed: `flushQueued` stays set for the
  whole write (`buffer.js:213`, `:248`). These are the exceptions in `AcceptedIsStored`.
* A request for a picture that times out or brings more than 50 MB (`audit-screenshots.js:1631`) may have opened a session at Qlik. Nobody has read its cookie, the `finally` (`:2017`)
  deletes nothing, and the licence stays taken until the session times out: hence "whose cookie was read" in `SessionsKept`.
* The destinations differ (`Differs`): InfluxDB loses a `dataStateId` of 0, rows have no fractional durations but accept strings of digits, static tags replace the
  tags of the same name in InfluxDB, and only InfluxDB keeps the `enter` and `leave` transaction ids.
* `audit-destinations/influxdb/factory.js` and its three writers are called by nobody, and read a setting that does not exist (`influxdb.version` instead of `metadata.version`).

### Fairness

Fairness is weak, with two exceptions, and of steps that the Node.js event loop takes by itself: a promise that has settled resumes its
`await`, `setInterval` goes on firing, a request to Qlik, InfluxDB or the file system settles. Arrivals, failures, clears, midnight, restarts,
the end of a session and InfluxDB coming back are never forced.

* `ImplementsIntake` assumes that a message handler settles, which they do: each catches its own
  errors and its network calls have time-outs. `JobsEnd` and `AcceptedIsStored` assume the same of requests, downloads and flushes, each in turn.
* `RoundsEnd` needs only that a round goes on (`RoundGoesOn`): every request to an engine or proxy has a time-out of five seconds, and any outcome will do.
* `ErrorsQuiesce` assumes that a write to an InfluxDB that is up ends, and states in its antecedent that InfluxDB comes back for good.
* Strong fairness is asked for twice. `IdleCountsReported` assumes that a write that is tried again and again succeeds at some time (`WriteSucceeds`);
  `NamesCatchUp` that a repository that is asked again and again answers at some time (`AppNamesArrive`).

## 4. Proofs

The theorems hold for every value of the constants that the named ASSUMEs allow: any messages, sizes, settings, numbers of firings and failures. The
ASSUMEs say what the configuration's schema makes sure of (a list is a list, a size is positive) or what a model value stands for (two entries of the
configuration are two targets); TLC evaluates them on every run. Three are about settings:
`SourcesAssumption` (a source that is switched on is one with a handler: the handlers read five named switches, `message-event.js:43`),
`ScreenshotImageAssumption` (a rendered image has at least a row and a column) and the crops of `AuditApiAssumption` (a
crop rectangle is seven numbers, of any sign and size: `normalizeCrop` brings them into range). TLC also checked every inductive
invariant below on the instance of its run (`IInv` of `UdpQueue` on the intake with three messages; the spans of `WindowInv`, which begin at any integer,
with those that begin from -12 to 12).

| Theorem | Says | States |
|---|---|---|
| **`UdpQueueProofs`** | | |
| `TypeCorrect` | the types of the queue manager's variables | |
| `CountsStayExact`, `CountsStayExactUnderTimer` | no counter loses or invents a message, with and without the timer that clears them | `CountsExact` |
| `QueueStaysBounded`, `SlotsStayUsedWell`, `CapacityIsRespected` | how far the queue overshoots; slots are neither overdrawn nor idle while a job waits | `CapacityRespected` |
| `QueueAlwaysMatchesStages` | the queue is exactly the messages that wait | |
| `RefusalsAreJustified` | refused only while busy and full | `RefusedOnlyWhenBusy` |
| `DropsAreAnnounced` | no drop is announced twice or forgotten | `DropsAnnounced` |
| `WarningsComeFirst` | backpressure before the first refusal, if `WarningHasRoom` | `WarnedBeforeRefusing` |
| `IntakeIsKept` | the queue manager implements the safety of `BoundedIntake` | |
| `StoredPointsAddUp` | every metrics point is a consistent cut | `PointsAddUp` |
| **`SenseEventsProofs`** | | |
| `EveryMessageIsAccounted` | counted as its outcome says; missing only where an error was counted | `Accounted` |
| `AllPayloadsAgree` | three versions of InfluxDB and New Relic are given the same event, up to empty columns and unreadable numbers | `PayloadsAgree` |
| **`PollersProofs`** | | |
| `RoundsStayWhole` | no failure of a target keeps another from its turn | `RoundsAreWhole` |
| `GaugesNeverGoBack` | late answers never overwrite newer ones | `GaugesGoForward` |
| `NoReadingIsLost` | a reading is at, or under way to, each destination, or left a trace | `ReadingsAccounted` |
| `AllDestinationsAgree` | points, schema, topics, metrics and labels are of the same reading | `DestinationsAgree` |
| **`EventCountsProofs`** | | |
| `IdleCountsAlwaysSurvive` | v1: what is counted between firings is never cleared unreported | `IdleCountsSurvive` |
| `NothingIsWrittenTwice` | v2, v3: no event is in the points of two writes while callbacks do not overlap | `WrittenOnce` |
| **`InfluxWriteProofs`** | | |
| `ReturnsOnlyWhenStored` | a call that returns has stored everything | `ReturnedMeansStored` |
| `PoisonStaysIsolated` | unacceptable points take no others with them | `PoisonIsolated` |
| `DuplicatesStayBounded` | no point is stored more often than sizes are tried | `DuplicatesBounded` |
| `EveryStepAdvances`, `PlacesAreBounded` | each step of a call gets further, and there are finitely many places to get to | |
| **`ErrorTrackerProofs`** | | |
| `CountsStayOfOneDay` | the counters never mix days | `CountsAreOfOneDay` |
| `DaysAreSummarised` | which days have a summary | `DaysSummarised` |
| **`AuditFileDestinationProofs`** | | |
| `NothingLost` | no row is lost, repeated or reordered | `Lossless` |
| `DestinationIsLog` | the destination implements `AppendOnlyLog` | `ImplementsLog` |
| `FilesNeverRewritten` | no file is written a second time | `FilesAreFinal` |
| `DirectoryIsTheLog` | the files, read by name, are what was stored, in order and each row once | `FilesHoldTheLog` |
| `TypesHold` | the types of the destination's variables | |
| **`AuditApiProofs`** | | |
| `SpansStayBounded` | a fixed window lets at most twice its limit through | `AnySpanBounded` |
| `WarningsStayRare` | one warning per source and window, although states are thrown away | `WarnedOncePerWindow` |
| `NoSessionIsLost` | every Qlik session whose cookie was read is cached, given back or about to be decided on; at most one per attempt is lost otherwise | `SessionsKept` |
| `AnswersAreKept` | 202 means handed over once, another status never | `AnswersHold` |
| `EventsReachInflux` | nothing processed is lost on the way to InfluxDB | `AtLeastOnce` |
| `PicturesAreSound` | what is saved of a picture of any size, for any crop rectangle, is what the user saw | `PicturesSound` |
| `AllRecordsAgree` | row, document and point of one event agree but where `Differs` says so | `RecordsAgree` |

### The inductive invariants

**UdpQueue.** `CountsExact` compares counters with cardinalities of sets of messages; the lemmas `MoveOne` and `StepOne` say by how much such a
cardinality changes when one message moves. Most other results need

    IInv == TypeOK /\ InFlightBounded /\ QueueInv /\ SlotsUsedWell /\ QueueBounded

because the bound alone is not inductive: that an `Enqueue` keeps it depends on how many callbacks are between check and add (`InFlightBounded`), and
that `FreeSlot` starts a waiting job depends on the list being exactly the waiting messages (`QueueInv`).
`WarningsComeFirst` has a hypothesis, `WarningHasRoom`: `100 * (MaxSize - MaxInFlight) >= BackpressureThreshold * MaxSize`. Without
it the statement is false, as section 3 says of a threshold of 100; with the defaults of the configuration (a queue of 200, a threshold of 80%) it allows 40
callbacks between check and add. `IntakeIsKept` proves that initial states and every step of `UdpQueue` map to `BoundedIntake`'s; the
fairness half of `ImplementsIntake` is left to TLC. `StoredPointsAddUp` needs that not only what is stored adds up, but also the counters at any moment
they may be read and what each firing has read (`CutsAddUp`).

**SenseEvents.** `Accounted` speaks of messages that are done. `MessageInv` says what holds of one that is not: counted on arrival and only
then, nothing sent or received before it is published, and afterwards, for each destination, that the publication is under way, has arrived or was counted
as an error. For New Relic that is a statement about the loop: an account that should have the event has it or is still on the list. A step
of one message leaves the others alone (`Touches`, `OthersFit`), and the app name timer leaves all of them alone. `AllPayloadsAgree` needs of the states only that a log event
comes from a source that has a handler (`SourcesKnown`), as the columns of any other are undefined; the rest is about the tables: each version is compared with
the next (`LogFieldsAgree`, `UserFieldsAgree`) for any set of columns that the event fills and any tags and categories that the settings add.

**Pollers.** A gauge goes forward because the reading a round waits for is the last one its target was asked for (`RoundsFit`), which needs that a
collector has one round at a time and that no two collectors share a target. `TurnsFit` counts the turns: a target was asked once in each round that was begun,
except that its turn may still come; that needs a round's list to have no entry twice. `AccountInv` adds what each reading is owed, and what the loop over
the accounts has left to do (`PostsFit`); that a reading stays accounted for at the gauges follows from their going forward. `AllDestinationsAgree` holds of any
settings, so it needs no invariant: `FieldsOf` gives the fields of a point, and then the versions are compared measurement by measurement.

**EventCounts.** For v1 (`Survival`): who is about to clear has reported what was counted between firings, and what is still live is in the very
arrays the firings hold, none of which has been replaced since. For v2 and v3 (`Once`): what may still be in a counter although it was in the points of a write is
exactly what the one firing has written and has still to clear.

**InfluxWrite.** The induction follows a pass. Of the chunks behind it each is stored or known to have failed, and failed only over poison when nothing else fails
(`PassSettled`); points the pass has not come to are one pass behind (`OncePerPass`, `OnceWithoutPoison`). That the chunks of a size cover the points, each once, is
the division lemma `Division` and what is built on it. The last size is 1, which is why only poison is left over. `EveryStepAdvances` is the variant of the loops: batch size, chunk, attempt and wait, in this order,
never go back; with `PlacesAreBounded` a call takes at most `2 * (MaxRetries + 1) * Points * Len(Sizes)` steps. That it takes them is the fairness half of `Ends`, and TLC's.

**ErrorTracker.** The counters are reset no later than the timer notes the day (`DatesInOrder`); until the timer has run on a day all its errors are early
(`EarlyUntilTimer`); counters of a day the timer has not run on were reset by an early error (`EarlyResets`), and early errors of the day it has run on were in its summary
(`EarlySummarised`). The last two explain every day without a summary.

**AuditFileDestination.** `Lossless` with the fact that rows are in flight only while `flushQueued` is set: without it a second flush could start over the
rows of the first. The argument regroups `stored \o rows \o buffer` at every step. The refinement follows: only `WriteSucceeds` stores, and by `Lossless` it stores
the part of `accepted` that comes next. Among one more parts than there are files one is free (pigeonhole), and it is still free when the rows are written.
For `DirectoryIsTheLog` (`DirectoryInv`) names have to follow arrivals: the parts of a day are there without a gap (`PartsBefore`), unfinished ones included, so the first free part is
also the last, no name is of a later day than today, and a name chosen before midnight still comes after all that are there when its rows arrive. A name that comes after all others
takes the last position and leaves the others theirs (`PositionsAfter`, `PositionsFit`), so the directory's content grows at its end (`ContentsAfter`). `FlattenSeq` of the community modules is
defined by recursion; the lemmas `FlattensExists` to `FlattenAppended` find what it computes without induction over data, from the first length at
which it could go wrong (`LeastOf`).

**AuditApi.** Seven invariants, one of them for the others, and two results about data:

* `WindowInv`: a span of a window's length meets at most two windows of the limiter, the current one (`CurrentWindow`) and those before it (`EarlierWindows`, a
  bound on every span that begins before the current window).
* `ThrottleInv`: what is kept of a source is its last warning (`KeptIsLastWarning`), and a source is forgotten only when its warnings are older than the state is
  kept (`ForgottenIsOld`), which is longer than a window.
* `JobInv`: the queue is exactly the jobs that wait, each once. The other invariants need it because a job that ends hands its slot to another.
* `SessionInv`: every session whose cookie was read is in the cache, asked to be deleted or the `cookie` of one download, never of two; the session a download presents was
  asked for or is in the cache under the download's own key; what it has rejected was asked for. The entries of the cache have distinct keys and sessions, which replacing, evicting and
  touching one keep (`Removed`, `Appended`, `WithoutKey`, `TouchedKey`). `LostInv`, for the sessions that are lost: the attempt under way has not lost any yet, and only attempts that are left are made again.
* `AnswerInv`: `AnswersFit` says which answers go with which stages of an event, `StoredFits` that an event is handed over once, when its job is at its end,
  and that the pictures it names are on disk.
* `BufferInv`: buffer and flushes hold no event twice and share none (`MemoryFits`); an event is there from when it was processed until it is in
  InfluxDB, and in both only after a flush put it back (`EventFits`).
* `PicturesSound` needs of the state only that the settings are among those allowed, `RecordsAgree` nothing. A picture at any stage is an excerpt of the rendered one, rows and columns in order (`PartOfSequence`,
  `CutOut`, `Excerpt`); for each stage (`SetSrcFits`, `ScrollFits`, `OverflowFits`, `RectangleFits`) the bitmap handed on is such an excerpt, without the rows that were scrolled past, and
  what is encoded is that bitmap. `HeaderFits` says the copy is wide and high enough for its text. `RecordOf` gives the facts of a record by where they come from.

### What is left to TLC

* Liveness, which this prover does not do: `RoundsEnd`, `NamesCatchUp`, `IdleCountsReported`, `RejectedLeaves`, `Ends`, `ErrorsQuiesce`, `EverythingStored`,
  `JobsEnd`, `AcceptedIsStored`, and the fairness half of `ImplementsIntake`.

Each invariant that a run checks is also a theorem, and so are the action property `FilesAreFinal`, the refinement of `AppendOnlyLog` and the safety half of `ImplementsIntake`.

Definitions that the prover could not unfold were put differently, with the same values: the batch sizes of `InfluxWrite` and the cache of `AuditScreenshots` are found by their places
in a list (`Sizes`, `NextPass`; `Places`, `Place`) and not by `SelectSeq`, and `CheckStatus` of `AuditApi` gives the first check that fails by its position. Names that the code
makes by adding a suffix or by hashing are tables (`Suffixed`, `Hashed`), and records that it fills in several places are functions of where each entry comes from (`Record`, `Point`).

## 5. Not modelled

* **InfluxDB set-up** (`globals/influxdb.js` apart from the v1 schema, `audit-destinations/influxdb/init.js`): creates the client and, where it is missing, the database or bucket, in sequence, once, before anything else runs.
* **Configuration** (`globals/config-loader.js`, `config-*.js`, `config-schemas/*`, `static/configvis`): loaded and validated once, read-only afterwards; a page that shows it obfuscated. Declarative schemas; their limits
  are the constants and the settings of the models.
* **Process life cycle** (`butler-sos.js`, `globals.js`, `process-safety-net.js`, `crash-dump.js`, `heartbeat.js`, `telemetry.js`): sequential start-up and exit. An uncaught exception writes a dump and ends the process;
  what that costs is `Restart` of `AuditFileDestination`, everywhere else it is simply the end of the behaviour, since nothing is read back.
* **Certificates, files and packaging**: pure input and output.
* The text of messages, points, rows and files; log texts; numbers, beyond whether they parse and whether they are zero, whole or negative.
* The ring of processing times and the statistics read from it, beyond the number of values in it.
* The clock as real time: windows and intervals are ticks or "at any moment", which includes what really happens.
* TLS, CORS and the parsing of HTTP, which are the server library's; pixels, beyond which row and column they belong to; where the line under a table is found (any place the code's scan can return).

What is left over is not for TLC: it has no state that two callbacks share and no order that could be wrong.

## 6. Plan

The model is where it was meant to be, each module that has states has its proofs, and every invariant of the runs is proved. What could follow:

1. Variants like `EveryStepAdvances` for the rounds of the pollers and the jobs of the audit API, so that only fairness is left of their liveness.
2. Type correctness of the modules whose invariants have needed only some of the types.
