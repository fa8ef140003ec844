------------------------------ MODULE AuditApi ------------------------------
(***************************************************************************)
(* The audit events API of lib/audit-events-api.js from a request to the   *)
(* record of its event: the checks and their answers, the queue that works *)
(* on what was accepted, the screenshots that are downloaded on the way    *)
(* (AuditScreenshots, ScreenshotImage), what the destinations are handed   *)
(* (AuditRecords) and the InfluxDB destination, which flushes its buffer   *)
(* with jobs of the same queue (AuditInfluxBuffer).  The rate limiter is   *)
(* that of RateWindow.                                                     *)
(***************************************************************************)
EXTENDS RateWindow, AuditInfluxBuffer, AuditScreenshots, ScreenshotImage, AuditRecords

CONSTANTS
    StateTTL,           \* ..._STATE_TTL_MS: how long the state of a source is kept
    CleanupInterval     \* ..._CLEANUP_INTERVAL_MS

ASSUME AuditApiAssumption ==
    /\ StateTTL \in Nat /\ StateTTL > Window
    /\ CleanupInterval \in Nat
    /\ \A st \in SettingsSet : \A r \in DOMAIN st.events : st.events[r].crops \subseteq Crop

VARIABLES
    answer,     \* the status it was answered with; 0 before
    stored,     \* the events as the destinations were given them
    throttle,   \* rateLimitViolationState and missingAuditQsVersionWarnState
    cleanedAt,  \* when each of the two was cleaned up
    noticed,    \* history: what there was to warn about: kind, source and time
    warned      \* history: the warnings logged

windowVars == <<limiter, now, passed>>
jobVars == <<stage, queue>>
apiVars == <<answer, stored>>
throttleVars == <<throttle, cleanedAt, noticed, warned>>
vars == <<settings, windowVars, jobVars, bufferVars, shotVars, apiVars, throttleVars>>

Posted == DOMAIN settings.events    \* the events that are posted
Kinds == {"rate", "version"}
LongAgo == 0 - Window - CleanupInterval

Init ==
    /\ JobsInit
    /\ WindowInit
    /\ BufferInit
    /\ ShotInit
    /\ answer = [r \in Requests |-> 0]
    /\ stored = <<>>
    /\ throttle = [k \in Kinds |-> <<>>]
    /\ cleanedAt = [k \in Kinds |-> LongAgo]
    /\ noticed = {}
    /\ warned = <<>>

-----------------------------------------------------------------------------
(* Warnings about a source, at most one in a window.                       *)

\* Mutant: the state of a source is forgotten with every cleanup.
KeptMutant(kind) == IF now - cleanedAt[kind] < CleanupInterval THEN throttle[kind] ELSE <<>>

\* The cleanup forgets the sources that have not been heard of for long.
Kept(kind) ==
    LET recent == {s \in DOMAIN throttle[kind] : now - throttle[kind][s].last <= StateTTL}
    IN  IF now - cleanedAt[kind] < CleanupInterval THEN throttle[kind]
        ELSE [s \in recent |-> throttle[kind][s]]

\* onExceeded, and logMissingAuditQsVersion.  The counts in the warning are left out.
Notice(kind, s) ==
    LET kept == Kept(kind)
        warnedAt == IF s \in DOMAIN kept THEN kept[s].warnedAt ELSE LongAgo
        warns == now - warnedAt >= Window
        state == [last |-> now, warnedAt |-> IF warns THEN now ELSE warnedAt]
        note == [kind |-> kind, source |-> s, at |-> now]
    IN  /\ throttle' = [throttle EXCEPT ![kind] =
                [x \in {s} \cup DOMAIN kept |-> IF x = s THEN state ELSE kept[x]]]
        /\ cleanedAt' = [cleanedAt EXCEPT ![kind] =
                IF now - @ < CleanupInterval THEN @ ELSE now]
        /\ noticed' = noticed \cup {note}
        /\ warned' = IF warns THEN Append(warned, note) ELSE warned

-----------------------------------------------------------------------------
(* The request.                                                            *)

\* The types whose payload has a schema: others are accepted as they are.
SchemaTypes ==
    {"selection.state.changed", "app.model.validated", "screenshot.url.received",
     "event.unsupported.visualization", "object.view.duration"}

\* What may be wrong with a request: it is one too many of its source, its body does
\* not fit the schema, it comes without the token, its envelope breaks a constraint,
\* or its payload does not fit the schema of its type, of those that have one.
TooMany(r) == settings.httpLimit /\ "tooMany" \in settings.events[r].flaws
InvalidBody(r) == "schema" \in settings.events[r].flaws
Unauthorized(r) == settings.token /\ "token" \in settings.events[r].flaws
ViolatesConstraints(r) == "constraints" \in settings.events[r].flaws
InvalidPayload(r) ==
    settings.events[r].type \in SchemaTypes /\ "payload" \in settings.events[r].flaws

\* checkCompatibility, of a version that is given: in the list or not.
NoVersion(r) == settings.events[r].version = "none"
Incompatible(r) == settings.events[r].version = "unlisted"

\* The checks in the order they are made, and the answers to requests that fail them.
Checks(r) == <<TooMany(r), InvalidBody(r), Unauthorized(r), ViolatesConstraints(r),
               Incompatible(r), InvalidPayload(r)>>
CheckStatus == <<429, 400, 401, 422, 422, 422>>

Failed(r) == {i \in DOMAIN CheckStatus : Checks(r)[i]}

Answer(r, status) == answer' = [answer EXCEPT ![r] = status]

\* What a request leaves behind in the log: too many from its source, or no version
\* where it gets as far as that.
Noticed(r) ==
    LET s == settings.events[r].source
        seen == ~(InvalidBody(r) \/ Unauthorized(r) \/ ViolatesConstraints(r))
    IN  IF TooMany(r) THEN Notice("rate", s)
        ELSE IF NoVersion(r) /\ seen THEN Notice("version", s)
        ELSE UNCHANGED throttleVars

\* A request that fails a check is answered at once.
Turned(r) ==
    /\ stage[r] = "new"
    /\ \E i \in Failed(r) : /\ \A j \in Failed(r) : i <= j
                          /\ Answer(r, CheckStatus[i])
    /\ Moves(r, "answered")
    /\ Noticed(r)
    /\ UNCHANGED <<settings, windowVars, queue, bufferVars, shotVars, stored>>

\* The others meet the rate limit of the queue, or, where there is no queue, are
\* worked on before they are answered.
Taken(r) ==
    /\ stage[r] = "new"
    /\ Failed(r) = {}
    /\ Noticed(r)
    /\ \/ /\ ~settings.manager
          /\ Moves(r, "running")
          /\ UNCHANGED <<windowVars, answer>>
       \/ /\ settings.manager
          /\ ~settings.rateLimit
          /\ Moves(r, "adding")
          /\ UNCHANGED <<windowVars, answer>>
       \/ /\ settings.manager
          /\ settings.rateLimit
          /\ IF Allows(limiter, now) THEN Moves(r, "adding") /\ UNCHANGED answer
             ELSE Moves(r, "answered") /\ Answer(r, 429)
          /\ CheckLimit
    /\ UNCHANGED <<settings, queue, bufferVars, shotVars, stored>>

Post(r) == Turned(r) \/ Taken(r)

Unmoved == UNCHANGED <<settings, windowVars, throttleVars>>

\* Mutant: the verdict of addToQueue is not looked at.
AdmitMutant(r) ==
    /\ stage[r] = "adding"
    /\ Admitted(r, "answered")
    /\ IF Full THEN Answer(r, 202) ELSE UNCHANGED answer
    /\ Unmoved /\ UNCHANGED <<bufferVars, shotVars, stored>>

\* addToQueue looks at the size of the queue ...
Admit(r) ==
    /\ stage[r] = "adding"
    /\ Admitted(r, "answered")
    /\ IF Full THEN Answer(r, 503) ELSE UNCHANGED answer
    /\ Unmoved /\ UNCHANGED <<bufferVars, shotVars, stored>>

\* ... and hands the job over, and the request is answered.
Enqueue(r) ==
    /\ stage[r] = "admitted"
    /\ Enqueued(r)
    /\ Answer(r, 202)
    /\ Unmoved /\ UNCHANGED <<bufferVars, shotVars, stored>>

-----------------------------------------------------------------------------
(* processAuditEventEnvelope.                                              *)

\* handleScreenshotUrlReceived downloads from a host that is allowed, if at all.
Wanted(r) ==
    /\ settings.events[r].type = "screenshot.url.received"
    /\ settings.screenshots
    /\ settings.hosts # {}
    /\ settings.events[r].host \in settings.hosts

\* The handler of an event that brings a picture starts the download.
Download(r) ==
    /\ stage[r] = "running"
    /\ downloads[r].phase = "idle"
    /\ Wanted(r) /\ Downloadable(r)
    /\ Attempt(r, downloads[r], cache)
    /\ Unmoved /\ UNCHANGED <<asked, files, qlik, lost, jobVars, bufferVars, apiVars>>

\* The others are done, and so is this one when its download is over; then the
\* event is handed to the destinations, which keep their errors to themselves.
StoreEvent(r) ==
    /\ stage[r] = "running"
    /\ downloads[r].phase = "done" \/ ~(Wanted(r) /\ Downloadable(r))
    /\ stored' = IF "files" \in settings.destinations
                 THEN Append(stored, [event |-> r, saved |-> downloads[r].saved])
                 ELSE stored
    /\ IF "influxdb" \in settings.destinations
       THEN BufferEvent(r, [stage EXCEPT ![r] = "handled"])
       ELSE Moves(r, "handled") /\ UNCHANGED bufferVars
    /\ Unmoved /\ UNCHANGED <<queue, shotVars, answer>>

\* The job ends; without a queue the request is answered now.
EndJob(r) ==
    /\ stage[r] = "handled"
    /\ Ended(r, "done")
    /\ IF settings.manager THEN UNCHANGED answer ELSE Answer(r, 202)
    /\ Unmoved /\ UNCHANGED <<bufferVars, shotVars, stored>>

-----------------------------------------------------------------------------

\* The code's own steps for one event.
Works(r) ==
    \/ Admit(r) \/ Enqueue(r) \/ Download(r) \/ StoreEvent(r) \/ EndJob(r)
    \/ DownloadStep(r) /\ Unmoved /\ UNCHANGED <<jobVars, bufferVars, apiVars>>

FlushWorks(f) == FlushStep(f) /\ Unmoved /\ UNCHANGED <<shotVars, apiVars>>
TimerFires == Interval /\ Unmoved /\ UNCHANGED <<shotVars, apiVars>>

\* What happens to sessions meanwhile.
SessionStep ==
    /\ \/ \E i \in DOMAIN cache : Expire(i)
       \/ \E s \in DOMAIN qlik : CloseSession(s)
    /\ Unmoved /\ UNCHANGED <<jobVars, bufferVars, apiVars>>

ClockTick ==
    /\ Tick(settings.clock)
    /\ UNCHANGED <<settings, jobVars, bufferVars, shotVars, apiVars, throttleVars>>

Next ==
    \/ \E r \in Posted : Post(r) \/ Works(r)
    \/ \E f \in Flushes : FlushWorks(f)
    \/ TimerFires \/ SessionStep \/ ClockTick

\* Every request to Qlik and to InfluxDB is answered or times out, jobs are not
\* stopped half-way, and the interval goes on firing.  Events need not arrive.
Spec ==
    /\ Init
    /\ [][Next]_vars
    /\ \A r \in Requests : WF_vars(r \in Posted /\ Works(r))
    /\ \A f \in Flushes : WF_vars(FlushWorks(f))
    /\ WF_vars(TimerFires)

-----------------------------------------------------------------------------
(* Properties.                                                             *)

InFlight == {"waiting", "running"}

\* "202 processed" (the answer is given before the work is done): such an event is
\* on its way or was handed to the destinations, once; any other answer means that
\* it never will be.  The pictures a stored event names are on disk.
AnswersHold ==
    /\ \A i, j \in DOMAIN stored : stored[i].event = stored[j].event => i = j
    /\ \A i \in DOMAIN stored : stored[i].saved \subseteq files
    /\ \A r \in Posted :
          LET handed == \E i \in DOMAIN stored : stored[i].event = r
          IN  /\ answer[r] = 202 /\ "files" \in settings.destinations => handed \/ stage[r] \in InFlight
              /\ answer[r] \notin {0, 202} => ~handed /\ stage[r] \notin InFlight
              /\ settings.manager /\ handed => answer[r] = 202

\* A picture that is being saved is what the user saw, whatever its crop rectangle.
PicturesSound ==
    \A r \in Posted : downloads[r].phase = "write" =>
        \A crop \in settings.events[r].crops : SavedAsSeen(crop)

\* A stored event leaves the same record at every destination, whatever of the contents
\* the checks let through it has.
RecordsAgree ==
    \A i \in DOMAIN stored : \A e \in settings.events[stored[i].event].contents :
        Accepted(e) => SameRecords(e, settings.staticTags)

\* For everything there is to warn about a warning of its source is no older than a
\* window, and no source has two in one window: though the state is thrown away.
WarnedOncePerWindow ==
    /\ \A n \in noticed : \E i \in DOMAIN warned :
          /\ warned[i].kind = n.kind /\ warned[i].source = n.source
          /\ n.at - Window < warned[i].at /\ warned[i].at <= n.at
    /\ \A i, j \in DOMAIN warned :
          i < j /\ warned[i].kind = warned[j].kind /\ warned[i].source = warned[j].source =>
              warned[j].at - warned[i].at >= Window

\* Every request is answered and every event that was accepted is worked through,
\* whatever Qlik answers and however its downloads fail: again and again nothing is
\* left to do, so for the finitely many requests of a behaviour each of them ends.
JobsEnd == []<>(\A r \in Requests : stage[r] \in {"new", "answered", "done"})

\* What was answered 202 gets to InfluxDB.  With writeFrequency 0 nothing repeats a
\* flush, and there are three exceptions: a flush has failed, a full queue has refused
\* one, or the event itself came while, without a queue, the flush of another was
\* being written, and none was begun for it (passedOver).
AcceptedIsStored ==
    []<>(\A r \in Requests :
            (answer[r] = 202 /\ "influxdb" \in settings.destinations) =>
                (\/ inInflux[r] # 0
                 \/ /\ settings.perEvent = TRUE
                    /\ failures # 0 \/ refused = TRUE \/ r \in passedOver))
=============================================================================
