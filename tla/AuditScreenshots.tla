-------------------------- MODULE AuditScreenshots --------------------------
(***************************************************************************)
(* downloadScreenshot of lib/audit-screenshots.js with the cache of Qlik   *)
(* sessions of lib/audit-screenshot-session-cache.js: one download per     *)
(* audit event, several of them at once, each of up to three attempts.     *)
(*                                                                         *)
(* An attempt presents a cached session, or buys a ticket that Qlik turns  *)
(* into a new session.  A session costs a Qlik licence, so one that is not *)
(* cached is given back at the end of the attempt, and a cached one when   *)
(* it leaves the cache.  Sessions are numbered as downloads learn of them, *)
(* by reading their cookie; one whose cookie nobody reads is lost.         *)
(***************************************************************************)
EXTENDS AuditJobs

CONSTANTS
    MaxAttempts,   \* maxAttempts (3)
    MaxRedirects   \* MAX_SCREENSHOT_REDIRECTS (5)

ASSUME ScreenshotsAssumption ==
    /\ MaxAttempts \in Nat \ {0}
    /\ MaxRedirects \in Nat

VARIABLES
    downloads,   \* where the download of each event has got to
    cache,       \* sessionCache: entries [key, session], least recently used first
    asked,       \* the sessions Qlik was asked to delete
    files,       \* the files on disk: the event and the storage target
    qlik,        \* qlik[s]: "open" or "closed"; one per session whose cookie was read
    lost         \* how many sessions Qlik opened for each event with answers that did
                 \* not arrive whole

shotVars == <<downloads, cache, asked, files, qlik, lost>>

NoSession == 0
Idle == [phase |-> "idle", attempt |-> 1, hops |-> 0, used |-> NoSession, cookie |-> NoSession,
         kept |-> FALSE, left |-> 0, saved |-> {}, rejected |-> {}, then |-> "end"]

ShotInit ==
    /\ downloads = [r \in Requests |-> Idle]
    /\ cache = <<>>
    /\ asked = {}
    /\ files = {}
    /\ qlik = <<>>
    /\ lost = [r \in Requests |-> 0]

-----------------------------------------------------------------------------
(* The session cache.                                                      *)

TicketMode == settings.auth \in {"qpsTicket", "userTicket"}

\* maxEntries is 0 here where the cache is not enabled.
CacheOn == TicketMode /\ settings.maxEntries > 0

\* Sessions are kept by user, those of a fixed user all under one key.
CacheKey(r) == IF settings.auth = "qpsTicket" THEN "fixed" ELSE settings.events[r].user

Sessions(c) == {c[i].session : i \in DOMAIN c}

\* The places of the sessions of a key, one at most.
Places(c, key) == {i \in DOMAIN c : c[i].key = key}
Place(c, key) == CHOOSE i \in Places(c, key) : TRUE
Without(c, key) == IF Places(c, key) = {} THEN c ELSE RemoveAt(c, Place(c, key))

Cached(c, key) ==
    IF CacheOn /\ Places(c, key) # {} THEN c[Place(c, key)].session ELSE NoSession

\* A hit is the most recently used from then on.
Touched(c, key) ==
    IF Places(c, key) = {} THEN c ELSE Append(Without(c, key), c[Place(c, key)])

\* A new session takes the place of the one with its key, or of the least recently
\* used when the cache is full.
Stored(c, key, s) ==
    LET full == Places(c, key) = {} /\ Len(c) >= settings.maxEntries
        kept == IF full THEN Tail(c) ELSE Without(c, key)
    IN  Append(kept, [key |-> key, session |-> s])

\* Whatever leaves the cache, for whichever reason, is given back to Qlik.
CacheBecomes(c) ==
    /\ cache' = c
    /\ asked' = asked \cup (Sessions(cache) \ Sessions(c))

\* An entry's time is up.
Expire(i) ==
    /\ CacheBecomes(Without(cache, cache[i].key))
    /\ UNCHANGED <<downloads, files, qlik, lost>>

\* A session ends at Qlik, idle for too long or deleted as asked: one that somebody may
\* still present, since nobody hears of the end of the others.
CloseSession(s) ==
    /\ qlik[s] = "open"
    /\ s \in Sessions(cache) \cup {downloads[r].used : r \in Requests}
    /\ qlik' = [qlik EXCEPT ![s] = "closed"]
    /\ UNCHANGED <<downloads, cache, asked, files, lost>>

-----------------------------------------------------------------------------
(* Attempts.                                                               *)

\* No attempt is made without somewhere to store the picture, or, where tickets
\* are used, without QPS settings and a user.
Downloadable(r) ==
    /\ settings.targets > 0
    /\ settings.auth # "incomplete"
    /\ settings.auth = "userTicket" => settings.events[r].user # "unknown"

\* The download as an attempt leaves the ground, given the cache.
Attempted(r, d, c) ==
    LET hit == Cached(c, CacheKey(r))
    IN  [d EXCEPT !.phase = IF hit # NoSession \/ ~TicketMode THEN "get" ELSE "ticket",
                  !.hops = 0, !.used = hit, !.cookie = NoSession, !.kept = FALSE,
                  !.left = settings.targets, !.saved = {}]

\* An attempt begins with the cache c as it stands.
Attempt(r, d, c) ==
    /\ downloads' = [downloads EXCEPT ![r] = Attempted(r, d, c)]
    /\ cache' = IF CacheOn THEN Touched(c, CacheKey(r)) ELSE c

\* What follows the finally block: another attempt, or the end.
Resume(r, d, c) ==
    IF d.then = "again" THEN Attempt(r, [d EXCEPT !.attempt = @ + 1], c)
    ELSE /\ downloads' = [downloads EXCEPT ![r] = [Idle EXCEPT !.phase = "done", !.saved = d.saved]]
         /\ cache' = c

\* The finally block: a session that was opened and is not in the cache is given
\* back, and the download waits for Qlik's answer.
Leave(r, d) ==
    IF TicketMode /\ d.cookie # NoSession /\ ~d.kept /\ d.used = NoSession
    THEN /\ downloads' = [downloads EXCEPT ![r] = [d EXCEPT !.phase = "cleanup"]]
         /\ asked' = asked \cup {d.cookie}
         /\ UNCHANGED cache
    ELSE Resume(r, d, cache) /\ UNCHANGED asked

GiveUp(r, d) == Leave(r, [d EXCEPT !.then = "end", !.saved = {}])

\* What can be tried again is, after a pause, as long as attempts are left.
TryLater(r, d) ==
    IF d.attempt < MaxAttempts
    THEN /\ downloads' = [downloads EXCEPT ![r] = [d EXCEPT !.phase = "pause", !.then = "again"]]
         /\ UNCHANGED <<cache, asked>>
    ELSE GiveUp(r, d)

PauseEnds(r) ==
    /\ downloads[r].phase = "pause"
    /\ Leave(r, downloads[r])
    /\ UNCHANGED <<files, qlik>>

\* Qlik has answered, or failed to: both are the end of the cleanup.
CleanupEnds(r) ==
    /\ downloads[r].phase = "cleanup"
    /\ Resume(r, downloads[r], cache)
    /\ UNCHANGED <<asked, files, qlik>>

\* No ticket, or no room on the disk.
Throws(r) ==
    /\ downloads[r].phase \in {"ticket", "write"}
    /\ TryLater(r, downloads[r])
    /\ UNCHANGED <<files, qlik>>

TicketArrives(r) ==
    /\ downloads[r].phase = "ticket"
    /\ downloads' = [downloads EXCEPT ![r].phase = "get"]
    /\ UNCHANGED <<cache, asked, files, qlik>>

-----------------------------------------------------------------------------
(* Qlik's answers to the request for the picture.  A ticket opens one      *)
(* session, with the first of them that sets a cookie.                     *)

MayOpen(r) ==
    TicketMode /\ downloads[r].used = NoSession /\ downloads[r].cookie = NoSession

\* The download after an answer that opens a session, or does not.
Heard(r, opens) ==
    IF opens THEN [downloads[r] EXCEPT !.cookie = Len(qlik) + 1] ELSE downloads[r]

\* The answer to come, with or without a new session.
Hears(r, opens) ==
    /\ downloads[r].phase = "get"
    /\ opens => MayOpen(r)
    /\ qlik' = IF opens THEN Append(qlik, "open") ELSE qlik

\* No answer, not in time, or one that is too large.  Qlik may have taken the ticket and
\* opened a session all the same: its cookie is not read, and nobody gives it back.
NoAnswer(r, opens) ==
    /\ downloads[r].phase = "get"
    /\ opens => MayOpen(r)
    /\ lost' = IF opens THEN [lost EXCEPT ![r] = @ + 1] ELSE lost
    /\ TryLater(r, downloads[r])
    /\ UNCHANGED <<files, qlik>>

\* To a host that is allowed, and not once too often.
Redirected(r, opens) ==
    /\ Hears(r, opens)
    /\ downloads[r].hops < MaxRedirects
    /\ downloads' = [downloads EXCEPT ![r] = [Heard(r, opens) EXCEPT !.hops = @ + 1]]
    /\ UNCHANGED <<cache, asked, files>>

\* A redirect that is not followed, or a status that is final.
Refused(r, opens) ==
    /\ Hears(r, opens)
    /\ GiveUp(r, Heard(r, opens))
    /\ UNCHANGED <<files>>

\* A status worth another try, or something that is no picture: a login page.
NotYet(r, opens) ==
    /\ Hears(r, opens)
    /\ TryLater(r, Heard(r, opens))
    /\ UNCHANGED <<files>>

\* 401 or 403 for a cached session: the entry of its user goes, whichever session it
\* holds by now, and the next attempt starts at once.
SessionRejected(r) ==
    LET d == downloads[r]
        rejected == [d EXCEPT !.rejected = @ \cup {d.used}, !.attempt = @ + 1]
        c == Without(cache, CacheKey(r))
    IN  /\ d.phase = "get"
        /\ d.used # NoSession
        /\ asked' = asked \cup (Sessions(cache) \ Sessions(c))
        /\ IF d.attempt < MaxAttempts THEN Attempt(r, rejected, c)
           ELSE Resume(r, [d EXCEPT !.then = "end", !.saved = {}], c)
        /\ UNCHANGED <<files, qlik>>

\* Mutant: the session is cached, but not marked as kept.
PictureMutant(r, opens) ==
    LET d == Heard(r, opens)
    IN  /\ Hears(r, opens)
        /\ d.used # NoSession => qlik[d.used] = "open"
        /\ downloads' = [downloads EXCEPT ![r] = [d EXCEPT !.phase = "write"]]
        /\ IF CacheOn /\ d.cookie # NoSession
           THEN CacheBecomes(Stored(cache, CacheKey(r), d.cookie))
           ELSE UNCHANGED <<cache, asked>>
        /\ UNCHANGED <<files>>

\* The picture: a session that was opened for it is cached, if sessions are.
Picture(r, opens) ==
    LET d == Heard(r, opens)
        caches == CacheOn /\ d.cookie # NoSession
    IN  /\ Hears(r, opens)
        /\ d.used # NoSession => qlik[d.used] = "open"
        /\ downloads' = [downloads EXCEPT ![r] = [d EXCEPT !.phase = "write", !.kept = caches]]
        /\ IF caches THEN CacheBecomes(Stored(cache, CacheKey(r), d.cookie))
           ELSE UNCHANGED <<cache, asked>>
        /\ UNCHANGED <<files>>

\* The files of one storage target are written; after the last the download is over.
WriteTarget(r) ==
    LET d == downloads[r]
        file == [event |-> r, target |-> d.left]
        saved == [d EXCEPT !.saved = @ \cup {file}, !.left = @ - 1]
    IN  /\ d.phase = "write"
        /\ files' = files \cup {file}
        /\ IF d.left > 1
           THEN /\ downloads' = [downloads EXCEPT ![r] = saved]
                /\ UNCHANGED <<cache, asked>>
           ELSE Leave(r, [saved EXCEPT !.then = "end"])
        /\ UNCHANGED <<qlik>>

DownloadStep(r) ==
    \/ \E opens \in BOOLEAN : NoAnswer(r, opens)
    \/ /\ \/ TicketArrives(r) \/ Throws(r) \/ PauseEnds(r) \/ CleanupEnds(r)
          \/ SessionRejected(r) \/ WriteTarget(r)
          \/ \E opens \in BOOLEAN :
                Redirected(r, opens) \/ Refused(r, opens) \/ NotYet(r, opens) \/ Picture(r, opens)
       /\ UNCHANGED lost

-----------------------------------------------------------------------------

\* Every session whose cookie a download has read is accounted for: it is in the cache,
\* Qlik was asked to delete it, or the download it was opened for is still to decide;
\* none is asked for while it is in the cache; and no download presents a session
\* again that was rejected when it did.  A session that Qlik opened with an answer which
\* did not arrive whole is lost, its licence taken until the session times out: there
\* is at most one for each attempt an event has.
SessionsKept ==
    /\ \A s \in DOMAIN qlik :
          \/ s \in Sessions(cache) /\ s \notin asked
          \/ s \in asked /\ s \notin Sessions(cache)
          \/ \E r \in Requests :
                /\ downloads[r].cookie = s /\ ~downloads[r].kept
                /\ downloads[r].phase \in {"get", "write", "pause"}
    /\ \A r \in Requests :
          /\ downloads[r].phase = "get" => downloads[r].used \notin downloads[r].rejected
          /\ lost[r] <= MaxAttempts
=============================================================================
