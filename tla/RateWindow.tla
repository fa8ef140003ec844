----------------------------- MODULE RateWindow -----------------------------
(***************************************************************************)
(* The rate limiter against the clock: how many messages pass in any span  *)
(* of time, not only in the windows it happens to keep.                    *)
(***************************************************************************)
EXTENDS RateLimiter, Sequences, FiniteSets

VARIABLES
    limiter,    \* this.rateLimiter: messageCount and windowStart
    now,        \* Date.now(), in ticks
    passed      \* history: when each message was let through

WindowInit ==
    /\ limiter = NewLimiter(0)
    /\ now = 0
    /\ passed = <<>>

\* checkLimit, for one message.
CheckLimit ==
    /\ limiter' = AfterCheck(limiter, now)
    /\ passed' = IF Allows(limiter, now) THEN Append(passed, now) ELSE passed
    /\ UNCHANGED now

\* The clock goes on, up to the bound.
Tick(bound) ==
    /\ now < bound
    /\ now' = now + 1
    /\ UNCHANGED <<limiter, passed>>

-----------------------------------------------------------------------------

\* The messages let through from time a on and before time b.
PassedIn(a, b) == {i \in DOMAIN passed : a <= passed[i] /\ passed[i] < b}

\* In any span of one window's length, wherever it begins, at most twice the
\* limit gets through: a span meets at most two windows, since a window is
\* only replaced once it is Window old.
AnySpanBounded ==
    \A t \in 0..now : Cardinality(PassedIn(t, t + Window)) <= 2 * MaxMessagesPerMinute
=============================================================================
