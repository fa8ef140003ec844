---------------------------- MODULE RateLimiter ----------------------------
(***************************************************************************)
(* The fixed-window rate limiter of lib/udp-queue-manager.js, as operators *)
(* on its state: a record [count, start] of the messages let through in    *)
(* the current window and of the time that window was opened.              *)
(* RateWindow runs it against a clock; UdpQueue uses it for admission.     *)
(***************************************************************************)
EXTENDS Naturals

CONSTANTS
    MaxMessagesPerMinute,   \* rateLimit.maxMessagesPerMinute
    Window                  \* the 60000 ms of a window, in ticks

ASSUME RateLimiterAssumption ==
    /\ MaxMessagesPerMinute \in Nat
    /\ Window \in Nat \ {0}

Limiter == [count: Nat, start: Nat]

\* RateLimiter constructor: the first window opens when the object is built.
NewLimiter(now) == [count |-> 0, start |-> now]

\* Mutant: a window lasts for half a minute.
RenewedEarly(rl, now) ==
    IF now - rl.start >= Window \div 2 THEN NewLimiter(now) ELSE rl

\* A window that is a full minute old is replaced by one opened now.
Renewed(rl, now) ==
    IF now - rl.start >= Window THEN NewLimiter(now) ELSE rl

\* The verdict of checkLimit and the state it leaves behind. The window is
\* renewed whatever the verdict, the count grows only for a message let through.
Allows(rl, now) == Renewed(rl, now).count < MaxMessagesPerMinute

AfterCheck(rl, now) ==
    IF Allows(rl, now) THEN [Renewed(rl, now) EXCEPT !.count = @ + 1]
                       ELSE Renewed(rl, now)
=============================================================================
