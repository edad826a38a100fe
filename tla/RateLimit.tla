------------------------------- MODULE RateLimit -------------------------------
(***************************************************************************)
(* The limit on requests of one address to one route (rate-limit.guard.ts, *)
(* rate-limit.store.ts): a window starts with the first request and ends   *)
(* after windowMs, then the next one starts.                               *)
(***************************************************************************)
EXTENDS Integers, FiniteSets, FiniteSetsExt

CONSTANTS
    limit,
    windowMs,
    MaxTime,        \* bound: the clock
    MaxHits         \* bound: requests at one time

RateLimitAssumption ==
    limit \in Nat \ {0} /\ windowMs \in Nat \ {0} /\ MaxTime \in Nat /\ MaxHits \in Nat

VARIABLES
    now,
    bucket,         \* requests and end of the window, NoBucket if there is none
    allowed,        \* history: allowed[t] requests went through at time t
    hits            \* history: requests at this time

vars == <<now, bucket, allowed, hits>>

NoBucket == [count |-> 0, resetAt |-> 0]

TypeOK ==
    /\ now \in 0..MaxTime
    /\ bucket \in [count : Nat, resetAt : 0..(MaxTime + windowMs)]
    /\ allowed \in [0..MaxTime -> Nat]
    /\ hits \in 0..MaxHits

Init ==
    /\ now = 0
    /\ bucket = NoBucket
    /\ allowed = [t \in 0..MaxTime |-> 0]
    /\ hits = 0

\* The window that is open, or a new one.
Current == IF now >= bucket.resetAt THEN [count |-> 0, resetAt |-> now + windowMs]
           ELSE bucket

\* canActivate, hit: a request counts, whether it goes through or not.
Hit ==
    /\ hits < MaxHits
    /\ bucket' = [Current EXCEPT !.count = @ + 1]
    /\ allowed' = IF bucket'.count <= limit THEN [allowed EXCEPT ![now] = @ + 1] ELSE allowed
    /\ hits' = hits + 1
    /\ UNCHANGED now

\* Mutant: a window may be dropped before it ends.
Always == bucket # NoBucket

Expired == now >= bucket.resetAt

\* prune drops windows that have ended.
Prune ==
    /\ Expired
    /\ bucket' = NoBucket
    /\ UNCHANGED <<now, allowed, hits>>

Tick ==
    /\ now < MaxTime
    /\ now' = now + 1
    /\ hits' = 0
    /\ UNCHANGED <<bucket, allowed>>

Next == Hit \/ Prune \/ Tick

Spec == Init /\ [][Next]_vars

AllowedIn(times) == MapThenSumSet(LAMBDA t : allowed[t], times \cap (0..MaxTime))

\* No stretch of time of the length of a window sees more than twice the limit,
\* however requests, ends of windows and the cleaning fall (hit, prune).
AtMostTwiceTheLimit ==
    \A t \in 0..MaxTime : AllowedIn(t..(t + windowMs - 1)) <= 2 * limit

\* What an open window has let through stays within the limit, and a request
\* that is refused is refused for no longer than the rest of its window (hit,
\* retryAfterSec).
WindowHolds ==
    /\ ~Expired => AllowedIn((bucket.resetAt - windowMs)..now) <= limit
    /\ bucket.resetAt <= now + windowMs

=============================================================================
