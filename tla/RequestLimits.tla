---------------------------- MODULE RequestLimits ----------------------------
(***************************************************************************)
(* TokenBucketRateLimiter as SecurityService.authorize() uses it: a bucket *)
(* of tokens for each route and principal, filled at a fixed rate, and the *)
(* Retry-After that a refused request is answered.  Tokens are counted in  *)
(* parts and time in ticks.                                                *)
(***************************************************************************)
EXTENDS Integers

CONSTANTS
    Bucket,         \* scope strings: route and principal
    Capacity,       \* tokens of a full bucket
    Parts,          \* the parts a token has
    Refill,         \* parts a tick brings
    TicksPerSecond,
    MaxTicks        \* bound of the model: the monotonic clock

ASSUME LimitConstants ==
    /\ Capacity \in Nat \ {0} /\ Parts \in Nat \ {0} /\ Refill \in Nat \ {0}
    /\ TicksPerSecond \in Nat \ {0} /\ MaxTicks \in Nat

VARIABLES
    clock,      \* time.monotonic()
    tokensLeft,     \* _buckets: the parts left at the last refill
    lastRefill, \* _buckets: when that was
    refused,    \* the refused requests that wait for their Retry-After
    retryAt,    \* history: a time a refused request was told to retry at, 0 if none
    window,     \* history: a time at which some window of requests began
    admitted    \* history: the requests admitted since

limitVars == <<clock, tokensLeft, lastRefill, refused, retryAt, window, admitted>>

LimitTypeOK ==
    /\ clock \in Nat
    /\ tokensLeft \in [Bucket -> Nat] /\ lastRefill \in [Bucket -> Nat]
    /\ refused \subseteq Bucket
    /\ retryAt \in [Bucket -> Nat]
    /\ window \in [Bucket -> Nat] /\ admitted \in [Bucket -> Nat]

Full == Capacity * Parts

\* A bucket that is not in the dictionary yet is full.
LimitInit ==
    /\ clock = 0
    /\ tokensLeft = [b \in Bucket |-> Full]
    /\ lastRefill = [b \in Bucket |-> 0]
    /\ refused = {}
    /\ retryAt = [b \in Bucket |-> 0]
    /\ window = lastRefill /\ admitted = lastRefill

Earned(b) == tokensLeft[b] + (clock - lastRefill[b]) * Refill

\* min(capacity, tokens + elapsed * refill)
Refilled(b) == IF Earned(b) > Full THEN Full ELSE Earned(b)

MonotonicTick == clock < MaxTicks /\ clock' = clock + 1 /\ UNCHANGED <<tokensLeft, lastRefill, refused, retryAt, window, admitted>>

\* consume() takes a token.
Admit(b) ==
    /\ Refilled(b) >= Parts
    /\ tokensLeft' = [tokensLeft EXCEPT ![b] = Refilled(b) - Parts]
    /\ lastRefill' = [lastRefill EXCEPT ![b] = clock]
    /\ admitted' = [admitted EXCEPT ![b] = @ + 1]
    /\ retryAt' = [retryAt EXCEPT ![b] = 0]
    /\ UNCHANGED <<clock, refused, window>>

\* consume() finds less than a token: what was refilled is kept, in parts.
Refuse(b) ==
    /\ Refilled(b) < Parts
    /\ tokensLeft' = [tokensLeft EXCEPT ![b] = Refilled(b)]
    /\ lastRefill' = [lastRefill EXCEPT ![b] = clock]
    /\ refused' = refused \cup {b}
    /\ UNCHANGED <<clock, retryAt, window, admitted>>

SecondsRoundedDown(missing) == missing \div (Refill * TicksPerSecond)

\* The seconds a refused request is told to wait: the missing parts, rounded down,
\* and one more.
RetryAfterSeconds(missing) == missing \div (Refill * TicksPerSecond) + 1

\* retryAfterSeconds() is a call of its own, with its own reading of the clock.
AnswerRetry(b) ==
    /\ b \in refused
    /\ refused' = refused \ {b}
    /\ IF Refilled(b) >= Parts
       THEN UNCHANGED retryAt
       ELSE retryAt' = [retryAt EXCEPT ![b] =
                clock + RetryAfterSeconds(Parts - Refilled(b)) * TicksPerSecond]
    /\ UNCHANGED <<clock, tokensLeft, lastRefill, window, admitted>>

\* No step of the limiter: the window that is looked at begins at the last request.
ObserveFrom(b) ==
    /\ window' = [window EXCEPT ![b] = lastRefill[b]]
    /\ admitted' = [admitted EXCEPT ![b] = 0]
    /\ UNCHANGED <<clock, tokensLeft, lastRefill, refused, retryAt>>

LimitNext ==
    \/ MonotonicTick
    \/ \E b \in Bucket : Admit(b) \/ Refuse(b) \/ AnswerRetry(b) \/ ObserveFrom(b)

LimitSpec == LimitInit /\ [][LimitNext]_limitVars

-----------------------------------------------------------------------------
\* Whatever a principal's requests on a route, and whichever window one looks at: no
\* more are admitted than a full bucket and what the window brought; and a request
\* that was refused and waits as long as Retry-After said is admitted, if no other
\* request of the principal was meanwhile.
RateBounded == \A b \in Bucket :
    /\ admitted[b] * Parts <= Full + (clock - window[b]) * Refill
    /\ retryAt[b] # 0 /\ clock >= retryAt[b] => Refilled(b) >= Parts
=============================================================================
