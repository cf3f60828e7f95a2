---------------------------- MODULE RateLimiter ----------------------------
(***************************************************************************)
(* Token buckets, one per user (internal/ratelimit/limiter.go, the local   *)
(* backend).  Time is counted in seconds and tokens in fractions of        *)
(* 1/Unit, so that a rate below one token per second is a natural number.  *)
(* The bucket of a user, once in the map, is never taken out of it:        *)
(* nothing in the gateway calls Cleanup.                                   *)
(***************************************************************************)
EXTENDS Naturals

CONSTANTS
  Unit,     \* fractions of a token that make up one
  MaxTime   \* bound on the clock

ASSUME UnitAssumption == Unit \in Nat \ {0} /\ MaxTime \in Nat

\* What an administrator may set: tokens a bucket holds, fractions it regains
\* per second.
Limit == [burst : Nat, rate : Nat]

Bucket == [capacity : Nat, tokens : Nat, rate : Nat, last : Nat]

\* NewTokenBucket: full, and refilled at its creation.
NewTokenBucket(limit, t) ==
  [capacity |-> limit.burst * Unit, tokens |-> limit.burst * Unit,
   rate |-> limit.rate, last |-> t]

Least(x, y) == IF x <= y THEN x ELSE y

\* The bucket after a refill at time t, never above its capacity.
Refilled(b, t) ==
  [b EXCEPT !.tokens = Least(b.capacity, b.tokens + (t - b.last) * b.rate), !.last = t]

\* Take(1): the bucket is refilled, then a token is taken out if there is one.
\* Fault: it is taken whether it is there or not.
HasToken(b, t) == Refilled(b, t).tokens >= Unit
AfterTakeUnchecked(b, t) == [Refilled(b, t) EXCEPT !.tokens = @ - Unit]
AfterTake(b, t) ==
  IF HasToken(b, t) THEN [Refilled(b, t) EXCEPT !.tokens = @ - Unit] ELSE Refilled(b, t)

\* RetryAfterSeconds: whole seconds, rounded up, from the tokens last counted.
\* A bucket that is never refilled answers 0.
\* Fault: rounded down.
RetryAfterFloor(b) ==
  IF b.rate = 0 \/ b.tokens >= Unit THEN 0 ELSE (Unit - b.tokens) \div b.rate
RetryAfterSeconds(b) ==
  IF b.rate = 0 \/ b.tokens >= Unit THEN 0
  ELSE (Unit - b.tokens + b.rate - 1) \div b.rate

=============================================================================
