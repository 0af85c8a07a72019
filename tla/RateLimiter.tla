------------------------------ MODULE RateLimiter ------------------------------
(***************************************************************************)
(* TokenBucketRateLimiter of backend/src/services/rateLimiter.service.ts:  *)
(* one bucket for each client, refilled when the client is next heard of,  *)
(* and a sweeper that deletes buckets.                                     *)
(*                                                                         *)
(* Tokens are counted in parts of which a bucket gains one in a tick: a    *)
(* request costs TokenTicks parts, the ticks that 1 / refillRate lasts.    *)
(* The code stores lastRefillAt and uses it in differences with the clock; *)
(* the model stores the difference, kept at SinceBound once reached.       *)
(***************************************************************************)
EXTENDS Integers

CONSTANTS
  Clients,
  Capacity,         \* RATE_LIMIT_CAPACITY, in tokens
  TokenTicks,       \* ticks in which a bucket gains one token
  TicksPerSecond,
  Clock,            \* a Unix time in seconds not later than any the limiter reads
  SinceBound,       \* BOUND: the age of lastRefillAt is kept at this value
  NoBucket          \* the client has no entry in buckets

Full == Capacity * TokenTicks

\* A bound at which every bucket is full does not change what refill returns.
ASSUME RateLimiterAssumption ==
  /\ Capacity \in Nat \ {0}
  /\ TokenTicks \in Nat \ {0}
  /\ TicksPerSecond \in Nat \ {0}
  /\ Clock \in Nat /\ Clock > 300
  /\ Full \in Nat
  /\ SinceBound \in Nat /\ SinceBound >= Full

Bucket == [tokens : 0..Full, since : 0..SinceBound]

ASSUME NoBucketAssumption == NoBucket \notin Bucket

VARIABLES
  bucket,           \* buckets: clientId -> BucketState
  cleanupTimer      \* whether the sweeper's interval is armed

vars == <<bucket, cleanupTimer>>

\* A bucket never holds more than its capacity and never owes a token.
\* rateLimiter.service.ts:4-14, 108-113, 140-152.
TypeOK ==
  /\ bucket \in [Clients -> Bucket \cup {NoBucket}]
  /\ cleanupTimer \in BOOLEAN

-----------------------------------------------------------------------------

\* refill(): the parts a bucket holds now.
Refill(b) ==
  IF b.tokens + b.since < Full THEN b.tokens + b.since ELSE Full

Allowed(b) == Refill(b) >= TokenTicks

\* Mutants: the refill clock is not reset, or is reset by a rejection too.
ConsumedTwice(b) ==
  IF Allowed(b) THEN [b EXCEPT !.tokens = Refill(b) - TokenTicks] ELSE b

RejectionResetsClock(b) ==
  IF Allowed(b) THEN [tokens |-> Refill(b) - TokenTicks, since |-> 0]
  ELSE [b EXCEPT !.since = 0]

\* tryConsume(): an accepted request pays, a rejected one changes nothing.
Consumed(b) ==
  IF Allowed(b) THEN [tokens |-> Refill(b) - TokenTicks, since |-> 0] ELSE b

\* Mutant: seconds are rounded down.
RetryAfterRoundedDown(b) == (TokenTicks - b.tokens) \div TicksPerSecond

\* Retry-After of a rejected request, in seconds rounded up.  The code takes
\* the tokens as of lastRefillAt, not as of now.
RetryAfter(b) == (TokenTicks - b.tokens + TicksPerSecond - 1) \div TicksPerSecond

NewBucket == [tokens |-> Full, since |-> 0]

\* getBucket()
BucketOf(c) == IF bucket[c] = NoBucket THEN NewBucket ELSE bucket[c]

\* cleanup() subtracts lastRefillAt, in seconds, from Date.now(), in
\* milliseconds, and compares the difference with 300000.
Expired(b) ==
  1000 * Clock - (Clock - b.since \div TicksPerSecond) > 300000

Older(b) == IF b.since < SinceBound THEN [b EXCEPT !.since = @ + 1] ELSE b

-----------------------------------------------------------------------------

\* The constructor sweeps the empty map and arms the interval.
Init ==
  /\ bucket = [c \in Clients |-> NoBucket]
  /\ cleanupTimer = TRUE

\* The middleware answers a request of client c: it goes on to the gateway or
\* is told 429 with RetryAfter(BucketOf(c)).
Request(c) ==
  /\ bucket' = [bucket EXCEPT ![c] = Consumed(BucketOf(c))]
  /\ UNCHANGED cleanupTimer

\* The interval fires.
Sweep ==
  /\ cleanupTimer
  /\ bucket' = [c \in Clients |->
       IF bucket[c] # NoBucket /\ Expired(BucketOf(c)) THEN NoBucket ELSE bucket[c]]
  /\ UNCHANGED cleanupTimer

\* stop(): the owner of the limiter lets go of it.  The composition root never
\* does (the timer is unreferenced), tests do.
Stop ==
  /\ cleanupTimer
  /\ cleanupTimer' = FALSE
  /\ UNCHANGED bucket

Tick ==
  /\ bucket' = [c \in Clients |->
       IF bucket[c] = NoBucket THEN NoBucket ELSE Older(bucket[c])]
  /\ UNCHANGED cleanupTimer

Next ==
  \/ \E c \in Clients : Request(c)
  \/ Sweep
  \/ Stop
  \/ Tick

Spec == Init /\ [][Next]_vars

-----------------------------------------------------------------------------

\* What a client could spend at once.
Level(c) == Refill(BucketOf(c))

\* The limiter works like a bucket that is filled all the time, although it
\* looks at the clock only when a request comes and leaves a rejected client's
\* state as it was; all that a client is given beyond that is given by a sweep.
\* rateLimiter.service.ts:107-113, 139-152.
Ideal == INSTANCE TokenBucket WITH level <- [c \in Clients |-> Level(c)]

ImplementsTokenBucket == Ideal!Spec

\* "5 minutes of inactivity" (rateLimiter.service.ts:98), "A bucket that has
\* had no activity for 5 minutes is removed" (backend/README.md:331): no sweep
\* removes the bucket of a client accepted within the last 300 seconds.
OnlyInactiveSwept ==
  [][\A c \in Clients :
       bucket[c] # NoBucket /\ bucket'[c] = NoBucket =>
         bucket[c].since > 300 * TicksPerSecond]_vars

=============================================================================
