----------------------------- MODULE ServerProofs -----------------------------
(***************************************************************************)
(* Theorems about what surrounds the gateway in a server process.          *)
(*                                                                         *)
(* The rate limiter implements a token bucket, no client is granted more   *)
(* than a bucket and its drip between two sweeps, and Retry-After is never *)
(* too short.                                                              *)
(*                                                                         *)
(* A process that is told to stop drains within its grace and cuts nothing *)
(* if it says so, and an environment that loadEnv accepts is one that no   *)
(* constructor refuses.                                                    *)
(***************************************************************************)
EXTENDS RateLimiterClients, Lifecycle, TLAPS


-----------------------------------------------------------------------------
(* A single bucket.                                                         *)

\* A bucket never holds more than Full, and its arithmetic stays in Nat.
LEMMA RefillBounded ==
  ASSUME NEW b \in Bucket
  PROVE  /\ Refill(b) \in 0..Full
         /\ Refill(b) >= b.tokens
         /\ b.tokens \in 0..Full
         /\ b.since \in 0..SinceBound
BY RateLimiterAssumption DEF Bucket, Refill

\* What a request leaves: an accepted one pays a whole token, a rejected one
\* changes nothing.
LEMMA ConsumedEffect ==
  ASSUME NEW b \in Bucket
  PROVE  /\ Consumed(b) \in Bucket
         /\ Allowed(b) => Refill(Consumed(b)) = Refill(b) - TokenTicks
         /\ ~Allowed(b) => Consumed(b) = b
<1>1. CASE Allowed(b)
  <2> DEFINE paid == [tokens |-> Refill(b) - TokenTicks, since |-> 0]
  <2>1. Consumed(b) = paid
    BY <1>1 DEF Consumed
  <2>2. Refill(b) - TokenTicks \in 0..Full
    BY <1>1, RefillBounded, RateLimiterAssumption DEF Allowed
  <2>3. paid \in Bucket
    BY <2>2, RateLimiterAssumption DEF Bucket
  <2>4. Refill(paid) = Refill(b) - TokenTicks
    BY <1>1, RefillBounded, RateLimiterAssumption DEF Refill, Allowed
  <2> QED
    BY <1>1, <2>1, <2>3, <2>4
<1>2. CASE ~Allowed(b)
  BY <1>2 DEF Consumed
<1> QED
  BY <1>1, <1>2

\* A tick adds one part unless the bucket is full.
LEMMA OlderEffect ==
  ASSUME NEW b \in Bucket
  PROVE  /\ Older(b) \in Bucket
         /\ Refill(Older(b)) = IF Refill(b) < Full THEN Refill(b) + 1 ELSE Refill(b)
<1> USE RateLimiterAssumption
<1>1. CASE b.since < SinceBound
  <2> DEFINE n == [b EXCEPT !.since = @ + 1]
  <2>1. Older(b) = n
    BY <1>1 DEF Older
  <2>2. n \in Bucket /\ n.tokens = b.tokens /\ n.since = b.since + 1
    BY <1>1 DEF Bucket
  <2> QED
    BY <2>1, <2>2, RefillBounded DEF Refill
<1>2. CASE ~(b.since < SinceBound)
  <2>1. Older(b) = b
    BY <1>2 DEF Older
  <2>2. Refill(b) = Full
    BY <1>2, RefillBounded DEF Refill
  <2> QED
    BY <2>1, <2>2
<1> QED
  BY <1>1, <1>2

\* A new bucket is full, and a full one can pay.
LEMMA NewBucketIsFull ==
  NewBucket \in Bucket /\ Refill(NewBucket) = Full /\ Full >= TokenTicks
<1>1. NewBucket \in Bucket /\ Refill(NewBucket) = Full
  BY RateLimiterAssumption DEF NewBucket, Bucket, Refill
<1>2. \A m, n \in Nat : m > 0 => m * n >= n
  OBVIOUS
<1>3. Full >= TokenTicks
  BY <1>2, RateLimiterAssumption DEF Full
<1> QED
  BY <1>1, <1>3

\* Rounding up to whole seconds never shortens the wait.
LEMMA RetryAfterCovers ==
  ASSUME NEW b \in Bucket, ~Allowed(b)
  PROVE  /\ RetryAfter(b) * TicksPerSecond \in Nat
         /\ b.tokens + RetryAfter(b) * TicksPerSecond >= TokenTicks
<1> DEFINE x == TokenTicks - b.tokens
           d == TicksPerSecond
           q == (x + d - 1) \div d
<1>1. x \in Nat \ {0} /\ d \in Nat \ {0}
  BY RefillBounded, RateLimiterAssumption DEF Allowed
<1>2. RetryAfter(b) = q
  BY DEF RetryAfter
<1>3. q \in Nat /\ q * d >= x
  <2> HIDE DEF x, d
  <2>1. /\ q \in Int
        /\ x + d - 1 = (d * q) + ((x + d - 1) % d)
        /\ (x + d - 1) % d \in 0..(d - 1)
    BY <1>1
  <2>2. d * q >= x
    BY <2>1, <1>1
  <2>3. q \in Nat
    BY <2>1, <2>2, <1>1
  <2>4. q * d = d * q
    BY <2>1, <1>1
  <2> QED
    BY <2>2, <2>3, <2>4
<1>4. q * d \in Nat
  BY <1>1, <1>3
<1>5. b.tokens + q * d >= TokenTicks
  <2> HIDE DEF d, q
  <2> QED
    BY <1>1, <1>3, <1>4, RefillBounded, RateLimiterAssumption
<1> QED
  BY <1>2, <1>4, <1>5

-----------------------------------------------------------------------------
(* The bucket of a client.                                                  *)

\* The bucket a request meets is a bucket, whether it exists or is created.
LEMMA BucketOfTyped ==
  ASSUME TypeOK, NEW c \in Clients
  PROVE  BucketOf(c) \in Bucket /\ Level(c) \in 0..Full
<1>1. BucketOf(c) \in Bucket
  BY NewBucketIsFull DEF TypeOK, BucketOf
<1> QED
  BY <1>1, RefillBounded DEF Level

\* The levels after a request of client c.
LEMMA RequestLevels ==
  ASSUME TypeOK, NEW c \in Clients, Request(c)
  PROVE  /\ TypeOK'
         /\ Level(c)' = IF Allowed(BucketOf(c)) THEN Level(c) - TokenTicks ELSE Level(c)
         /\ \A d \in Clients \ {c} : Level(d)' = Level(d)
<1>1. BucketOf(c) \in Bucket
  BY BucketOfTyped
<1>2. Consumed(BucketOf(c)) \in Bucket
  BY <1>1, ConsumedEffect
<1>3. TypeOK'
  BY <1>2 DEF TypeOK, Request
<1>4. bucket'[c] = Consumed(BucketOf(c))
  BY DEF TypeOK, Request
<1>5. BucketOf(c)' = Consumed(BucketOf(c))
  BY <1>2, <1>4, NoBucketAssumption DEF BucketOf
<1>6. Level(c)' = Refill(Consumed(BucketOf(c)))
  BY <1>5 DEF Level
<1>7. \A d \in Clients \ {c} : Level(d)' = Level(d)
  BY DEF TypeOK, Request, Level, BucketOf
<1> QED
  BY <1>1, <1>3, <1>6, <1>7, ConsumedEffect DEF Level

\* The levels after a sweep.
LEMMA SweepLevels ==
  ASSUME TypeOK, Sweep
  PROVE  /\ TypeOK'
         /\ \A c \in Clients :
              /\ bucket'[c] = NoBucket => Level(c)' = Full
              /\ bucket'[c] # NoBucket => bucket'[c] = bucket[c] /\ Level(c)' = Level(c)
<1>1. TypeOK'
  BY DEF TypeOK, Sweep
<1>2. ASSUME NEW c \in Clients, bucket'[c] = NoBucket
      PROVE  Level(c)' = Full
  <2>1. BucketOf(c)' = NewBucket
    BY <1>2 DEF BucketOf, NewBucket
  <2> QED
    BY <2>1, NewBucketIsFull DEF Level
<1>3. ASSUME NEW c \in Clients, bucket'[c] # NoBucket
      PROVE  bucket'[c] = bucket[c] /\ Level(c)' = Level(c)
  BY <1>3 DEF Sweep, Level, BucketOf
<1> QED
  BY <1>1, <1>2, <1>3

\* The levels after a tick.
LEMMA TickLevels ==
  ASSUME TypeOK, Tick
  PROVE  /\ TypeOK'
         /\ \A c \in Clients :
              /\ Level(c)' = IF Level(c) < Full THEN Level(c) + 1 ELSE Level(c)
              /\ bucket[c] = NoBucket => Level(c)' = Full /\ Level(c) = Full
<1>1. \A c \in Clients : bucket[c] # NoBucket => Older(bucket[c]) \in Bucket
  BY OlderEffect DEF TypeOK
<1>2. TypeOK'
  BY <1>1 DEF TypeOK, Tick
<1>3. ASSUME NEW c \in Clients, bucket[c] = NoBucket
      PROVE  Level(c)' = Full /\ Level(c) = Full
  <2>1. BucketOf(c) = NewBucket /\ BucketOf(c)' = NewBucket
    BY <1>3 DEF Tick, BucketOf, NewBucket
  <2> QED
    BY <2>1, NewBucketIsFull DEF Level
<1>4. ASSUME NEW c \in Clients, bucket[c] # NoBucket
      PROVE  Level(c)' = IF Level(c) < Full THEN Level(c) + 1 ELSE Level(c)
  <2>1. bucket[c] \in Bucket
    BY <1>4 DEF TypeOK
  <2>2. bucket'[c] = Older(bucket[c])
    BY <1>4 DEF Tick
  <2>3. BucketOf(c) = bucket[c] /\ BucketOf(c)' = Older(bucket[c])
    BY <1>1, <1>4, <2>2, NoBucketAssumption DEF BucketOf
  <2>4. Level(c) = Refill(bucket[c]) /\ Level(c)' = Refill(Older(bucket[c]))
    BY <2>3 DEF Level
  <2> QED
    BY <2>1, <2>4, OlderEffect
<1>5. ASSUME NEW c \in Clients
      PROVE  Level(c)' = IF Level(c) < Full THEN Level(c) + 1 ELSE Level(c)
  <2>1. CASE bucket[c] = NoBucket
    <3>1. Level(c)' = Full /\ Level(c) = Full
      BY <1>3, <2>1
    <3>2. ~(Full < Full)
      BY RateLimiterAssumption
    <3> QED
      BY <3>1, <3>2
  <2>2. CASE bucket[c] # NoBucket
    BY <1>4, <2>2
  <2> QED
    BY <2>1, <2>2
<1> QED
  BY <1>2, <1>3, <1>5

-----------------------------------------------------------------------------
(* The limiter implements a token bucket.                                   *)

\* The limiter's variables keep their types.
THEOREM BucketsTyped == Spec => []TypeOK
<1>1. Init => TypeOK
  BY DEF Init, TypeOK
<1>2. TypeOK /\ [Next]_vars => TypeOK'
  <2> SUFFICES ASSUME TypeOK, [Next]_vars PROVE TypeOK'
    OBVIOUS
  <2>1. ASSUME NEW c \in Clients, Request(c) PROVE TypeOK'
    BY <2>1, RequestLevels
  <2>2. CASE Sweep
    BY <2>2, SweepLevels
  <2>3. CASE Stop
    BY <2>3 DEF TypeOK, Stop
  <2>4. CASE Tick
    BY <2>4, TickLevels
  <2>5. CASE UNCHANGED vars
    BY <2>5 DEF TypeOK, vars
  <2> QED
    BY <2>1, <2>2, <2>3, <2>4, <2>5 DEF Next
<1> QED
  BY <1>1, <1>2, PTL DEF Spec

\* Lazy refill, the clock left alone by rejections, and the bound on the age
\* amount to a bucket that is filled all the time; a sweep refills what it
\* deletes and nothing else does.
THEOREM RateLimiterIsTokenBucket == Spec => ImplementsTokenBucket
<1> DEFINE lvl == [c \in Clients |-> Level(c)]
<1>1. Init => Ideal!Init
  <2> SUFFICES ASSUME Init PROVE Ideal!Init
    OBVIOUS
  <2>1. \A c \in Clients : Level(c) = Full
    BY NewBucketIsFull DEF Init, Level, BucketOf
  <2> QED
    BY <2>1 DEF Ideal!Init, Ideal!Brim, Full
<1>2. TypeOK /\ [Next]_vars => [Ideal!Next]_lvl
  <2> SUFFICES ASSUME TypeOK, [Next]_vars PROVE Ideal!Next \/ lvl' = lvl
    OBVIOUS
  <2>1. ASSUME NEW c \in Clients, Request(c) PROVE Ideal!Next \/ lvl' = lvl
    <3>1. CASE Allowed(BucketOf(c))
      <4>1. Level(c) >= TokenTicks
        BY <3>1 DEF Allowed, Level
      <4>2. Level(c)' = Level(c) - TokenTicks
            /\ \A d \in Clients \ {c} : Level(d)' = Level(d)
        BY <2>1, <3>1, RequestLevels
      <4>3. lvl' = [lvl EXCEPT ![c] = @ - TokenTicks]
        BY <4>2
      <4>4. Ideal!Take(c)
        BY <4>1, <4>3 DEF Ideal!Take
      <4> QED
        BY <4>4 DEF Ideal!Next
    <3>2. CASE ~Allowed(BucketOf(c))
      <4>1. \A d \in Clients : Level(d)' = Level(d)
        BY <2>1, <3>2, RequestLevels
      <4> QED
        BY <4>1
    <3> QED
      BY <3>1, <3>2
  <2>2. CASE Sweep
    <3> DEFINE S == {c \in Clients : bucket'[c] = NoBucket}
    <3>1. \A c \in Clients : Level(c)' = IF c \in S THEN Full ELSE Level(c)
      BY <2>2, SweepLevels
    <3>2. lvl' = [c \in Clients |-> IF c \in S THEN Full ELSE lvl[c]]
      BY <3>1
    <3>3. Ideal!Forget(S)
      BY <3>2 DEF Ideal!Forget, Ideal!Brim, Full
    <3> QED
      BY <3>3 DEF Ideal!Next
  <2>3. CASE Stop
    BY <2>3 DEF Stop, Level, BucketOf
  <2>4. CASE Tick
    <3>1. \A c \in Clients :
            Level(c)' = IF Level(c) < Full THEN Level(c) + 1 ELSE Level(c)
      BY <2>4, TickLevels
    <3>2. lvl' = [c \in Clients |-> IF lvl[c] < Full THEN lvl[c] + 1 ELSE lvl[c]]
      BY <3>1
    <3>3. Ideal!Drip
      BY <3>2 DEF Ideal!Drip, Ideal!Brim, Full
    <3> QED
      BY <3>3 DEF Ideal!Next
  <2>5. CASE UNCHANGED vars
    BY <2>5 DEF vars, Level, BucketOf
  <2> QED
    BY <2>1, <2>2, <2>3, <2>4, <2>5 DEF Next
<1> QED
  BY <1>1, <1>2, BucketsTyped, PTL DEF Spec, ImplementsTokenBucket, Ideal!Spec

-----------------------------------------------------------------------------
(* What a client can check.                                                 *)

\* RateBounded and RetryAfterSuffices speak of moments; to be preserved they
\* must also say what is in the bucket now.
ClientInv ==
  /\ HTypeOK
  /\ \A c \in Clients :
       /\ granted[c] + Level(c) <= Full + elapsed[c]
       /\ due[c] # NoPromise => Level(c) + due[c] >= TokenTicks

\* An accepted request turns level into grants.
LEMMA AcceptedKeeps ==
  ASSUME ClientInv, NEW c \in Clients, HAccepted(c)
  PROVE  ClientInv'
<1> USE RateLimiterAssumption DEF ClientInv, HTypeOK, HAccepted
<1>1. TypeOK /\ TypeOK' /\ \A d \in Clients : Level(d) \in 0..Full
  BY RequestLevels, BucketOfTyped
<1>2. Level(c)' = Level(c) - TokenTicks
      /\ \A d \in Clients \ {c} : Level(d)' = Level(d)
  BY RequestLevels
<1>3. HTypeOK'
  BY <1>1
<1>4. ASSUME NEW d \in Clients
      PROVE  /\ granted'[d] + Level(d)' <= Full + elapsed'[d]
             /\ due'[d] # NoPromise => Level(d)' + due'[d] >= TokenTicks
  <2>1. CASE d = c
    BY <1>1, <1>2, <2>1
  <2>2. CASE d # c
    BY <1>1, <1>2, <2>2
  <2> QED
    BY <2>1, <2>2
<1> QED
  BY <1>3, <1>4

\* A rejection changes no level and names a time by which it suffices.
LEMMA RejectedKeeps ==
  ASSUME ClientInv, NEW c \in Clients, HRejected(c)
  PROVE  ClientInv'
<1> DEFINE wait == RetryAfter(BucketOf(c)) * TicksPerSecond
<1>1. TypeOK /\ TypeOK' /\ \A d \in Clients : Level(d) \in 0..Full
  BY RequestLevels, BucketOfTyped DEF ClientInv, HTypeOK, HRejected
<1>2. \A d \in Clients : Level(d)' = Level(d)
  BY <1>1, RequestLevels DEF HRejected
<1>3. wait \in Nat /\ Level(c) + wait >= TokenTicks
  <2>1. BucketOf(c) \in Bucket /\ ~Allowed(BucketOf(c))
    BY <1>1, BucketOfTyped DEF HRejected
  <2>2. wait \in Nat /\ BucketOf(c).tokens + wait >= TokenTicks
    BY <2>1, RetryAfterCovers
  <2>3. Level(c) >= BucketOf(c).tokens /\ BucketOf(c).tokens \in 0..Full
    BY <2>1, RefillBounded DEF Level
  <2> HIDE DEF wait
  <2> QED
    BY <1>1, <2>2, <2>3, RateLimiterAssumption
<1>4. /\ due' = [due EXCEPT ![c] = IF @ = NoPromise \/ wait < @ THEN wait ELSE @]
      /\ granted' = granted /\ elapsed' = elapsed
  BY DEF HRejected
<1> HIDE DEF wait
<1>5. HTypeOK'
  BY <1>1, <1>3, <1>4 DEF ClientInv, HTypeOK
<1>6. ASSUME NEW d \in Clients
      PROVE  /\ granted'[d] + Level(d)' <= Full + elapsed'[d]
             /\ due'[d] # NoPromise => Level(d)' + due'[d] >= TokenTicks
  BY <1>2, <1>3, <1>4 DEF ClientInv, HTypeOK
<1> QED
  BY <1>5, <1>6 DEF ClientInv

\* A sweep starts the count of the clients it forgets again.
LEMMA SweepKeeps ==
  ASSUME ClientInv, HSweep
  PROVE  ClientInv'
<1> USE RateLimiterAssumption, ClientsAssumption DEF ClientInv, HTypeOK, HSweep
<1>1. TypeOK /\ TypeOK' /\ \A d \in Clients : Level(d) \in 0..Full
  BY SweepLevels, BucketOfTyped
<1>2. HTypeOK'
  BY <1>1
<1>3. ASSUME NEW d \in Clients
      PROVE  /\ granted'[d] + Level(d)' <= Full + elapsed'[d]
             /\ due'[d] # NoPromise => Level(d)' + due'[d] >= TokenTicks
  <2>1. CASE bucket'[d] = NoBucket
    BY <1>1, <2>1, SweepLevels, NewBucketIsFull
  <2>2. CASE bucket'[d] # NoBucket
    BY <1>1, <2>2, SweepLevels
  <2> QED
    BY <2>1, <2>2
<1> QED
  BY <1>2, <1>3

\* A tick adds at most one part to a level and one to the time it is held
\* against.
LEMMA TickKeeps ==
  ASSUME ClientInv, HTick
  PROVE  ClientInv'
<1> USE RateLimiterAssumption, ClientsAssumption DEF ClientInv, HTypeOK, HTick
<1>1. TypeOK /\ TypeOK' /\ \A d \in Clients : Level(d) \in 0..Full
  BY TickLevels, BucketOfTyped
<1>2. HTypeOK'
  BY <1>1
<1>3. ASSUME NEW d \in Clients
      PROVE  /\ granted'[d] + Level(d)' <= Full + elapsed'[d]
             /\ due'[d] # NoPromise => Level(d)' + due'[d] >= TokenTicks
  <2>1. Level(d)' = IF Level(d) < Full THEN Level(d) + 1 ELSE Level(d)
    BY <1>1, TickLevels
  <2>2. bucket[d] = NoBucket => Level(d)' = Full /\ Level(d) = Full
    BY <1>1, TickLevels
  <2>3. granted'[d] + Level(d)' <= Full + elapsed'[d]
    BY <1>1, <2>1, <2>2
  <2>4. due'[d] # NoPromise => Level(d)' + due'[d] >= TokenTicks
    BY <1>1, <2>1, NewBucketIsFull
  <2> QED
    BY <2>3, <2>4
<1> QED
  BY <1>2, <1>3

\* The invariant holds in every behaviour.
THEOREM ClientInvariant == HSpec => []ClientInv
<1>1. HInit => ClientInv
  <2> SUFFICES ASSUME HInit PROVE ClientInv
    OBVIOUS
  <2>1. \A c \in Clients : Level(c) = Full
    BY NewBucketIsFull DEF HInit, Init, Level, BucketOf
  <2>2. TypeOK
    BY DEF HInit, Init, TypeOK
  <2> QED
    BY <2>1, <2>2, RateLimiterAssumption, ClientsAssumption DEF HInit, ClientInv, HTypeOK
<1>2. ClientInv /\ [HNext]_hvars => ClientInv'
  <2> SUFFICES ASSUME ClientInv, [HNext]_hvars PROVE ClientInv'
    OBVIOUS
  <2>1. ASSUME NEW c \in Clients, HAccepted(c) PROVE ClientInv'
    BY <2>1, AcceptedKeeps
  <2>2. ASSUME NEW c \in Clients, HRejected(c) PROVE ClientInv'
    BY <2>2, RejectedKeeps
  <2>3. CASE HSweep
    BY <2>3, SweepKeeps
  <2>4. CASE HStop
    BY <2>4 DEF ClientInv, HTypeOK, TypeOK, HStop, Stop, Level, BucketOf
  <2>5. CASE HTick
    BY <2>5, TickKeeps
  <2>6. CASE UNCHANGED hvars
    BY <2>6 DEF ClientInv, HTypeOK, TypeOK, hvars, Level, BucketOf
  <2> QED
    BY <2>1, <2>2, <2>3, <2>4, <2>5, <2>6 DEF HNext
<1> QED
  BY <1>1, <1>2, PTL DEF HSpec

\* No bucket holds more than its capacity and no count leaves its range, for
\* every capacity, rate and rhythm of requests.
THEOREM ClientsTyped == HSpec => []HTypeOK
<1>1. ClientInv => HTypeOK
  BY DEF ClientInv
<1> QED
  BY <1>1, ClientInvariant, PTL

\* Between two sweeps no client is granted more than a bucket and its drip.
THEOREM GrantsAreBounded == HSpec => []RateBounded
<1>1. ClientInv => RateBounded
  <2> SUFFICES ASSUME ClientInv, NEW c \in Clients PROVE granted[c] <= Full + elapsed[c]
    BY DEF RateBounded
  <2>1. Level(c) \in 0..Full
    BY BucketOfTyped DEF ClientInv, HTypeOK
  <2> QED
    BY <2>1, RateLimiterAssumption, ClientsAssumption DEF ClientInv, HTypeOK
<1> QED
  BY <1>1, ClientInvariant, PTL

\* A client that waited as long as a 429 told it to is accepted.
THEOREM WaitingSuffices == HSpec => []RetryAfterSuffices
<1>1. ClientInv => RetryAfterSuffices
  <2> SUFFICES ASSUME ClientInv, NEW c \in Clients, due[c] = 0
               PROVE  Allowed(BucketOf(c))
    BY DEF RetryAfterSuffices
  <2>1. Level(c) \in 0..Full
    BY BucketOfTyped DEF ClientInv, HTypeOK
  <2>2. Level(c) + due[c] >= TokenTicks
    BY ClientsAssumption DEF ClientInv
  <2>3. Level(c) >= TokenTicks
    BY <2>1, <2>2, RateLimiterAssumption
  <2> QED
    BY <2>3 DEF Allowed, Level
<1> QED
  BY <1>1, ClientInvariant, PTL

\* cleanup() mixes seconds and milliseconds, so that to it every bucket is
\* older than five minutes, whenever it was last used.
LEMMA EveryBucketExpires ==
  ASSUME NEW b \in Bucket
  PROVE  Expired(b)
<1>1. b.since \in Nat
  BY RefillBounded, RateLimiterAssumption
<1>2. b.since \div TicksPerSecond \in Nat
  BY <1>1, RateLimiterAssumption
<1> QED
  BY <1>2, RateLimiterAssumption DEF Expired


-----------------------------------------------------------------------------
(* The processes of the platform.                                           *)

PortsSeen == Nat \cup {Invalid}

ProcessRecord ==
    [state : {"absent", "booting", "serving", "draining", "exited"},
     code : {"none", "0", "1", "killed"}, refused : BOOLEAN,
     port : PortsSeen, signals : Nat, inFlight : Nat, timers : BOOLEAN,
     left : 0..Grace, elapsed : 0..Grace, cut : Nat]

\* The time a draining process has been granted and the time it has left are
\* the whole grace; nothing has run before it drains, and nothing was cut when
\* it leaves with 0.
OnTime(r) ==
    /\ r.state \in {"absent", "booting", "serving"} => r.elapsed = 0
    /\ r.state = "draining" => r.elapsed + r.left = Grace /\ ~r.timers
    /\ r.state # "exited" => r.code = "none"
    /\ r.code = "0" => r.cut = 0

GoodRecords == {r \in ProcessRecord : OnTime(r)}

LCInv ==
    /\ proc \in [Processes -> GoodRecords]
    /\ supervisor = "starting" => environment \in Environments

\* A setting that is read as an integer is its fallback, in its range, or
\* refused.
LEMMA IntInRangeTyped ==
    ASSUME NEW text, NEW range, range.min \in Int, range.max \in Int,
           IntInRange(text, range) # range.fallback,
           IntInRange(text, range) # Invalid
    PROVE  /\ IntInRange(text, range) \in Int
           /\ IntInRange(text, range) >= range.min
           /\ IntInRange(text, range) <= range.max
<1>1. IntInRange(text, range) \in range.min..range.max
  BY DEF IntInRange
<1> QED
  BY <1>1

LEMMA PortIsANumber ==
    ASSUME NEW e
    PROVE  Loaded(e).PORT \in PortsSeen
<1> DEFINE range == Range(4000, 1, 65535)
           x == IntInRange(Raw(e, "PORT"), range)
<1>1. "PORT" \in DOMAIN Integral
  BY DEF Integral
<1>2. Integral["PORT"] = range
  BY DEF Integral
<1>3. Loaded(e).PORT = x
  BY <1>1, <1>2 DEF Loaded
<1>4. range.fallback = 4000 /\ range.min = 1 /\ range.max = 65535
  BY DEF Range
<1> HIDE DEF range
<1>5. CASE x = 4000 \/ x = Invalid
  BY <1>3, <1>5 DEF PortsSeen
<1>6. CASE x # 4000 /\ x # Invalid
  <2>1. x \in Int /\ x >= 1
    BY <1>4, <1>6, IntInRangeTyped
  <2> QED
    BY <1>3, <2>1 DEF PortsSeen
<1> QED
  BY <1>5, <1>6

LEMMA SpawnedIsGood ==
    ASSUME NEW p \in Processes
    PROVE  Absent \in GoodRecords /\ Spawned(p) \in GoodRecords
<1>1. Absent \in ProcessRecord
  <2>1. 0 \in PortsSeen
    BY DEF PortsSeen
  <2> QED
    BY <2>1, LifecycleAssumption DEF Absent, ProcessRecord
<1>2. OnTime(Absent)
  BY DEF Absent, OnTime
<1> DEFINE refused == p = Gateway /\ (Refused(environment) \/ CompositionThrows(environment))
           port == IF p = Gateway THEN Loaded(environment).PORT ELSE PortOf[p]
<1>3. refused \in BOOLEAN
  OBVIOUS
<1>4. port \in PortsSeen
  <2>1. CASE p = Gateway
    BY <2>1, PortIsANumber
  <2>2. CASE p # Gateway
    <3>1. PortOf[p] \in Ports
      BY <2>2, LifecycleAssumption DEF Processes
    <3>2. \A i \in Ports : i \in Nat
      BY DEF Ports
    <3> QED
      BY <2>2, <3>1, <3>2 DEF PortsSeen
  <2> QED
    BY <2>1, <2>2
<1>5. Spawned(p) = [Absent EXCEPT !.state = "booting", !.refused = refused, !.port = port]
  BY DEF Spawned
<1> HIDE DEF refused, port
<1>6. Spawned(p) \in ProcessRecord /\ OnTime(Spawned(p))
  BY <1>1, <1>3, <1>4, <1>5 DEF Absent, ProcessRecord, OnTime
<1> QED
  BY <1>1, <1>2, <1>6 DEF GoodRecords

\* A process that is alive may exit with 1 or be killed; it exits with 0 only
\* when nothing is in flight.
LEMMA GoneIsGood ==
    ASSUME NEW r \in GoodRecords, NEW code \in {"0", "1", "killed"},
           code = "0" => r.inFlight = 0
    PROVE  Gone(r, code) \in GoodRecords
<1>1. r \in ProcessRecord
  BY DEF GoodRecords
<1>2. Gone(r, code) \in ProcessRecord
  <2>1. 0 \in PortsSeen
    BY DEF PortsSeen
  <2> QED
    BY <1>1, <2>1 DEF Gone, ProcessRecord
<1>3. /\ Gone(r, code).state = "exited"
      /\ Gone(r, code).code = code
      /\ Gone(r, code).cut = r.inFlight
  BY <1>1 DEF Gone, ProcessRecord
<1>4. OnTime(Gone(r, code))
  BY <1>3 DEF OnTime
<1> QED
  BY <1>2, <1>4 DEF GoodRecords

\* shutdown() starts the grace once.
LEMMA ShutdownIsGood ==
    ASSUME NEW r \in GoodRecords, r.state \in {"serving", "draining"}
    PROVE  Shutdown(r) \in GoodRecords /\ Shutdown(r).signals = r.signals
<1>1. r \in ProcessRecord /\ OnTime(r)
  BY DEF GoodRecords
<1>2. CASE r.state = "draining"
  BY <1>2 DEF Shutdown
<1>3. CASE r.state = "serving"
  <2> DEFINE n == [r EXCEPT !.state = "draining", !.timers = FALSE, !.left = Grace]
  <2>1. Shutdown(r) = n
    BY <1>3 DEF Shutdown
  <2> DEFINE a == [r EXCEPT !.state = "draining"]
             b == [a EXCEPT !.timers = FALSE]
  <2>2. /\ a \in ProcessRecord /\ a.state = "draining"
        /\ a.elapsed = r.elapsed /\ a.code = r.code /\ a.signals = r.signals
    BY <1>1 DEF ProcessRecord
  <2>3. /\ b \in ProcessRecord /\ ~b.timers /\ b.state = "draining"
        /\ b.elapsed = r.elapsed /\ b.code = r.code /\ b.signals = r.signals
    <3> HIDE DEF a
    <3> QED
      BY <2>2 DEF ProcessRecord
  <2>4. n = [b EXCEPT !.left = Grace]
    OBVIOUS
  <2>5. Grace \in 0..Grace /\ 0 + Grace = Grace
    BY LifecycleAssumption
  <2> HIDE DEF a, b, n
  <2>6. n \in ProcessRecord
    BY <2>3, <2>4, <2>5 DEF ProcessRecord
  <2>7. /\ n.state = "draining" /\ ~n.timers /\ n.left = Grace
        /\ n.elapsed = r.elapsed /\ n.code = r.code /\ n.signals = r.signals
    BY <2>3, <2>4 DEF ProcessRecord
  <2>8. r.elapsed = 0 /\ r.code = "none"
    BY <1>1, <1>3 DEF OnTime
  <2>9. OnTime(n)
    BY <2>5, <2>7, <2>8 DEF OnTime
  <2> QED
    BY <2>1, <2>6, <2>7, <2>9 DEF GoodRecords
<1> QED
  BY <1>2, <1>3

\* Requests, signals and the boot leave the clock alone.
LEMMA CountsAreGood ==
    ASSUME NEW r \in GoodRecords
    PROVE  /\ [r EXCEPT !.inFlight = @ + 1] \in GoodRecords
           /\ r.inFlight > 0 => [r EXCEPT !.inFlight = @ - 1] \in GoodRecords
           /\ [r EXCEPT !.signals = @ + 1] \in GoodRecords
           /\ r.signals > 0 => [r EXCEPT !.signals = @ - 1] \in GoodRecords
BY DEF GoodRecords, ProcessRecord, OnTime

LEMMA ServingIsGood ==
    ASSUME NEW r \in GoodRecords, r.state = "booting", NEW t \in BOOLEAN
    PROVE  [r EXCEPT !.state = "serving", !.timers = t] \in GoodRecords
BY DEF GoodRecords, ProcessRecord, OnTime

\* A tick moves a unit from the time left to the time that has passed.
LEMMA TickedIsGood ==
    ASSUME NEW r \in GoodRecords, r.state = "draining", r.left > 0
    PROVE  [r EXCEPT !.left = @ - 1, !.elapsed = IF @ > Grace THEN @ ELSE @ + 1]
             \in GoodRecords
<1> DEFINE n == [r EXCEPT !.left = @ - 1, !.elapsed = IF @ > Grace THEN @ ELSE @ + 1]
<1>1. r \in ProcessRecord /\ OnTime(r)
  BY DEF GoodRecords
<1>2. /\ Grace \in Nat /\ r.left \in 0..Grace /\ r.elapsed \in 0..Grace
      /\ r.elapsed + r.left = Grace
  BY <1>1, LifecycleAssumption DEF OnTime, ProcessRecord
<1>3. /\ r.left - 1 \in 0..Grace
      /\ (IF r.elapsed > Grace THEN r.elapsed ELSE r.elapsed + 1) = r.elapsed + 1
      /\ r.elapsed + 1 \in 0..Grace
      /\ (r.elapsed + 1) + (r.left - 1) = Grace
  BY <1>2
<1>4. n = [r EXCEPT !.left = r.left - 1, !.elapsed = r.elapsed + 1]
  BY <1>3
<1>5. n \in ProcessRecord
  BY <1>1, <1>3, <1>4 DEF ProcessRecord
<1>6. /\ n.left = r.left - 1 /\ n.elapsed = r.elapsed + 1 /\ n.timers = r.timers
      /\ n.state = r.state /\ n.code = r.code /\ n.cut = r.cut
  BY <1>1, <1>4 DEF ProcessRecord
<1> HIDE DEF n
<1>7. OnTime(n)
  BY <1>1, <1>3, <1>6 DEF OnTime
<1> QED
  BY <1>5, <1>7 DEF GoodRecords, n

-----------------------------------------------------------------------------
(* Every step keeps the processes punctual.                                 *)

LEMMA InitGood == LCInit => LCInv
<1> SUFFICES ASSUME LCInit PROVE LCInv
  OBVIOUS
<1>1. \A p \in Processes : Absent \in GoodRecords
  BY SpawnedIsGood
<1> QED
  BY <1>1 DEF LCInit, LCInv

\* The steps of the processes.
LEMMA ProcessSteps ==
    ASSUME LCInv, NEW p \in Processes,
           \/ Boot(p) \/ Accept(p) \/ Finish(p) \/ HandleSignal(p) \/ Fault(p)
           \/ Drained(p) \/ GraceOver(p) \/ Kill(p)
    PROVE  LCInv'
<1>1. proc[p] \in GoodRecords /\ proc \in [Processes -> GoodRecords]
  BY DEF LCInv
<1>2. supervisor' = supervisor /\ environment' = environment
  BY DEF Boot, Accept, Finish, HandleSignal, Fault, Drained, GraceOver, Kill
<1>3. SUFFICES ASSUME NEW r \in GoodRecords, proc' = [proc EXCEPT ![p] = r]
               PROVE  LCInv'
  <2>1. SUFFICES \E r \in GoodRecords : proc' = [proc EXCEPT ![p] = r]
    BY <1>3
  <2>2. \A code \in {"1", "killed"} : Gone(proc[p], code) \in GoodRecords
    BY <1>1, GoneIsGood
  <2>3. CASE Boot(p)
    <3>1. proc[p].state = "booting"
      BY <2>3 DEF Boot
    <3>2. [proc[p] EXCEPT !.state = "serving", !.timers = (p = Gateway)] \in GoodRecords
      BY <1>1, <3>1, ServingIsGood
    <3> QED
      BY <2>2, <2>3, <3>2 DEF Boot, Exits
  <2>4. CASE Accept(p)
    BY <1>1, <2>4, CountsAreGood DEF Accept
  <2>5. CASE Finish(p)
    BY <1>1, <2>5, CountsAreGood DEF Finish
  <2>6. CASE HandleSignal(p)
    <3>1. CASE proc[p].state = "booting"
      BY <2>2, <2>6, <3>1 DEF HandleSignal, Exits
    <3>2. CASE proc[p].state # "booting"
      <4>1. proc[p].state \in {"serving", "draining"} /\ proc[p].signals > 0
        BY <2>6, <3>2 DEF HandleSignal, Alive
      <4>2. Shutdown(proc[p]) \in GoodRecords /\ Shutdown(proc[p]).signals > 0
        BY <1>1, <4>1, ShutdownIsGood
      <4>3. [Shutdown(proc[p]) EXCEPT !.signals = @ - 1] \in GoodRecords
        BY <4>2, CountsAreGood
      <4> QED
        BY <2>6, <3>2, <4>3 DEF HandleSignal
    <3> QED
      BY <3>1, <3>2
  <2>7. CASE Fault(p)
    BY <1>1, <2>7, ShutdownIsGood DEF Fault
  <2>8. CASE Drained(p)
    BY <1>1, <2>8, GoneIsGood DEF Drained, Exits
  <2>9. CASE GraceOver(p)
    BY <2>2, <2>9 DEF GraceOver, Exits
  <2>10. CASE Kill(p)
    BY <2>2, <2>10 DEF Kill, Exits
  <2> QED
    BY <2>3, <2>4, <2>5, <2>6, <2>7, <2>8, <2>9, <2>10
<1>4. proc' \in [Processes -> GoodRecords]
  BY <1>1, <1>3
<1> QED
  BY <1>2, <1>4 DEF LCInv

\* The steps of the watchers.
LEMMA WatcherSteps ==
    ASSUME LCInv, NEW p \in Simulators,
           WatcherBoots(p) \/ WatcherHandlesSignal(p) \/ WatcherDone(p) \/ KillWatcher(p)
    PROVE  LCInv'
<1>1. proc \in [Processes -> GoodRecords] /\ p \in Processes
  BY DEF LCInv, Processes
<1>2. supervisor' = supervisor /\ environment' = environment
  BY DEF WatcherBoots, WatcherHandlesSignal, WatcherDone, KillWatcher
<1>3. proc' \in [Processes -> GoodRecords]
  <2>1. CASE WatcherBoots(p)
    BY <1>1, <2>1, SpawnedIsGood DEF WatcherBoots
  <2>2. CASE WatcherHandlesSignal(p)
    <3>1. Signalled(proc[p]) \in GoodRecords
      BY <1>1, CountsAreGood DEF Signalled
    <3> QED
      BY <1>1, <2>2, <3>1 DEF WatcherHandlesSignal
  <2>3. CASE WatcherDone(p) \/ KillWatcher(p)
    BY <1>1, <2>3 DEF WatcherDone, KillWatcher
  <2> QED
    BY <2>1, <2>2, <2>3
<1> QED
  BY <1>2, <1>3 DEF LCInv

\* Signals keep the processes punctual, whoever they are sent to.
LEMMA ToldIsGood ==
    ASSUME LCInv, NEW servers, ServersTold(servers) \/ UNCHANGED proc
    PROVE  proc' \in [Processes -> GoodRecords]
<1>1. proc \in [Processes -> GoodRecords]
  BY DEF LCInv
<1>2. \A p \in Processes : Signalled(proc[p]) \in GoodRecords
  BY <1>1, CountsAreGood DEF Signalled
<1> QED
  BY <1>1, <1>2 DEF ServersTold

\* The steps of the script, and of time.
LEMMA ScriptSteps ==
    ASSUME LCInv,
           \/ Launch \/ (\E fromTerminal \in BOOLEAN : Signal(fromTerminal))
           \/ StopAll \/ ExitNoticed \/ NothingLeft \/ KillScript \/ GraceTick
    PROVE  LCInv'
<1>1. proc \in [Processes -> GoodRecords]
  BY DEF LCInv
<1>2. CASE Launch
  <2>1. proc' \in [Processes -> GoodRecords]
    BY <1>1, <1>2, SpawnedIsGood DEF Launch
  <2>2. supervisor' = "running"
    BY <1>2 DEF Launch
  <2> QED
    BY <2>1, <2>2 DEF LCInv
<1>3. ASSUME NEW fromTerminal \in BOOLEAN, Signal(fromTerminal)
      PROVE  LCInv'
  <2>1. ServersTold(Processes) \/ UNCHANGED proc
    BY <1>3 DEF Signal
  <2>2. supervisor' = "signalled"
    BY <1>3 DEF Signal
  <2> QED
    BY <2>1, <2>2, ToldIsGood DEF LCInv
<1>4. CASE StopAll \/ ExitNoticed
  <2>1. ServersTold(Processes) \/ UNCHANGED proc
    BY <1>4 DEF StopAll, ExitNoticed, ChildrenSignalled
  <2>2. supervisor' = "exited"
    BY <1>4 DEF StopAll, ExitNoticed
  <2> QED
    BY <2>1, <2>2, ToldIsGood DEF LCInv
<1>5. CASE NothingLeft \/ KillScript
  <2>1. supervisor' # "starting" /\ proc' = proc
    BY <1>5 DEF NothingLeft, KillScript
  <2> QED
    BY <1>1, <2>1 DEF LCInv
<1>6. CASE GraceTick
  <2>1. \A p \in Draining : /\ p \in Processes
                            /\ proc[p] \in GoodRecords
                            /\ proc[p].state = "draining" /\ proc[p].left > 0
    BY <1>1, <1>6 DEF GraceTick, Draining
  <2>2. \A p \in Draining :
           [proc[p] EXCEPT !.left = @ - 1,
                           !.elapsed = IF @ > Grace THEN @ ELSE @ + 1] \in GoodRecords
    BY <2>1, TickedIsGood
  <2>3. proc' \in [Processes -> GoodRecords]
    BY <1>1, <1>6, <2>2 DEF GraceTick
  <2> QED
    BY <2>3, <1>6 DEF GraceTick, LCInv
<1> QED
  BY <1>2, <1>3, <1>4, <1>5, <1>6

LEMMA LCInvHolds == LCSpec => []LCInv
<1>1. LCInv /\ [LCNext]_lcvars => LCInv'
  <2> SUFFICES ASSUME LCInv, [LCNext]_lcvars PROVE LCInv'
    OBVIOUS
  <2>1. CASE LCNext
    BY <2>1, ProcessSteps, WatcherSteps, ScriptSteps DEF LCNext
  <2>2. CASE UNCHANGED lcvars
    BY <2>2 DEF lcvars, LCInv
  <2> QED
    BY <2>1, <2>2
<1> QED
  BY <1>1, InitGood, PTL DEF LCSpec

\* Told to stop however often and from wherever, a process drains for at most
\* its grace, without probing or sampling, and leaves with 0 only if no request
\* was cut: setupGracefulShutdown of server.ts and of the simulators.
THEOREM StopsInTimeHolds == LCSpec => []StopsInTime
<1>1. LCInv => StopsInTime
  <2> SUFFICES ASSUME LCInv, NEW p \in Processes
               PROVE  /\ proc[p].state = "draining" => proc[p].elapsed <= Grace /\ ~proc[p].timers
                      /\ proc[p].code = "0" => proc[p].cut = 0
    BY DEF StopsInTime
  <2>1. proc[p] \in ProcessRecord /\ OnTime(proc[p])
    BY DEF LCInv, GoodRecords
  <2>2. proc[p].elapsed \in 0..Grace
    BY <2>1 DEF ProcessRecord
  <2>3. proc[p].elapsed <= Grace
    BY <2>2, LifecycleAssumption
  <2> QED
    BY <2>1, <2>3 DEF OnTime
<1> QED
  BY <1>1, LCInvHolds, PTL

-----------------------------------------------------------------------------
(* The settings.                                                            *)

\* The settings that may be 0.
MayBeZero == {"RETRY_BASE_DELAY_MS", "RETRY_MAX_DELAY_MS", "INCIDENT_RECOVERY_QUIET_MS"}

\* Every range is one of numbers, and holds its fallback.
LEMMA RangesAreRanges ==
    ASSUME NEW name \in DOMAIN Integral
    PROVE  /\ Integral[name].min \in Nat /\ Integral[name].max \in Nat
           /\ Integral[name].fallback \in Nat
           /\ Integral[name].min <= Integral[name].fallback
           /\ Integral[name].fallback <= Integral[name].max
           /\ name \notin MayBeZero => Integral[name].min > 0
BY DEF Integral, Range, MayBeZero

\* What loadEnv accepts is in the range of its setting.
LEMMA AcceptedIsInRange ==
    ASSUME NEW e, ~Refused(e), NEW name \in DOMAIN Integral
    PROVE  /\ Loaded(e)[name] = IntInRange(Raw(e, name), Integral[name])
           /\ Loaded(e)[name] # Invalid
           /\ Loaded(e)[name] \in Nat
           /\ Integral[name].min <= Loaded(e)[name]
           /\ Loaded(e)[name] <= Integral[name].max
<1>1. Loaded(e)[name] = IntInRange(Raw(e, name), Integral[name])
  BY DEF Loaded
<1>2. Loaded(e)[name] # Invalid
  BY DEF Refused
<1>3. CASE Loaded(e)[name] = Integral[name].fallback
  BY <1>1, <1>2, <1>3, RangesAreRanges
<1>4. CASE Loaded(e)[name] # Integral[name].fallback
  BY <1>1, <1>2, <1>4, RangesAreRanges, IntInRangeTyped
<1> QED
  BY <1>1, <1>2, <1>3, <1>4

\* An accepted environment is one no constructor refuses.
LEMMA ConstructorsAgree ==
    ASSUME NEW e, ~Refused(e)
    PROVE  ~ConstructorThrows(Loaded(e))
<1> DEFINE config == Loaded(e)
<1>1. /\ "EVENTS_CAPACITY" \in DOMAIN Integral
      /\ "METRICS_LATENCY_WINDOW" \in DOMAIN Integral
      /\ "ANOMALY_WINDOW_SIZE" \in DOMAIN Integral
      /\ "ANOMALY_MIN_SAMPLES" \in DOMAIN Integral
  BY DEF Integral
<1>2. /\ Integral["EVENTS_CAPACITY"].min = 10
      /\ Integral["METRICS_LATENCY_WINDOW"].min = 10
      /\ Integral["ANOMALY_WINDOW_SIZE"].min = 5
      /\ Integral["ANOMALY_MIN_SAMPLES"].min = 2
  BY DEF Integral, Range
<1>3. /\ config.EVENTS_CAPACITY \in Nat /\ config.EVENTS_CAPACITY >= 10
      /\ config.METRICS_LATENCY_WINDOW \in Nat /\ config.METRICS_LATENCY_WINDOW >= 10
      /\ config.ANOMALY_WINDOW_SIZE \in Nat /\ config.ANOMALY_WINDOW_SIZE >= 5
      /\ config.ANOMALY_MIN_SAMPLES \in Nat /\ config.ANOMALY_MIN_SAMPLES >= 2
  <2>1. \A name \in DOMAIN Integral :
           config[name] \in Nat /\ Integral[name].min <= config[name]
    BY AcceptedIsInRange
  <2> QED
    BY <1>1, <1>2, <2>1
<1>4. ScoresOrdered(config.ANOMALY_SCORE_WARNING, config.ANOMALY_SCORE_ANOMALOUS)
  BY DEF Refused
<1>5. ~Exceeds(config.ANOMALY_MIN_SAMPLES, config.ANOMALY_WINDOW_SIZE)
  BY DEF Refused
<1> HIDE DEF config
<1>6. config.ANOMALY_MIN_SAMPLES <= config.ANOMALY_WINDOW_SIZE
  <2>1. NaN \notin {config.ANOMALY_MIN_SAMPLES, config.ANOMALY_WINDOW_SIZE}
    BY <1>3, NumberAssumption
  <2> QED
    BY <1>3, <1>5, <2>1 DEF Exceeds
<1>7. ~StoreThrows(config.EVENTS_CAPACITY)
  BY <1>3 DEF StoreThrows
<1>8. ~WindowThrows(config.METRICS_LATENCY_WINDOW)
  BY <1>3 DEF WindowThrows
<1>9. ~DetectorThrows(config.ANOMALY_WINDOW_SIZE, config.ANOMALY_MIN_SAMPLES,
                      config.ANOMALY_SCORE_WARNING, config.ANOMALY_SCORE_ANOMALOUS)
  BY <1>3, <1>4, <1>6 DEF DetectorThrows
<1> QED
  BY <1>7, <1>8, <1>9 DEF ConstructorThrows, config

\* No service is registered twice, no group names one that is not registered,
\* and each is where its simulator listens.
LEMMA TopologyIsSound ==
    /\ ~ByNameThrows
    /\ ~RegistryThrows
    /\ {Registrations[i] : i \in DOMAIN Registrations} = Simulated
    /\ \A group \in ProviderGroups : \A i \in DOMAIN group.providers :
          \E s \in Simulated : /\ s.name = group.providers[i]
                               /\ s.targetPath = group.targetPath
<1>1. DOMAIN Registrations = 1..4
  BY DEF Registrations
<1>2. /\ Registrations[1] = Registration("payment", 4101, "/api/payments/test")
      /\ Registrations[2] = Registration("ai-primary", 4102, "/api/ai/test")
      /\ Registrations[3] = Registration("ai-fallback", 4104, "/api/ai/test")
      /\ Registrations[4] = Registration("notification", 4103, "/api/notifications/test")
  BY DEF Registrations
<1>3. {Registrations[i] : i \in DOMAIN Registrations} = Simulated
  BY <1>1, <1>2 DEF Simulated
<1>4. \A group \in ProviderGroups : \A i \in DOMAIN group.providers :
          \E s \in Simulated : /\ s.name = group.providers[i]
                               /\ s.targetPath = group.targetPath
  BY DEF ProviderGroups, Group, Simulated, Registration
<1>5. ~ByNameThrows
  BY <1>3, <1>4 DEF ByNameThrows
<1>6. ~RegistryThrows
  BY <1>1, <1>2 DEF RegistryThrows, Registration
<1> QED
  BY <1>3, <1>4, <1>5, <1>6

\* A whole number is read the same way both times it is read, and what is not
\* given has the same fallback in loadEnv and in the limiter's factory.
LEMMA LimiterAgrees ==
    ASSUME NEW e \in Environments, ~Refused(e), NEW name \in DOMAIN Integral,
           Raw(e, name).kind \in {"unset", "whole"}
    PROVE  IF name \in DOMAIN e THEN ToNumber(e[name]) = Loaded(e)[name]
           ELSE Loaded(e)[name] = Integral[name].fallback
<1>1. Loaded(e)[name] = IntInRange(Raw(e, name), Integral[name])
      /\ Loaded(e)[name] # Invalid
  BY AcceptedIsInRange
<1>2. CASE name \notin DOMAIN e
  <2>1. Raw(e, name).kind = "unset"
    BY <1>2 DEF Raw, Text
  <2> QED
    BY <1>1, <1>2, <2>1 DEF IntInRange
<1>3. CASE name \in DOMAIN e
  <2>1. e[name] \in Texts /\ Raw(e, name) = e[name]
    BY <1>3, LifecycleAssumption DEF Raw
  <2>2. e[name].kind = "whole"
    BY <2>1 DEF Texts
  <2>3. ParseInt(e[name]) = e[name].n /\ ToNumber(e[name]) = e[name].n
    BY <2>2 DEF ParseInt, ToNumber
  <2>4. IntInRange(e[name], Integral[name]) \in {ParseInt(e[name]), Invalid}
    BY <2>2 DEF IntInRange
  <2> QED
    BY <1>1, <1>3, <2>1, <2>3, <2>4
<1> QED
  BY <1>2, <1>3

\* The rate, which loadEnv reads as a float, too.
LEMMA RateAgrees ==
    ASSUME NEW e \in Environments,
           Raw(e, "RATE_LIMIT_REFILL_RATE").kind \in {"unset", "whole"}
    PROVE  Limiter(e).refillRate = Loaded(e).RATE_LIMIT_REFILL_RATE
<1> DEFINE name == "RATE_LIMIT_REFILL_RATE"
<1>1. Loaded(e).RATE_LIMIT_REFILL_RATE = FloatOr(Raw(e, name), 10)
  <2>1. /\ name \in DOMAIN Fractional /\ name \notin DOMAIN Integral
        /\ Fractional[name] = 10
    BY DEF Fractional, Integral
  <2> QED
    BY <2>1 DEF Loaded
<1>2. Limiter(e).refillRate = IF name \in DOMAIN e THEN ToNumber(e[name]) ELSE 10
  BY DEF Limiter
<1>3. CASE name \notin DOMAIN e
  <2>1. Raw(e, name).kind = "unset"
    BY <1>3 DEF Raw, Text
  <2> QED
    BY <1>1, <1>2, <1>3, <2>1 DEF FloatOr
<1>4. CASE name \in DOMAIN e
  <2>1. e[name] \in Texts /\ Raw(e, name) = e[name]
    BY <1>4, LifecycleAssumption DEF Raw
  <2>2. e[name].kind = "whole"
    BY <2>1 DEF Texts
  <2>3. ParseFloat(e[name]) = e[name].n /\ ToNumber(e[name]) = e[name].n
    BY <2>2 DEF ParseFloat, ToNumber
  <2> QED
    BY <1>1, <1>2, <1>4, <2>1, <2>2, <2>3 DEF FloatOr
<1> QED
  BY <1>3, <1>4

\* What the limiter reads of a text is positive exactly if the text is a positive
\* numeral.
LEMMA PositiveNumerals ==
    ASSUME NEW text \in Texts
    PROVE  ToNumber(text) \in Nat \ {0} <=> Positive(text)
<1>1. text.n \in Int /\ NaN \notin Int
  BY NumberAssumption DEF Texts
<1>2. CASE text.kind = "whole"
  BY <1>1, <1>2 DEF ToNumber, Positive
<1>3. CASE text.kind = "scaled"
  BY <1>1, <1>3 DEF ToNumber, Positive
<1>4. CASE text.kind \in {"empty", "blank"}
  BY <1>1, <1>4 DEF ToNumber, Positive
<1>5. CASE text.kind \in {"prefixed", "word", "garbage"}
  BY <1>1, <1>5 DEF ToNumber, Positive
<1> QED
  BY <1>2, <1>3, <1>4, <1>5 DEF Texts

\* The limiter has positive settings exactly if each of its texts that is given
\* is a positive numeral.
LEMMA LimiterWorksOn ==
    ASSUME NEW e \in Environments
    PROVE  LimiterWorks(Limiter(e)) <=>
               \A name \in LimiterTexts \cap DOMAIN e : Positive(e[name])
<1> DEFINE Read(name, default) == IF name \in DOMAIN e THEN ToNumber(e[name]) ELSE default
<1>1. /\ Limiter(e).capacity = Read("RATE_LIMIT_CAPACITY", 20)
      /\ Limiter(e).refillRate = Read("RATE_LIMIT_REFILL_RATE", 10)
      /\ Limiter(e).cleanupIntervalMs = Read("RATE_LIMIT_CLEANUP_INTERVAL_MS", 60000)
  BY DEF Limiter
<1>2. \A name \in DOMAIN e : ToNumber(e[name]) \in Nat \ {0} <=> Positive(e[name])
  BY PositiveNumerals, LifecycleAssumption
<1>3. /\ Read("RATE_LIMIT_CAPACITY", 20) \in Nat \ {0} <=>
            ("RATE_LIMIT_CAPACITY" \in DOMAIN e => Positive(e["RATE_LIMIT_CAPACITY"]))
      /\ Read("RATE_LIMIT_REFILL_RATE", 10) \in Nat \ {0} <=>
            ("RATE_LIMIT_REFILL_RATE" \in DOMAIN e => Positive(e["RATE_LIMIT_REFILL_RATE"]))
      /\ Read("RATE_LIMIT_CLEANUP_INTERVAL_MS", 60000) \in Nat \ {0} <=>
            ("RATE_LIMIT_CLEANUP_INTERVAL_MS" \in DOMAIN e =>
                Positive(e["RATE_LIMIT_CLEANUP_INTERVAL_MS"]))
  BY <1>2
<1> HIDE DEF Read
<1>4. LimiterWorks(Limiter(e)) <=>
         /\ Limiter(e).capacity \in Nat \ {0}
         /\ Limiter(e).refillRate \in Nat \ {0}
         /\ Limiter(e).cleanupIntervalMs \in Nat \ {0}
  BY DEF LimiterWorks
<1>5. (\A name \in LimiterTexts \cap DOMAIN e : Positive(e[name])) <=>
         /\ "RATE_LIMIT_CAPACITY" \in DOMAIN e => Positive(e["RATE_LIMIT_CAPACITY"])
         /\ "RATE_LIMIT_REFILL_RATE" \in DOMAIN e => Positive(e["RATE_LIMIT_REFILL_RATE"])
         /\ "RATE_LIMIT_CLEANUP_INTERVAL_MS" \in DOMAIN e =>
               Positive(e["RATE_LIMIT_CLEANUP_INTERVAL_MS"])
  BY DEF LimiterTexts
<1> QED
  BY <1>1, <1>3, <1>4, <1>5

\* An environment loadEnv accepts is one that every constructor accepts, that
\* gives every integral setting a positive value but for the three that may be 0,
\* and whose services are where the simulators listen; the rate limiter's own
\* reading agrees with it on whole numbers, and is positive exactly if each of its
\* texts that is given is a positive numeral: loadEnv of env.ts, the composition
\* root of server.ts and the factory of rateLimiter.service.ts.  It is so
\* whatever the environment.
THEOREM AcceptedConfigFitsHolds == LCSpec => []AcceptedConfigFits
<1>1. LCInv => AcceptedConfigFits
  <2> SUFFICES ASSUME LCInv, supervisor = "starting", ~Refused(environment)
               PROVE  AcceptedConfigFits
    BY DEF AcceptedConfigFits
  <2> DEFINE config == Loaded(environment)
             limiter == Limiter(environment)
  <2>1. environment \in Environments
    BY DEF LCInv
  <2>2. ~CompositionThrows(environment)
    BY ConstructorsAgree, TopologyIsSound DEF CompositionThrows
  <2>3. \A name \in DOMAIN Integral \ {"RETRY_BASE_DELAY_MS", "RETRY_MAX_DELAY_MS",
                                       "INCIDENT_RECOVERY_QUIET_MS"} :
           config[name] \in Nat \ {0}
    <3>1. \A name \in DOMAIN Integral \ MayBeZero :
             /\ config[name] \in Nat /\ Integral[name].min <= config[name]
             /\ Integral[name].min \in Nat /\ Integral[name].min > 0
      BY AcceptedIsInRange, RangesAreRanges
    <3> HIDE DEF config
    <3> QED
      BY <3>1 DEF MayBeZero
  <2>4. Raw(environment, "RATE_LIMIT_CAPACITY").kind \in {"unset", "whole"} =>
           limiter.capacity = config.RATE_LIMIT_CAPACITY
    <3>1. "RATE_LIMIT_CAPACITY" \in DOMAIN Integral
          /\ Integral["RATE_LIMIT_CAPACITY"].fallback = 20
      BY DEF Integral, Range
    <3>2. limiter.capacity = IF "RATE_LIMIT_CAPACITY" \in DOMAIN environment
                             THEN ToNumber(environment["RATE_LIMIT_CAPACITY"]) ELSE 20
      BY DEF Limiter
    <3> HIDE DEF limiter, config
    <3> QED
      BY <2>1, <3>1, <3>2, LimiterAgrees DEF config
  <2>5. Raw(environment, "RATE_LIMIT_CLEANUP_INTERVAL_MS").kind \in {"unset", "whole"} =>
           limiter.cleanupIntervalMs = config.RATE_LIMIT_CLEANUP_INTERVAL_MS
    <3>1. "RATE_LIMIT_CLEANUP_INTERVAL_MS" \in DOMAIN Integral
          /\ Integral["RATE_LIMIT_CLEANUP_INTERVAL_MS"].fallback = 60000
      BY DEF Integral, Range
    <3>2. limiter.cleanupIntervalMs =
             IF "RATE_LIMIT_CLEANUP_INTERVAL_MS" \in DOMAIN environment
             THEN ToNumber(environment["RATE_LIMIT_CLEANUP_INTERVAL_MS"]) ELSE 60000
      BY DEF Limiter
    <3> HIDE DEF limiter, config
    <3> QED
      BY <2>1, <3>1, <3>2, LimiterAgrees DEF config
  <2>6. Raw(environment, "RATE_LIMIT_REFILL_RATE").kind \in {"unset", "whole"} =>
           limiter.refillRate = config.RATE_LIMIT_REFILL_RATE
    BY <2>1, RateAgrees
  <2>7. LimiterWorks(limiter) <=>
           \A name \in LimiterTexts \cap DOMAIN environment : Positive(environment[name])
    BY <2>1, LimiterWorksOn
  <2> HIDE DEF config, limiter
  <2> QED
    BY <2>2, <2>3, <2>4, <2>5, <2>6, <2>7, TopologyIsSound
       DEF AcceptedConfigFits, config, limiter
<1> QED
  BY <1>1, LCInvHolds, PTL
===============================================================================
