-------------------------- MODULE RateLimiterClients --------------------------
(***************************************************************************)
(* RateLimiter with history variables that hold what a client could check: *)
(* what it was granted, for how long it has been counted, and until when   *)
(* it was told to wait.                                                    *)
(***************************************************************************)
EXTENDS RateLimiter

CONSTANTS
  MaxElapsed,     \* BOUND: ticks a client is counted for between two sweeps
  NoPromise       \* the client has not been told to wait

ASSUME ClientsAssumption == MaxElapsed \in Nat /\ NoPromise \notin Nat

VARIABLES
  granted,        \* granted[c]: parts spent on accepted requests since the last sweep
  elapsed,        \* elapsed[c]: ticks since then, from the first request on
  due             \* due[c]: ticks until the time a 429 named, or NoPromise

hvars == <<bucket, cleanupTimer, granted, elapsed, due>>

\* Buckets stay within their capacity, and what was granted, counted and
\* promised are numbers.  rateLimiter.service.ts:108-113, 140-152.
HTypeOK ==
  /\ TypeOK
  /\ granted \in [Clients -> Nat]
  /\ elapsed \in [Clients -> 0..MaxElapsed]
  /\ due \in [Clients -> Nat \cup {NoPromise}]

HInit ==
  /\ Init
  /\ granted = [c \in Clients |-> 0]
  /\ elapsed = [c \in Clients |-> 0]
  /\ due = [c \in Clients |-> NoPromise]

-----------------------------------------------------------------------------

HAccepted(c) ==
  /\ Request(c)
  /\ Allowed(BucketOf(c))
  /\ granted' = [granted EXCEPT ![c] = @ + TokenTicks]
  /\ due' = [due EXCEPT ![c] = NoPromise]
  /\ UNCHANGED elapsed

\* A 429.  A client that is told to wait twice may rely on the earlier time.
HRejected(c) ==
  LET wait == RetryAfter(BucketOf(c)) * TicksPerSecond IN
  /\ Request(c)
  /\ ~Allowed(BucketOf(c))
  /\ due' = [due EXCEPT ![c] = IF @ = NoPromise \/ wait < @ THEN wait ELSE @]
  /\ UNCHANGED <<granted, elapsed>>

HSweep ==
  LET dropped(c) == bucket'[c] = NoBucket IN
  /\ Sweep
  /\ granted' = [c \in Clients |-> IF dropped(c) THEN 0 ELSE granted[c]]
  /\ elapsed' = [c \in Clients |-> IF dropped(c) THEN 0 ELSE elapsed[c]]
  /\ UNCHANGED due

HStop == Stop /\ UNCHANGED <<granted, elapsed, due>>

HTick ==
  /\ \A c \in Clients : elapsed[c] < MaxElapsed
  /\ Tick
  /\ elapsed' = [c \in Clients |->
       IF bucket[c] = NoBucket THEN elapsed[c] ELSE elapsed[c] + 1]
  /\ due' = [c \in Clients |->
       IF due[c] = NoPromise \/ due[c] = 0 THEN due[c] ELSE due[c] - 1]
  /\ UNCHANGED granted

HNext ==
  \/ \E c \in Clients : HAccepted(c) \/ HRejected(c)
  \/ HSweep
  \/ HStop
  \/ HTick

HSpec == HInit /\ [][HNext]_hvars

-----------------------------------------------------------------------------

\* Between two sweeps no client is granted more than a full bucket and what
\* dripped into it meanwhile, in whatever rhythm it sends its requests.
\* rateLimiter.service.ts:4-11, 107-113, 139-152.
RateBounded ==
  \A c \in Clients : granted[c] <= Full + elapsed[c]

\* A client that was told to wait and has not been accepted since is accepted
\* once the time has come, however often it asked in the meantime.
\* rateLimiter.service.ts:150-151, 167-171.
RetryAfterSuffices ==
  \A c \in Clients : due[c] = 0 => Allowed(BucketOf(c))

=============================================================================
