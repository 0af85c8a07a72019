---------------------------- MODULE UpstreamProofs ----------------------------
(***************************************************************************)
(* Theorems about Upstream for every policy, timeout, budget, latency and  *)
(* set of calls and bodies: a call ends in time, the simulator's           *)
(* statistics account for every request, and an answer is that of the      *)
(* configuration its request arrived under.                                *)
(***************************************************************************)
EXTENDS Upstream, FiniteSetTheorems, TLAPS

Outcome == [kind : {"none", "success", "upstream-error", "timeout", "unreachable"},
            status : Nat]

\* The retry loop of a call.
Loop == [phase : {"idle", "waiting", "backoff", "done"}, attempt : Nat,
         elapsed : Nat, left : Nat, outcome : Outcome]

\* What is left of a call's time.
InTime(k) ==
  /\ k.phase = "idle" => k.attempt = 0 /\ k.elapsed = 0
  /\ k.phase # "idle" => k.attempt >= 1
  /\ k.phase = "waiting" =>
       IF k.attempt = 1 THEN k.elapsed + k.left = UpstreamTimeout
       ELSE k.elapsed + k.left < TotalBudget + MaxDelay + UpstreamTimeout
  /\ k.phase = "backoff" => k.elapsed + k.left < TotalBudget + MaxDelay
  /\ k.phase = "done" =>
       IF k.attempt = 1 THEN k.elapsed <= UpstreamTimeout
       ELSE k.elapsed < TotalBudget + MaxDelay + UpstreamTimeout

\* Powers of two are natural numbers: they count the subsets of an interval.
LEMMA PowerIsNat ==
  ASSUME NEW n \in Nat
  PROVE  2 ^ n \in Nat
<1>1. IsFiniteSet(1..n) /\ Cardinality(1..n) = n
  BY FS_Interval
<1>2. IsFiniteSet(SUBSET (1..n)) /\ Cardinality(SUBSET (1..n)) = 2 ^ n
  BY <1>1, FS_SUBSET
<1> QED
  BY <1>2, FS_CardinalityType

\* A backoff is never longer than the longest delay.
LEMMA BackoffIsBounded ==
  ASSUME NEW n \in Nat, n >= 1
  PROVE  Backoff(n) \subseteq 0..MaxDelay
<1>1. n - 1 \in Nat
  OBVIOUS
<1>2. 2 ^ (n - 1) \in Nat
  BY <1>1, PowerIsNat
<1>3. \A p \in Nat : BaseDelay * p \in Nat
  BY UpstreamAssumption
<1>4. Capped(n) \in Nat /\ Capped(n) <= MaxDelay
  BY <1>2, <1>3, UpstreamAssumption DEF Capped
<1>5. (Capped(n) + 1) \div 2 \in Nat
  BY <1>4
<1> QED
  BY <1>4, <1>5, UpstreamAssumption DEF Backoff

\* An attempt starts with a whole timeout.
LEMMA AttemptingInTime ==
  ASSUME NEW k \in Loop, InTime(k), MayAttempt(k)
  PROVE  /\ Attempting(k) \in Loop
         /\ InTime(Attempting(k))
         /\ Attempting(k).phase = "waiting"
         /\ Attempting(k).attempt = k.attempt + 1
<1> DEFINE a == Attempting(k)
<1>1. k.attempt \in Nat /\ k.elapsed \in Nat /\ k.left \in Nat
  BY DEF Loop
<1>2. k.attempt + 1 \in Nat /\ UpstreamTimeout \in Nat
  BY <1>1, UpstreamAssumption
<1>3. /\ a \in Loop
      /\ a.phase = "waiting" /\ a.attempt = k.attempt + 1
      /\ a.elapsed = k.elapsed /\ a.left = UpstreamTimeout
  BY <1>2 DEF Loop, Attempting
<1> HIDE DEF a
<1>4. IF a.attempt = 1 THEN k.phase = "idle" ELSE k.phase = "backoff" /\ k.left = 0
  BY <1>1, <1>3 DEF InTime, MayAttempt
<1>5. InTime(a)
  BY <1>1, <1>3, <1>4, UpstreamAssumption DEF InTime
<1> QED
  BY <1>3, <1>5 DEF a

\* An attempt that is over leaves a call that is done or within its time.
LEMMA ConcludedInTime ==
  ASSUME NEW k \in Loop, InTime(k), k.phase = "waiting", NEW outcome \in Outcome,
         NEW d \in Concluded(k, outcome)
  PROVE  /\ d \in Loop /\ InTime(d)
         /\ d.phase \in {"backoff", "done"} /\ d.attempt = k.attempt
<1>1. k.attempt \in Nat /\ k.attempt >= 1 /\ k.elapsed \in Nat /\ k.left \in Nat
  BY DEF Loop, InTime
<1>2. CASE WillRetry(k, outcome)
  <2>1. PICK b \in Backoff(k.attempt) :
          d = [k EXCEPT !.phase = "backoff", !.left = b, !.outcome = outcome]
    BY <1>2 DEF Concluded
  <2>2. b \in Nat /\ b <= MaxDelay
    BY <1>1, <2>1, BackoffIsBounded, UpstreamAssumption
  <2>3. k.elapsed < TotalBudget
    BY <1>2 DEF WillRetry
  <2>4. /\ d \in Loop
        /\ d.phase = "backoff" /\ d.attempt = k.attempt
        /\ d.elapsed = k.elapsed /\ d.left = b
    BY <2>1, <2>2 DEF Loop
  <2>5. InTime(d)
    BY <1>1, <2>2, <2>3, <2>4, UpstreamAssumption DEF InTime
  <2> QED
    BY <2>4, <2>5
<1>3. CASE ~WillRetry(k, outcome)
  <2>1. d = [k EXCEPT !.phase = "done", !.left = 0, !.outcome = outcome]
    BY <1>3 DEF Concluded
  <2>2. /\ d \in Loop
        /\ d.phase = "done" /\ d.attempt = k.attempt /\ d.elapsed = k.elapsed
    BY <2>1 DEF Loop
  <2>3. InTime(d)
    BY <1>1, <2>2, UpstreamAssumption DEF InTime
  <2> QED
    BY <2>2, <2>3
<1> QED
  BY <1>2, <1>3

-----------------------------------------------------------------------------
(* The simulator's data.                                                    *)

\* A configuration, as far as requests depend on it.
Settled(cfg) ==
  /\ {"online", "latencyMs"} \subseteq DOMAIN cfg
  /\ cfg.online \in BOOLEAN /\ cfg.latencyMs \in Nat
  /\ "failureStatus" \in DOMAIN cfg => cfg.failureStatus \in Nat

\* The configuration of a fresh or reset simulator names no failure status.
LEMMA InitialIsSettled ==
  Settled(InitialConfig) /\ "failureStatus" \notin DOMAIN InitialConfig
  BY SimulatorAssumption DEF InitialConfig, Settled

\* A valid patch makes a configuration of a configuration.
LEMMA PatchedIsSettled ==
  ASSUME Settled(config), NEW patch, ValidPatch(patch)
  PROVE  Settled(Patched(patch))
<1>1. /\ "online" \in DOMAIN patch => patch["online"] \in BOOLEAN
      /\ "latencyMs" \in DOMAIN patch => patch["latencyMs"] \in Nat
      /\ "failureStatus" \in DOMAIN patch => patch["failureStatus"] \in Nat
  BY SimulatorAssumption DEF ValidPatch, ValidField
<1> QED
  BY <1>1 DEF Settled, Patched

\* A status is a number, whatever the kind of the answer.
LEMMA StatusIsNat ==
  ASSUME Settled(config), NEW kind
  PROVE  FailureStatus \in Nat /\ StatusOf(kind) \in Nat /\ Responded(StatusOf(kind)) \in Outcome
<1>1. FailureStatus \in Nat
  BY DEF FailureStatus, Settled
<1>2. StatusOf(kind) \in Nat
  BY <1>1 DEF StatusOf
<1> QED
  BY <1>1, <1>2 DEF Responded, Outcome

\* A request in flight.
Sleeper(s) ==
  /\ s = [ticket |-> s.ticket, config |-> s.config, left |-> s.left]
  /\ s.ticket \in Calls \X Nat
  /\ s.left \in Nat

\* What is watched of it.
Watch(w) == w = [age |-> w.age, met |-> w.met] /\ w.age \in Nat

Types ==
  /\ Settled(config)
  /\ requestsHandled \in Nat /\ simulatedFailures \in Nat
  /\ IsFiniteSet(sleeping)
  /\ \A s \in sleeping : Sleeper(s) /\ Settled(s.config)
  /\ call \in [Calls -> Loop]
  /\ \A c \in Calls : InTime(call[c])
  /\ ledger = [answered |-> ledger.answered, carried |-> ledger.carried,
               watch |-> ledger.watch, last |-> ledger.last]
  /\ ledger.answered \in Nat /\ ledger.carried \in Nat
  /\ \A t \in DOMAIN ledger.watch : Watch(ledger.watch[t])

\* The statistics add up, each request in flight is watched under its own
\* ticket, and a ticket is that of an attempt its call has begun.
Accounts ==
  /\ requestsHandled + ledger.carried = ledger.answered + Cardinality(sleeping)
  /\ simulatedFailures <= ledger.answered
  /\ {s.ticket : s \in sleeping} = DOMAIN ledger.watch
  /\ \A s, t \in sleeping : s.ticket = t.ticket => s = t
  /\ \A s \in sleeping : s.ticket[2] <= call[s.ticket[1]].attempt

\* A request has slept what it has not yet to sleep, and has met the status
\* in force.
Ages ==
  \A s \in sleeping :
    /\ s.config.online
    /\ ledger.watch[s.ticket].age + s.left = s.config.latencyMs
    /\ FailureStatus \in ledger.watch[s.ticket].met

UInv == Types /\ Accounts /\ Ages /\ AnsweredAsArrived

\* Initially nothing runs.
LEMMA InitEstablishesUInv == Init => UInv
<1> SUFFICES ASSUME Init PROVE UInv
  OBVIOUS
<1>1. /\ config = InitialConfig /\ requestsHandled = 0 /\ simulatedFailures = 0
      /\ sleeping = {} /\ call = [c \in Calls |-> Idle] /\ ledger = LedgerInit
  BY DEF Init, SimulatorInit
<1>2. IsFiniteSet(sleeping) /\ Cardinality(sleeping) = 0
  BY <1>1, FS_EmptySet
<1>3. Idle \in Loop /\ InTime(Idle)
  BY DEF Idle, Loop, Outcome, None, InTime
<1>4. /\ ledger.answered = 0 /\ ledger.carried = 0 /\ ledger.last = NoAnswer
      /\ DOMAIN ledger.watch = {}
      /\ ledger = [answered |-> ledger.answered, carried |-> ledger.carried,
                   watch |-> ledger.watch, last |-> ledger.last]
  BY <1>1 DEF LedgerInit
<1>5. Types
  BY <1>1, <1>2, <1>3, <1>4, InitialIsSettled DEF Types
<1>6. Accounts
  BY <1>1, <1>2, <1>4 DEF Accounts
<1> QED
  BY <1>1, <1>4, <1>5, <1>6 DEF UInv, Ages, AnsweredAsArrived

-----------------------------------------------------------------------------
(* The steps.                                                               *)

\* A step of one call keeps the calls in time and the tickets theirs.
LEMMA CallMoves ==
  ASSUME UInv, NEW c \in Calls, NEW k \in Loop, InTime(k), k.attempt >= call[c].attempt,
         call' = [call EXCEPT ![c] = k]
  PROVE  /\ call' \in [Calls -> Loop]
         /\ \A d \in Calls : InTime(call'[d])
         /\ \A s \in sleeping : s.ticket[2] <= call'[s.ticket[1]].attempt
<1>1. \A d \in Calls : call'[d] = IF d = c THEN k ELSE call[d]
  BY DEF UInv, Types
<1>2. call' \in [Calls -> Loop] /\ \A d \in Calls : InTime(call'[d])
  BY <1>1 DEF UInv, Types
<1>3. ASSUME NEW s \in sleeping
      PROVE  s.ticket[2] <= call'[s.ticket[1]].attempt
  <2>1. s.ticket[1] \in Calls /\ s.ticket[2] \in Nat /\ s.ticket[2] <= call[s.ticket[1]].attempt
    BY DEF UInv, Types, Sleeper, Accounts
  <2>2. k.attempt \in Nat /\ call[c].attempt \in Nat
    BY DEF UInv, Types, Loop
  <2> QED
    BY <1>1, <2>1, <2>2
<1> QED
  BY <1>2, <1>3

\* Such a step that does not reach the simulator keeps the invariant.
LEMMA CallAlone ==
  ASSUME UInv, NEW c \in Calls, NEW k \in Loop, InTime(k), k.attempt >= call[c].attempt,
         call' = [call EXCEPT ![c] = k], UNCHANGED simulator, UNCHANGED ledger
  PROVE  UInv'
<1>1. /\ call' \in [Calls -> Loop]
      /\ \A d \in Calls : InTime(call'[d])
      /\ \A s \in sleeping : s.ticket[2] <= call'[s.ticket[1]].attempt
  BY CallMoves
<1>2. /\ config' = config /\ requestsHandled' = requestsHandled
      /\ simulatedFailures' = simulatedFailures /\ sleeping' = sleeping /\ ledger' = ledger
  BY DEF simulator
<1>3. FailureStatus' = FailureStatus
  BY <1>2 DEF FailureStatus
<1>4. Types' /\ Accounts'
  BY <1>1, <1>2 DEF UInv, Types, Accounts
<1>5. Ages' /\ AnsweredAsArrived'
  BY <1>2, <1>3 DEF UInv, Ages, AnsweredAsArrived
<1> QED
  BY <1>4, <1>5 DEF UInv

\* The call that an attempt makes of c, and what may become of it.
LEMMA AttemptMoves ==
  ASSUME UInv, NEW c \in Calls, MayAttempt(call[c])
  PROVE  /\ Attempting(call[c]) \in Loop /\ InTime(Attempting(call[c]))
         /\ Attempting(call[c]).attempt = call[c].attempt + 1
         /\ \A outcome \in Outcome : \A d \in Concluded(Attempting(call[c]), outcome) :
              d \in Loop /\ InTime(d) /\ d.attempt = call[c].attempt + 1
<1>1. call[c] \in Loop /\ InTime(call[c])
  BY DEF UInv, Types
<1> QED
  BY <1>1, AttemptingInTime, ConcludedInTime

\* A refused attempt is the call's affair alone.
LEMMA RefusedKeeps ==
  ASSUME UInv, NEW c \in Calls, AttemptRefused(c)
  PROVE  UInv'
<1>1. PICK k \in Concluded(Attempting(call[c]), Unreachable) :
        /\ MayAttempt(call[c])
        /\ call' = [call EXCEPT ![c] = k] /\ UNCHANGED simulator /\ UNCHANGED ledger
  BY DEF AttemptRefused
<1>2. Unreachable \in Outcome
  BY DEF Unreachable, Outcome
<1>3. k \in Loop /\ InTime(k) /\ k.attempt = call[c].attempt + 1
  BY <1>1, <1>2, AttemptMoves
<1>4. k.attempt >= call[c].attempt
  BY <1>3 DEF UInv, Types, Loop
<1> QED
  BY <1>1, <1>3, <1>4, CallAlone

\* So is one that times out: its request sleeps on.
LEMMA TimesOutKeeps ==
  ASSUME UInv, NEW c \in Calls, AttemptTimesOut(c)
  PROVE  UInv'
<1>1. PICK k \in Concluded(call[c], TimedOut) :
        /\ call[c].phase = "waiting"
        /\ call' = [call EXCEPT ![c] = k] /\ UNCHANGED simulator /\ UNCHANGED ledger
  BY DEF AttemptTimesOut
<1>2. TimedOut \in Outcome /\ call[c] \in Loop /\ InTime(call[c]) /\ call[c].attempt \in Nat
  BY DEF TimedOut, Outcome, UInv, Types, Loop
<1>3. k \in Loop /\ InTime(k) /\ k.attempt >= call[c].attempt
  BY <1>1, <1>2, ConcludedInTime
<1> QED
  BY <1>1, <1>2, <1>3, CallAlone

\* The ledger after an answer.
LEMMA AnsweredFields ==
  ASSUME UInv, NEW cfg, NEW watched, NEW kind
  PROVE  Answered(cfg, watched, kind) =
           [answered |-> ledger.answered + 1, carried |-> ledger.carried,
            watch |-> ledger.watch,
            last |-> [kind |-> kind, status |-> StatusOf(kind), arrivedUnder |-> cfg,
                      slept |-> watched.age, met |-> watched.met]]
<1> DEFINE a == [kind |-> kind, status |-> StatusOf(kind), arrivedUnder |-> cfg,
                 slept |-> watched.age, met |-> watched.met]
<1>1. Answered(cfg, watched, kind) =
        [ledger EXCEPT !.answered = ledger.answered + 1, !.last = a]
  BY DEF Answered
<1> HIDE DEF a
<1>2. [ledger EXCEPT !.answered = ledger.answered + 1, !.last = a] =
        [answered |-> ledger.answered + 1, carried |-> ledger.carried,
         watch |-> ledger.watch, last |-> a]
  <2> DEFINE n == ledger.answered + 1
             m == [ledger EXCEPT !.answered = n]
  <2>1. m = [answered |-> n, carried |-> ledger.carried, watch |-> ledger.watch,
             last |-> ledger.last]
    BY DEF UInv, Types
  <2>2. [ledger EXCEPT !.answered = n, !.last = a] = [m EXCEPT !.last = a]
    OBVIOUS
  <2> HIDE DEF m, n
  <2>3. [m EXCEPT !.last = a] = [answered |-> n, carried |-> ledger.carried,
                                 watch |-> ledger.watch, last |-> a]
    BY <2>1
  <2> QED
    BY <2>2, <2>3 DEF n
<1> QED
  BY <1>1, <1>2 DEF a

\* An answer in the turn of the arrival: the request never sleeps, and the
\* configuration it arrived under is that of the moment.
LEMMA AnsweredAtOnceKeeps ==
  ASSUME UInv, NEW c \in Calls, AttemptAnswered(c)
  PROVE  UInv'
<1>1. PICK kind \in Verdicts(config) :
        /\ MayAttempt(call[c])
        /\ HandleAtOnce(kind)
        /\ \E k \in Concluded(Attempting(call[c]), Responded(StatusOf(kind))) :
             call' = [call EXCEPT ![c] = k]
        /\ ledger' = Answered(config, Watched, kind)
  BY DEF AttemptAnswered
<1>2. PICK k \in Concluded(Attempting(call[c]), Responded(StatusOf(kind))) :
        call' = [call EXCEPT ![c] = k]
  BY <1>1
<1>3. Settled(config) /\ Responded(StatusOf(kind)) \in Outcome /\ call[c].attempt \in Nat
  BY StatusIsNat DEF UInv, Types, Loop
<1>4. k \in Loop /\ InTime(k) /\ k.attempt >= call[c].attempt
  BY <1>1, <1>2, <1>3, AttemptMoves
<1>5. /\ call' \in [Calls -> Loop]
      /\ \A d \in Calls : InTime(call'[d])
      /\ \A s \in sleeping : s.ticket[2] <= call'[s.ticket[1]].attempt
  BY <1>2, <1>4, CallMoves
<1>6. /\ config' = config /\ sleeping' = sleeping
      /\ requestsHandled' = requestsHandled + 1
      /\ simulatedFailures' \in {simulatedFailures, simulatedFailures + 1}
      /\ AnswersAtOnce(config)
  BY <1>1 DEF HandleAtOnce, CountFailure, UInv, Types
<1> DEFINE a == [kind |-> kind, status |-> StatusOf(kind), arrivedUnder |-> config,
                 slept |-> Watched.age, met |-> Watched.met]
<1>7. ledger' = [answered |-> ledger.answered + 1, carried |-> ledger.carried,
                 watch |-> ledger.watch, last |-> a]
  BY <1>1, AnsweredFields
<1>8. /\ a.kind = kind /\ a.status = StatusOf(kind) /\ a.arrivedUnder = config
      /\ a.slept = 0 /\ a.met = {FailureStatus}
  BY DEF Watched
<1> HIDE DEF a
<1>9. /\ ledger'.answered = ledger.answered + 1 /\ ledger'.carried = ledger.carried
      /\ ledger'.watch = ledger.watch /\ ledger'.last = a
      /\ ledger' = [answered |-> ledger'.answered, carried |-> ledger'.carried,
                    watch |-> ledger'.watch, last |-> ledger'.last]
  BY <1>7
<1>10. Types'
  BY <1>5, <1>6, <1>9 DEF UInv, Types
<1>11. Accounts'
  <2>1. Cardinality(sleeping) \in Nat
    BY FS_CardinalityType DEF UInv, Types
  <2> QED
    BY <1>5, <1>6, <1>9, <2>1 DEF UInv, Types, Accounts
<1>12. Ages'
  BY <1>6, <1>9 DEF UInv, Ages, FailureStatus
<1>13. AnsweredAsArrived'
  <2>1. a.slept = IF config.online THEN config.latencyMs ELSE 0
    BY <1>6, <1>8 DEF AnswersAtOnce
  <2>2. a.kind = "error" => a.status \in a.met
    BY <1>8 DEF StatusOf
  <2>3. a.kind \in Verdicts(a.arrivedUnder)
    BY <1>8
  <2> QED
    BY <1>8, <1>9, <2>1, <2>2, <2>3 DEF AnsweredAsArrived, Verdicts
<1> QED
  BY <1>10, <1>11, <1>12, <1>13 DEF UInv

\* A request that falls asleep is new: its ticket was never used before.
LEMMA SleepsKeeps ==
  ASSUME UInv, NEW c \in Calls, AttemptSleeps(c)
  PROVE  UInv'
<1> DEFINE k == Attempting(call[c])
           t == <<c, k.attempt>>
           n == [ticket |-> t, config |-> config, left |-> config.latencyMs]
<1>1. /\ MayAttempt(call[c])
      /\ FallAsleep(t)
      /\ call' = [call EXCEPT ![c] = k]
      /\ ledger' = [ledger EXCEPT !.watch = Extended(ledger.watch, t, Watched)]
  BY DEF AttemptSleeps
<1>2. /\ k \in Loop /\ InTime(k) /\ k.attempt = call[c].attempt + 1
      /\ call[c].attempt \in Nat /\ k.attempt >= call[c].attempt
  BY <1>1, AttemptMoves DEF UInv, Types, Loop
<1> HIDE DEF k
<1>3. /\ call' \in [Calls -> Loop]
      /\ \A d \in Calls : InTime(call'[d])
      /\ \A s \in sleeping : s.ticket[2] <= call'[s.ticket[1]].attempt
  BY <1>1, <1>2, CallMoves
<1>4. /\ ~AnswersAtOnce(config) /\ config' = config
      /\ requestsHandled' = requestsHandled + 1 /\ simulatedFailures' = simulatedFailures
      /\ sleeping' = sleeping \cup {n}
  BY <1>1 DEF FallAsleep
<1>5. t \in Calls \X Nat /\ t[1] = c /\ t[2] = k.attempt
  BY <1>2
<1> HIDE DEF t
<1>6. /\ n.ticket = t /\ n.config = config /\ n.left = config.latencyMs
      /\ Sleeper(n) /\ Settled(n.config)
  BY <1>5 DEF UInv, Types, Sleeper, Settled
<1> HIDE DEF n
<1>7. \A s \in sleeping : s.ticket # t
  <2> SUFFICES ASSUME NEW s \in sleeping, s.ticket = t PROVE FALSE
    OBVIOUS
  <2>1. s.ticket[2] <= call[s.ticket[1]].attempt
    BY DEF UInv, Accounts
  <2> QED
    BY <1>2, <1>5, <2>1
<1>8. /\ ledger'.answered = ledger.answered /\ ledger'.carried = ledger.carried
      /\ ledger'.watch = Extended(ledger.watch, t, Watched) /\ ledger'.last = ledger.last
      /\ ledger' = [answered |-> ledger'.answered, carried |-> ledger'.carried,
                    watch |-> ledger'.watch, last |-> ledger'.last]
  BY <1>1 DEF UInv, Types
<1>9. /\ DOMAIN ledger'.watch = DOMAIN ledger.watch \cup {t}
      /\ \A x \in DOMAIN ledger'.watch :
           ledger'.watch[x] = IF x = t THEN Watched ELSE ledger.watch[x]
  BY <1>8 DEF Extended
<1>10. Watch(Watched) /\ Watched.age = 0 /\ Watched.met = {FailureStatus}
  BY DEF Watch, Watched
<1>11. IsFiniteSet(sleeping') /\ Cardinality(sleeping') = Cardinality(sleeping) + 1
       /\ Cardinality(sleeping) \in Nat
  BY <1>4, <1>6, <1>7, FS_AddElement, FS_CardinalityType DEF UInv, Types
<1>12. Types'
  BY <1>3, <1>4, <1>6, <1>8, <1>9, <1>10, <1>11 DEF UInv, Types
<1>13. Accounts'
  <2>1. requestsHandled' + ledger'.carried = ledger'.answered + Cardinality(sleeping')
        /\ simulatedFailures' <= ledger'.answered
    BY <1>4, <1>8, <1>11 DEF UInv, Types, Accounts
  <2>2. {s.ticket : s \in sleeping'} = DOMAIN ledger'.watch
    BY <1>4, <1>6, <1>9 DEF UInv, Accounts
  <2>3. \A s, u \in sleeping' : s.ticket = u.ticket => s = u
    BY <1>4, <1>6, <1>7 DEF UInv, Accounts
  <2>4. n.ticket[2] <= call'[n.ticket[1]].attempt
    BY <1>1, <1>2, <1>5, <1>6 DEF UInv, Types
  <2>5. \A s \in sleeping' : s.ticket[2] <= call'[s.ticket[1]].attempt
    BY <1>3, <1>4, <2>4
  <2> QED
    BY <2>1, <2>2, <2>3, <2>5 DEF Accounts
<1>14. Ages'
  <2> SUFFICES ASSUME NEW s \in sleeping'
               PROVE  /\ s.config.online
                      /\ ledger'.watch[s.ticket].age + s.left = s.config.latencyMs
                      /\ FailureStatus' \in ledger'.watch[s.ticket].met
    BY DEF Ages
  <2>1. FailureStatus' = FailureStatus
    BY <1>4 DEF FailureStatus
  <2>2. CASE s = n
    <3>1. ledger'.watch[t] = Watched
      BY <1>9
    <3>2. config.online /\ config.latencyMs \in Nat
      BY <1>4 DEF AnswersAtOnce, UInv, Types, Settled
    <3> QED
      BY <1>6, <1>10, <2>1, <2>2, <3>1, <3>2
  <2>3. CASE s \in sleeping
    <3>1. s.ticket \in DOMAIN ledger.watch /\ s.ticket # t
      BY <1>7, <2>3 DEF UInv, Accounts
    <3>2. ledger'.watch[s.ticket] = ledger.watch[s.ticket]
      BY <1>9, <3>1
    <3> QED
      BY <2>1, <2>3, <3>2 DEF UInv, Ages
  <2> QED
    BY <1>4, <2>2, <2>3
<1>15. AnsweredAsArrived'
  BY <1>8 DEF UInv, AnsweredAsArrived
<1> QED
  BY <1>12, <1>13, <1>14, <1>15 DEF UInv

\* The answer of a request that slept: with the luck and the latency of the
\* configuration it arrived under.
LEMMA AnswerKeeps ==
  ASSUME UInv, NEW s \in sleeping, Answer(s)
  PROVE  UInv'
<1> DEFINE c == s.ticket[1]
           awaited == call[c].phase = "waiting" /\ call[c].attempt = s.ticket[2]
           w == ledger.watch[s.ticket]
<1>1. PICK kind \in {"success", "error", "offline"} :
        /\ WakeUp(s, kind)
        /\ \E k \in IF awaited THEN Concluded(call[c], Responded(StatusOf(kind)))
                               ELSE {call[c]} : call' = [call EXCEPT ![c] = k]
        /\ ledger' = [Answered(s.config, w, kind)
                        EXCEPT !.watch = Forget(ledger.watch, s.ticket)]
  <2>1. \A kind : Answered(s.config, w, kind).watch = ledger.watch
    BY AnsweredFields
  <2> QED
    BY <2>1 DEF Answer
<1>2. PICK k \in IF awaited THEN Concluded(call[c], Responded(StatusOf(kind))) ELSE {call[c]} :
        call' = [call EXCEPT ![c] = k]
  BY <1>1
<1>3. Sleeper(s) /\ Settled(s.config) /\ c \in Calls /\ s.ticket[2] \in Nat
  BY DEF UInv, Types, Sleeper
<1>4. /\ call[c] \in Loop /\ InTime(call[c]) /\ call[c].attempt \in Nat
      /\ Responded(StatusOf(kind)) \in Outcome
  BY <1>3, StatusIsNat DEF UInv, Types, Loop
<1>5. k \in Loop /\ InTime(k) /\ k.attempt >= call[c].attempt
  BY <1>2, <1>4, ConcludedInTime
<1> HIDE DEF c
<1>6. /\ call' \in [Calls -> Loop]
      /\ \A d \in Calls : InTime(call'[d])
      /\ \A z \in sleeping : z.ticket[2] <= call'[z.ticket[1]].attempt
  BY <1>2, <1>3, <1>5, CallMoves
<1>7. /\ s.left = 0 /\ kind \in Verdicts(s.config)
      /\ config' = config /\ requestsHandled' = requestsHandled
      /\ sleeping' = sleeping \ {s}
      /\ simulatedFailures' \in {simulatedFailures, simulatedFailures + 1}
  BY <1>1 DEF WakeUp, CountFailure, UInv, Types
<1>8. s.ticket \in DOMAIN ledger.watch /\ Watch(w)
  BY DEF UInv, Types, Accounts
<1>9. s.config.online /\ w.age + s.left = s.config.latencyMs /\ FailureStatus \in w.met
  BY DEF UInv, Ages
<1> HIDE DEF w
<1> DEFINE a == [kind |-> kind, status |-> StatusOf(kind), arrivedUnder |-> s.config,
                 slept |-> w.age, met |-> w.met]
<1>10. Answered(s.config, w, kind) =
         [answered |-> ledger.answered + 1, carried |-> ledger.carried,
          watch |-> ledger.watch, last |-> a]
  BY AnsweredFields
<1>11. /\ a.kind = kind /\ a.status = StatusOf(kind) /\ a.arrivedUnder = s.config
       /\ a.slept = w.age /\ a.met = w.met
  OBVIOUS
<1> HIDE DEF a
<1>12. /\ ledger'.answered = ledger.answered + 1 /\ ledger'.carried = ledger.carried
       /\ ledger'.watch = Forget(ledger.watch, s.ticket) /\ ledger'.last = a
       /\ ledger' = [answered |-> ledger'.answered, carried |-> ledger'.carried,
                     watch |-> ledger'.watch, last |-> ledger'.last]
  BY <1>1, <1>10
<1>13. /\ DOMAIN ledger'.watch = DOMAIN ledger.watch \ {s.ticket}
       /\ \A x \in DOMAIN ledger'.watch : ledger'.watch[x] = ledger.watch[x]
  BY <1>12 DEF Forget
<1>14. IsFiniteSet(sleeping') /\ Cardinality(sleeping') = Cardinality(sleeping) - 1
       /\ Cardinality(sleeping) \in Nat
  BY <1>7, FS_RemoveElement, FS_CardinalityType DEF UInv, Types
<1>15. \A z \in sleeping' : z \in sleeping /\ z.ticket # s.ticket
  BY <1>7 DEF UInv, Accounts
<1>16. Types'
  BY <1>6, <1>7, <1>12, <1>13, <1>14 DEF UInv, Types
<1>17. Accounts'
  <2>1. requestsHandled' + ledger'.carried = ledger'.answered + Cardinality(sleeping')
        /\ simulatedFailures' <= ledger'.answered
    BY <1>7, <1>12, <1>14 DEF UInv, Types, Accounts
  <2>2. {z.ticket : z \in sleeping'} = DOMAIN ledger'.watch
    BY <1>7, <1>13, <1>15 DEF UInv, Accounts
  <2>3. \A z, u \in sleeping' : z.ticket = u.ticket => z = u
    BY <1>15 DEF UInv, Accounts
  <2> QED
    BY <1>6, <1>15, <2>1, <2>2, <2>3 DEF Accounts
<1>18. Ages'
  <2> SUFFICES ASSUME NEW z \in sleeping'
               PROVE  /\ z.config.online
                      /\ ledger'.watch[z.ticket].age + z.left = z.config.latencyMs
                      /\ FailureStatus' \in ledger'.watch[z.ticket].met
    BY DEF Ages
  <2>1. FailureStatus' = FailureStatus
    BY <1>7 DEF FailureStatus
  <2>2. z \in sleeping /\ z.ticket \in DOMAIN ledger'.watch
    BY <1>13, <1>15 DEF UInv, Accounts
  <2>3. ledger'.watch[z.ticket] = ledger.watch[z.ticket]
    BY <1>13, <2>2
  <2> QED
    BY <2>1, <2>2, <2>3 DEF UInv, Ages
<1>19. AnsweredAsArrived'
  <2>1. w.age = s.config.latencyMs
    BY <1>7, <1>8, <1>9 DEF Watch
  <2>2. a.slept = IF s.config.online THEN s.config.latencyMs ELSE 0
    BY <1>9, <1>11, <2>1
  <2>3. a.kind = "error" => a.status \in a.met
    BY <1>9, <1>11 DEF StatusOf
  <2> QED
    BY <1>7, <1>11, <1>12, <2>2, <2>3 DEF AnsweredAsArrived, Verdicts
<1> QED
  BY <1>16, <1>17, <1>18, <1>19 DEF UInv

\* What is watched of a request, field by field.
LEMMA WatchOf ==
  ASSUME NEW age \in Nat, NEW met, NEW w, w = [age |-> age, met |-> met]
  PROVE  Watch(w) /\ w.age = age /\ w.met = met
  BY DEF Watch

\* An operator's patch adds the new status to what the requests in flight meet.
LEMMA MeetsFields ==
  ASSUME UInv, NEW status
  PROVE  /\ DOMAIN Meets(status) = DOMAIN ledger.watch
         /\ \A t \in DOMAIN ledger.watch :
              /\ Watch(Meets(status)[t])
              /\ Meets(status)[t].age = ledger.watch[t].age
              /\ Meets(status)[t].met = ledger.watch[t].met \cup {status}
<1>1. ASSUME NEW w, Watch(w)
      PROVE  [w EXCEPT !.met = w.met \cup {status}] =
               [age |-> w.age, met |-> w.met \cup {status}]
  BY <1>1 DEF Watch
<1>2. ASSUME NEW t \in DOMAIN ledger.watch
      PROVE  /\ Watch(ledger.watch[t])
             /\ Meets(status)[t] = [age |-> ledger.watch[t].age,
                                    met |-> ledger.watch[t].met \cup {status}]
  <2>1. Watch(ledger.watch[t])
    BY DEF UInv, Types
  <2>2. Meets(status)[t] = [ledger.watch[t] EXCEPT !.met = ledger.watch[t].met \cup {status}]
    BY DEF Meets
  <2> QED
    BY <1>1, <2>1, <2>2
<1>3. DOMAIN Meets(status) = DOMAIN ledger.watch
  BY DEF Meets
<1>4. ASSUME NEW t \in DOMAIN ledger.watch
      PROVE  /\ Watch(Meets(status)[t])
             /\ Meets(status)[t].age = ledger.watch[t].age
             /\ Meets(status)[t].met = ledger.watch[t].met \cup {status}
  <2> DEFINE u == ledger.watch[t].met \cup {status}
  <2>1. ledger.watch[t].age \in Nat
    BY <1>2 DEF Watch
  <2>2. Meets(status)[t] = [age |-> ledger.watch[t].age, met |-> u]
    BY <1>2
  <2> HIDE DEF u
  <2>3. /\ Watch(Meets(status)[t])
        /\ Meets(status)[t].age = ledger.watch[t].age /\ Meets(status)[t].met = u
    BY <2>1, <2>2, WatchOf
  <2> QED
    BY <2>3 DEF u
<1> QED
  BY <1>3, <1>4

\* A tick makes what is watched older, and changes nothing else of it.
LEMMA OlderFields ==
  ASSUME UInv
  PROVE  /\ DOMAIN Older = DOMAIN ledger.watch
         /\ \A t \in DOMAIN ledger.watch :
              /\ Watch(Older[t])
              /\ Older[t].age = ledger.watch[t].age + 1
              /\ Older[t].met = ledger.watch[t].met
              /\ ledger.watch[t].age \in Nat
<1>1. ASSUME NEW w, Watch(w)
      PROVE  [w EXCEPT !.age = w.age + 1] = [age |-> w.age + 1, met |-> w.met]
  BY <1>1 DEF Watch
<1>2. DOMAIN Older = DOMAIN ledger.watch
  BY DEF Older
<1>3. ASSUME NEW t \in DOMAIN ledger.watch
      PROVE  /\ Watch(Older[t])
             /\ Older[t].age = ledger.watch[t].age + 1
             /\ Older[t].met = ledger.watch[t].met
             /\ ledger.watch[t].age \in Nat
  <2>1. Watch(ledger.watch[t])
    BY DEF UInv, Types
  <2>2. Older[t] = [ledger.watch[t] EXCEPT !.age = ledger.watch[t].age + 1]
    BY DEF Older
  <2>3. Older[t] = [age |-> ledger.watch[t].age + 1, met |-> ledger.watch[t].met]
    BY <1>1, <2>1, <2>2
  <2>4. ledger.watch[t].age \in Nat /\ ledger.watch[t].age + 1 \in Nat
    BY <2>1 DEF Watch
  <2> QED
    BY <2>3, <2>4, WatchOf
<1> QED
  BY <1>2, <1>3

\* A patch, valid or not, keeps the invariant: a valid one makes a
\* configuration, and every request in flight meets its status.
LEMMA ConfigureKeeps ==
  ASSUME UInv, OperatorConfigures
  PROVE  UInv'
<1>1. PICK body \in Bodies : Configure(body)
  BY DEF OperatorConfigures
<1>2. /\ config' = IF ValidPatch(body) THEN Patched(body) ELSE config
      /\ requestsHandled' = requestsHandled /\ simulatedFailures' = simulatedFailures
      /\ sleeping' = sleeping /\ call' = call
      /\ ledger' = [ledger EXCEPT !.watch = Meets(FailureStatus')]
  BY <1>1 DEF OperatorConfigures, Configure
<1>3. Settled(config')
  BY <1>2, PatchedIsSettled DEF UInv, Types
<1> DEFINE m == Meets(FailureStatus')
<1>4. /\ DOMAIN m = DOMAIN ledger.watch
      /\ \A t \in DOMAIN ledger.watch :
           /\ Watch(m[t])
           /\ m[t].age = ledger.watch[t].age
           /\ FailureStatus' \in m[t].met
  BY MeetsFields
<1>5. ledger' = [ledger EXCEPT !.watch = m]
  BY <1>2
<1> HIDE DEF m
<1>6. /\ ledger'.answered = ledger.answered /\ ledger'.carried = ledger.carried
      /\ ledger'.watch = m /\ ledger'.last = ledger.last
      /\ ledger' = [answered |-> ledger'.answered, carried |-> ledger'.carried,
                    watch |-> ledger'.watch, last |-> ledger'.last]
  BY <1>5 DEF UInv, Types
<1>7. Types'
  BY <1>2, <1>3, <1>4, <1>6 DEF UInv, Types
<1>8. Accounts'
  BY <1>2, <1>4, <1>6 DEF UInv, Accounts
<1>9. Ages'
  <2> SUFFICES ASSUME NEW s \in sleeping
               PROVE  /\ s.config.online
                      /\ m[s.ticket].age + s.left = s.config.latencyMs
                      /\ FailureStatus' \in m[s.ticket].met
    BY <1>2, <1>6 DEF Ages
  <2>1. s.ticket \in DOMAIN ledger.watch
    BY DEF UInv, Accounts
  <2> QED
    BY <1>4, <2>1 DEF UInv, Ages
<1>10. AnsweredAsArrived'
  BY <1>6 DEF UInv, AnsweredAsArrived
<1> QED
  BY <1>7, <1>8, <1>9, <1>10 DEF UInv

\* A reset counts the requests in flight as carried over.
LEMMA ResetKeeps ==
  ASSUME UInv, OperatorResets
  PROVE  UInv'
<1> DEFINE m == Meets(500)
           k == Cardinality(sleeping)
<1>1. /\ config' = InitialConfig /\ requestsHandled' = 0 /\ simulatedFailures' = 0
      /\ sleeping' = sleeping /\ call' = call
      /\ ledger' = [ledger EXCEPT !.answered = 0, !.carried = k, !.watch = m]
  BY DEF OperatorResets, Reset
<1>2. Settled(config') /\ FailureStatus' = 500
  BY <1>1, InitialIsSettled DEF FailureStatus
<1>3. /\ DOMAIN m = DOMAIN ledger.watch
      /\ \A t \in DOMAIN ledger.watch :
           /\ Watch(m[t])
           /\ m[t].age = ledger.watch[t].age
           /\ 500 \in m[t].met
  BY MeetsFields
<1>4. k \in Nat
  BY FS_CardinalityType DEF UInv, Types
<1> HIDE DEF m, k
<1>5. /\ ledger'.answered = 0 /\ ledger'.carried = k
      /\ ledger'.watch = m /\ ledger'.last = ledger.last
      /\ ledger' = [answered |-> ledger'.answered, carried |-> ledger'.carried,
                    watch |-> ledger'.watch, last |-> ledger'.last]
  <2> DEFINE a == [ledger EXCEPT !.answered = 0]
             b == [a EXCEPT !.carried = k]
  <2>1. a = [answered |-> 0, carried |-> ledger.carried, watch |-> ledger.watch,
             last |-> ledger.last]
    BY DEF UInv, Types
  <2>2. ledger' = [b EXCEPT !.watch = m]
    BY <1>1
  <2> HIDE DEF a
  <2>3. b = [answered |-> 0, carried |-> k, watch |-> ledger.watch, last |-> ledger.last]
    BY <2>1
  <2> HIDE DEF b
  <2> QED
    BY <2>2, <2>3
<1>6. Types'
  BY <1>1, <1>2, <1>3, <1>4, <1>5 DEF UInv, Types
<1>7. Accounts'
  BY <1>1, <1>3, <1>4, <1>5 DEF UInv, Accounts, k
<1>8. Ages'
  <2> SUFFICES ASSUME NEW s \in sleeping
               PROVE  /\ s.config.online
                      /\ m[s.ticket].age + s.left = s.config.latencyMs
                      /\ FailureStatus' \in m[s.ticket].met
    BY <1>1, <1>5 DEF Ages
  <2>1. s.ticket \in DOMAIN ledger.watch
    BY DEF UInv, Accounts
  <2> QED
    BY <1>2, <1>3, <2>1 DEF UInv, Ages
<1>9. AnsweredAsArrived'
  BY <1>5 DEF UInv, AnsweredAsArrived
<1> QED
  BY <1>6, <1>7, <1>8, <1>9 DEF UInv

\* A request in flight, a tick later.
Aged(s) == [s EXCEPT !.left = s.left - 1]

\* A tick shortens a sleep, and changes nothing else of it.
LEMMA AgedFields ==
  ASSUME NEW s, Sleeper(s), s.left > 0
  PROVE  /\ Sleeper(Aged(s))
         /\ Aged(s).ticket = s.ticket /\ Aged(s).config = s.config
         /\ Aged(s).left = s.left - 1
<1>1. Aged(s) = [ticket |-> s.ticket, config |-> s.config, left |-> s.left - 1]
  BY DEF Sleeper, Aged
<1>2. s.left - 1 \in Nat
  BY DEF Sleeper
<1> QED
  BY <1>1, <1>2 DEF Sleeper

\* As many requests sleep after a tick as before: their tickets tell them apart.
LEMMA TickCounts ==
  ASSUME UInv, SimulatorTick
  PROVE  IsFiniteSet(sleeping') /\ Cardinality(sleeping') = Cardinality(sleeping)
<1> DEFINE f == [s \in sleeping |-> Aged(s)]
<1>1. sleeping' = {Aged(s) : s \in sleeping} /\ \A s \in sleeping : s.left > 0
  BY DEF SimulatorTick, Aged
<1>2. f \in [sleeping -> sleeping']
  BY <1>1
<1>3. \A s, u \in sleeping : f[s] = f[u] => s = u
  <2>1. \A s \in sleeping : Aged(s).ticket = s.ticket
    BY <1>1, AgedFields DEF UInv, Types
  <2> QED
    BY <2>1 DEF UInv, Accounts
<1>4. \A z \in sleeping' : \E s \in sleeping : f[s] = z
  BY <1>1
<1>5. f \in Bijection(sleeping, sleeping')
  BY <1>2, <1>3, <1>4, Zenon DEF Bijection, Injection, Surjection, IsInjective
<1>6. ExistsBijection(sleeping, sleeping')
  BY <1>5, Zenon DEF ExistsBijection
<1> QED
  BY <1>6, FS_Bijection DEF UInv, Types

\* Time passes alike for sleeps, for what is watched and for the calls.
LEMMA TickKeeps ==
  ASSUME UInv, Tick
  PROVE  UInv'
<1>1. /\ config' = config /\ requestsHandled' = requestsHandled
      /\ simulatedFailures' = simulatedFailures
      /\ sleeping' = {Aged(s) : s \in sleeping} /\ \A s \in sleeping : s.left > 0
  BY DEF Tick, SimulatorTick, Aged
<1>2. \A c \in Calls : call'[c] \in Loop /\ InTime(call'[c])
  <2> SUFFICES ASSUME NEW c \in Calls PROVE call'[c] \in Loop /\ InTime(call'[c])
    OBVIOUS
  <2>1. call[c] \in Loop /\ InTime(call[c])
    BY DEF UInv, Types
  <2>2. CASE call[c].phase \in {"waiting", "backoff"}
    <3> DEFINE k == call'[c]
    <3>1. call[c].left > 0 /\ call[c].left \in Nat /\ call[c].elapsed \in Nat
      BY <2>1, <2>2 DEF Tick, Loop
    <3>2. call[c].left - 1 \in Nat /\ call[c].elapsed + 1 \in Nat
      BY <3>1
    <3>3. k = [call[c] EXCEPT !.left = call[c].left - 1, !.elapsed = call[c].elapsed + 1]
      BY <2>2 DEF Tick
    <3>4. /\ k \in Loop
          /\ k.phase = call[c].phase /\ k.attempt = call[c].attempt
          /\ k.left = call[c].left - 1 /\ k.elapsed = call[c].elapsed + 1
      BY <2>1, <3>2, <3>3 DEF Loop
    <3> HIDE DEF k
    <3>5. k.elapsed + k.left = call[c].elapsed + call[c].left
      BY <3>1, <3>4
    <3>6. InTime(k)
      BY <2>1, <2>2, <3>4, <3>5 DEF InTime
    <3> QED
      BY <3>4, <3>6 DEF k
  <2>3. CASE call[c].phase \notin {"waiting", "backoff"}
    BY <2>1, <2>3 DEF Tick
  <2> QED
    BY <2>2, <2>3
<1>3. call' = [c \in Calls |-> call'[c]] /\ \A c \in Calls : call'[c].attempt = call[c].attempt
  <2>1. call' = [c \in Calls |-> IF call[c].phase \in {"waiting", "backoff"}
                   THEN [call[c] EXCEPT !.left = call[c].left - 1,
                                        !.elapsed = call[c].elapsed + 1] ELSE call[c]]
    BY DEF Tick
  <2>2. \A c \in Calls : call[c] \in Loop
    BY DEF UInv, Types
  <2>3. \A k \in Loop : [k EXCEPT !.left = k.left - 1, !.elapsed = k.elapsed + 1].attempt
                          = k.attempt
    BY DEF Loop
  <2> QED
    BY <2>1, <2>2, <2>3
<1>4. call' \in [Calls -> Loop]
  BY <1>2, <1>3
<1>5. IsFiniteSet(sleeping') /\ Cardinality(sleeping') = Cardinality(sleeping)
  BY TickCounts DEF Tick
<1>6. \A s \in sleeping : /\ Sleeper(Aged(s))
                          /\ Aged(s).ticket = s.ticket /\ Aged(s).config = s.config
                          /\ Aged(s).left = s.left - 1 /\ s.left \in Nat /\ s.left > 0
  BY <1>1, AgedFields DEF UInv, Types, Sleeper
<1> DEFINE m == Older
<1>7. /\ DOMAIN m = DOMAIN ledger.watch
      /\ \A t \in DOMAIN ledger.watch :
           /\ Watch(m[t])
           /\ m[t].age = ledger.watch[t].age + 1 /\ m[t].met = ledger.watch[t].met
           /\ ledger.watch[t].age \in Nat
  BY OlderFields
<1>8. ledger' = [ledger EXCEPT !.watch = m]
  BY DEF Tick
<1> HIDE DEF m
<1>9. /\ ledger'.answered = ledger.answered /\ ledger'.carried = ledger.carried
      /\ ledger'.watch = m /\ ledger'.last = ledger.last
      /\ ledger' = [answered |-> ledger'.answered, carried |-> ledger'.carried,
                    watch |-> ledger'.watch, last |-> ledger'.last]
  BY <1>8 DEF UInv, Types
<1>10. Types'
  <2>1. \A c \in Calls : InTime(call'[c])
    BY <1>2
  <2>2. \A s \in sleeping' : Sleeper(s) /\ Settled(s.config)
    BY <1>1, <1>6 DEF UInv, Types
  <2> QED
    BY <1>1, <1>4, <1>5, <1>7, <1>9, <2>1, <2>2 DEF UInv, Types
<1>11. Accounts'
  <2>1. requestsHandled' + ledger'.carried = ledger'.answered + Cardinality(sleeping')
        /\ simulatedFailures' <= ledger'.answered
    BY <1>1, <1>5, <1>9 DEF UInv, Accounts
  <2>2. {s.ticket : s \in sleeping'} = DOMAIN ledger'.watch
    BY <1>1, <1>6, <1>7, <1>9 DEF UInv, Accounts
  <2>3. \A s, u \in sleeping' : s.ticket = u.ticket => s = u
    BY <1>1, <1>6 DEF UInv, Accounts
  <2>4. \A s \in sleeping' : s.ticket[2] <= call'[s.ticket[1]].attempt
    BY <1>1, <1>3, <1>6 DEF UInv, Accounts, Types, Sleeper
  <2> QED
    BY <2>1, <2>2, <2>3, <2>4 DEF Accounts
<1>12. Ages'
  <2> SUFFICES ASSUME NEW s \in sleeping
               PROVE  /\ Aged(s).config.online
                      /\ m[Aged(s).ticket].age + Aged(s).left = Aged(s).config.latencyMs
                      /\ FailureStatus' \in m[Aged(s).ticket].met
    BY <1>1, <1>9 DEF Ages
  <2>1. s.ticket \in DOMAIN ledger.watch /\ FailureStatus' = FailureStatus
    BY <1>1 DEF UInv, Accounts, FailureStatus
  <2>2. /\ s.config.online
        /\ ledger.watch[s.ticket].age + s.left = s.config.latencyMs
        /\ FailureStatus \in ledger.watch[s.ticket].met
    BY DEF UInv, Ages
  <2> QED
    BY <1>6, <1>7, <2>1, <2>2
<1>13. AnsweredAsArrived'
  BY <1>9 DEF UInv, AnsweredAsArrived
<1> QED
  BY <1>10, <1>11, <1>12, <1>13 DEF UInv

\* Every step keeps the invariant.
LEMMA NextKeepsUInv == UInv /\ [Next]_vars => UInv'
<1> SUFFICES ASSUME UInv, [Next]_vars PROVE UInv'
  OBVIOUS
<1>1. CASE UNCHANGED vars
  <2>1. /\ config' = config /\ requestsHandled' = requestsHandled
        /\ simulatedFailures' = simulatedFailures /\ sleeping' = sleeping
        /\ call' = call /\ ledger' = ledger
    BY <1>1 DEF vars, simulator
  <2>2. FailureStatus' = FailureStatus
    BY <2>1 DEF FailureStatus
  <2>3. Types' /\ Accounts'
    BY <2>1 DEF UInv, Types, Accounts
  <2> QED
    BY <2>1, <2>2, <2>3 DEF UInv, Ages, AnsweredAsArrived
<1>2. ASSUME NEW c \in Calls, AttemptRefused(c) PROVE UInv'
  BY <1>2, RefusedKeeps
<1>3. ASSUME NEW c \in Calls, AttemptAnswered(c) PROVE UInv'
  BY <1>3, AnsweredAtOnceKeeps
<1>4. ASSUME NEW c \in Calls, AttemptSleeps(c) PROVE UInv'
  BY <1>4, SleepsKeeps
<1>5. ASSUME NEW c \in Calls, AttemptTimesOut(c) PROVE UInv'
  BY <1>5, TimesOutKeeps
<1>6. ASSUME NEW s \in sleeping, Answer(s) PROVE UInv'
  BY <1>6, AnswerKeeps
<1> QED
  BY <1>1, <1>2, <1>3, <1>4, <1>5, <1>6, ConfigureKeeps, ResetKeeps, TickKeeps DEF Next

\* The invariant holds in every reachable state.
LEMMA UInvHolds == Spec => []UInv
  BY InitEstablishesUInv, NextKeepsUInv, PTL DEF Spec

-----------------------------------------------------------------------------
(* The properties.                                                          *)

\* A call runs no longer than its budget, one backoff and one attempt, for
\* every policy: the attempt limit and the delays drop out of the bound.
THEOREM TimeBoundedHolds == Spec => []TimeBounded
<1>1. ASSUME UInv PROVE TimeBounded
  <2> SUFFICES ASSUME NEW c \in Calls, call[c].attempt > 0
               PROVE  IF call[c].attempt = 1 /\ call[c].phase # "backoff"
                      THEN call[c].elapsed <= UpstreamTimeout
                      ELSE call[c].elapsed < TotalBudget + MaxDelay + UpstreamTimeout
    BY DEF TimeBounded
  <2>1. call[c] \in Loop /\ InTime(call[c])
    BY <1>1 DEF UInv, Types
  <2> QED
    BY <2>1, UpstreamAssumption DEF InTime, Loop
<1> QED
  BY <1>1, UInvHolds, PTL

\* The simulator's statistics account for every request, for any number of
\* requests in flight, timeouts, patches and resets.
THEOREM StatisticsAddUpHolds == Spec => []StatisticsAddUp
<1>1. UInv => StatisticsAddUp
  BY DEF UInv, Accounts, StatisticsAddUp
<1> QED
  BY <1>1, UInvHolds, PTL

\* An answer has the latency and the luck of the configuration its request
\* arrived under, and a failure a status in force while it was in flight.
THEOREM AnsweredAsArrivedHolds == Spec => []AnsweredAsArrived
<1>1. UInv => AnsweredAsArrived
  BY DEF UInv
<1> QED
  BY <1>1, UInvHolds, PTL

=============================================================================
