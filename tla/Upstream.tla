------------------------------ MODULE Upstream ------------------------------
(***************************************************************************)
(* Calls of the gateway against a simulated service, in time: the retry    *)
(* loop with its per-attempt timeout, backoff and total budget on one      *)
(* side, the simulator on the other.  An attempt the gateway has given up  *)
(* goes on sleeping in the simulator.                                      *)
(***************************************************************************)
EXTENDS Simulator, Sequences

CONSTANTS
    Calls,            \* calls of proxyBusinessRequest
    UpstreamTimeout,  \* options.timeoutMs
    MaxAttempts,      \* policy.maxAttempts, the first attempt included
    BaseDelay,        \* policy.baseDelayMs
    MaxDelay,         \* policy.maxDelayMs
    TotalBudget       \* options.retryTotalBudgetMs

ASSUME UpstreamAssumption ==
    /\ UpstreamTimeout \in Nat \ {0} /\ MaxAttempts \in Nat \ {0}
    /\ BaseDelay \in Nat /\ MaxDelay \in Nat /\ TotalBudget \in Nat \ {0}

VARIABLES
    call,     \* [Calls -> the state of the retry loop]
    ledger    \* history, for the properties: see below

vars == <<simulator, call, ledger>>

None == [kind |-> "none", status |-> 0]
Responded(status) ==
    [kind |-> IF status \in 200..299 THEN "success" ELSE "upstream-error",
     status |-> status]
TimedOut == [kind |-> "timeout", status |-> 0]
Unreachable == [kind |-> "unreachable", status |-> 0]

Idle == [phase |-> "idle", attempt |-> 0, elapsed |-> 0, left |-> 0, outcome |-> None]

Retryable(outcome) ==
    \/ outcome.kind \in {"timeout", "unreachable"}
    \/ outcome.kind = "upstream-error" /\ outcome.status \in {502, 503, 504}

\* Mutant: only attempts are bounded.
WillRetryOverBudget(k, outcome) == Retryable(outcome) /\ k.attempt < MaxAttempts

WillRetry(k, outcome) ==
    /\ Retryable(outcome)
    /\ k.attempt < MaxAttempts
    /\ k.elapsed < TotalBudget

Capped(attempt) ==
    LET raw == BaseDelay * 2 ^ (attempt - 1)
    IN  IF raw < MaxDelay THEN raw ELSE MaxDelay

\* Equal jitter: the upper half of the capped delay, rounded.
Backoff(attempt) == ((Capped(attempt) + 1) \div 2) .. Capped(attempt)

\* What the loop may make of the outcome of an attempt of k.
Concluded(k, outcome) ==
    IF WillRetry(k, outcome)
    THEN {[k EXCEPT !.phase = "backoff", !.left = d, !.outcome = outcome] :
            d \in Backoff(k.attempt)}
    ELSE {[k EXCEPT !.phase = "done", !.left = 0, !.outcome = outcome]}

\* The next attempt of k: the first, or the one after a backoff that is over.
MayAttempt(k) == k.phase = "idle" \/ (k.phase = "backoff" /\ k.left = 0)

Attempting(k) ==
    [k EXCEPT !.phase = "waiting", !.attempt = @ + 1, !.left = UpstreamTimeout]

-----------------------------------------------------------------------------
\* History: requests answered since the last reset, those a reset found in
\* flight; for each request in flight its age and the statuses a failure could
\* have been given since it arrived; the last answer.
NoAnswer == [kind |-> "none"]
LedgerInit == [answered |-> 0, carried |-> 0, watch |-> <<>>, last |-> NoAnswer]

Watched == [age |-> 0, met |-> {FailureStatus}]

\* The answer of a request that arrived under cfg and was watched since.
Answered(cfg, watched, kind) ==
    [ledger EXCEPT
        !.answered = @ + 1,
        !.last = [kind |-> kind, status |-> StatusOf(kind), arrivedUnder |-> cfg,
                  slept |-> watched.age, met |-> watched.met]]

Extended(f, x, v) == [y \in DOMAIN f \cup {x} |-> IF y = x THEN v ELSE f[y]]

Forget(f, x) == [y \in DOMAIN f \ {x} |-> f[y]]

-----------------------------------------------------------------------------
Init ==
    /\ SimulatorInit
    /\ call = [c \in Calls |-> Idle]
    /\ ledger = LedgerInit

\* An attempt finds the service down: no request reaches it.
AttemptRefused(c) ==
    /\ MayAttempt(call[c])
    /\ \E k \in Concluded(Attempting(call[c]), Unreachable) : call' = [call EXCEPT ![c] = k]
    /\ UNCHANGED <<simulator, ledger>>

\* An attempt is answered in the turn in which it arrives.
AttemptAnswered(c) ==
    /\ MayAttempt(call[c])
    /\ \E kind \in Verdicts(config) :
         /\ HandleAtOnce(kind)
         /\ \E k \in Concluded(Attempting(call[c]), Responded(StatusOf(kind))) :
              call' = [call EXCEPT ![c] = k]
         /\ ledger' = Answered(config, Watched, kind)

\* An attempt is put to sleep by the service.
AttemptSleeps(c) ==
    /\ MayAttempt(call[c])
    /\ LET k == Attempting(call[c])
           t == <<c, k.attempt>>
       IN  /\ FallAsleep(t)
           /\ call' = [call EXCEPT ![c] = k]
           /\ ledger' = [ledger EXCEPT !.watch = Extended(@, t, Watched)]

\* The service answers a request; nobody listens if its attempt timed out.
Answer(s) ==
    LET c == s.ticket[1]
        awaited == call[c].phase = "waiting" /\ call[c].attempt = s.ticket[2]
    IN  \E kind \in {"success", "error", "offline"} :
          /\ WakeUp(s, kind)
          /\ \E k \in IF awaited THEN Concluded(call[c], Responded(StatusOf(kind)))
                                 ELSE {call[c]} :
               call' = [call EXCEPT ![c] = k]
          /\ ledger' = [Answered(s.config, ledger.watch[s.ticket], kind)
                          EXCEPT !.watch = Forget(@, s.ticket)]

\* AbortSignal.timeout fires: the attempt is given up, its request is not.
AttemptTimesOut(c) ==
    /\ call[c].phase = "waiting" /\ call[c].left = 0
    /\ \E k \in Concluded(call[c], TimedOut) : call' = [call EXCEPT ![c] = k]
    /\ UNCHANGED <<simulator, ledger>>

Meets(status) ==
    [t \in DOMAIN ledger.watch |-> [ledger.watch[t] EXCEPT !.met = @ \cup {status}]]

Older == [t \in DOMAIN ledger.watch |-> [ledger.watch[t] EXCEPT !.age = @ + 1]]

OperatorConfigures ==
    /\ \E body \in Bodies : Configure(body)
    /\ ledger' = [ledger EXCEPT !.watch = Meets(FailureStatus')]
    /\ UNCHANGED call

OperatorResets ==
    /\ Reset
    /\ ledger' = [ledger EXCEPT !.answered = 0, !.carried = Cardinality(sleeping),
                                !.watch = Meets(500)]
    /\ UNCHANGED call

\* Time passes: neither a sleep, a timeout nor a backoff that is over waits.
Tick ==
    /\ SimulatorTick
    /\ \A c \in Calls : call[c].phase \in {"waiting", "backoff"} => call[c].left > 0
    /\ call' = [c \in Calls |->
          IF call[c].phase \in {"waiting", "backoff"}
          THEN [call[c] EXCEPT !.left = @ - 1, !.elapsed = @ + 1] ELSE call[c]]
    /\ ledger' = [ledger EXCEPT !.watch = Older]

Next ==
    \/ \E c \in Calls : \/ AttemptRefused(c) \/ AttemptAnswered(c)
                        \/ AttemptSleeps(c) \/ AttemptTimesOut(c)
    \/ \E s \in sleeping : Answer(s)
    \/ OperatorConfigures \/ OperatorResets \/ Tick

Spec == Init /\ [][Next]_vars

-----------------------------------------------------------------------------
\* A call never runs longer than its budget, one backoff and one attempt: the
\* budget is looked at before a backoff only, so the last backoff and attempt
\* may begin just within it and end outside (retry.service.ts:94-97).
TimeBounded ==
    \A c \in Calls : call[c].attempt > 0 =>
      IF call[c].attempt = 1 /\ call[c].phase # "backoff"
      THEN call[c].elapsed <= UpstreamTimeout
      ELSE call[c].elapsed < TotalBudget + MaxDelay + UpstreamTimeout

\* The statistics account for every request: those counted since the last
\* reset and those that reset found in flight have been answered or still
\* sleep, and a failure is one of the answered.  Hence simulatedFailures
\* exceeds requestsHandled by no more than a reset found in flight
\* (simulation.service.ts:57-66, 73, 85).
StatisticsAddUp ==
    /\ requestsHandled + ledger.carried = ledger.answered + Cardinality(sleeping)
    /\ simulatedFailures <= ledger.answered
    /\ {s.ticket : s \in sleeping} = DOMAIN ledger.watch

\* Operators change a service under load: a request is answered after the
\* latency and with the luck of the configuration it arrived under, whatever
\* changed since, and a failure carries a status that was in force between
\* its arrival and its answer (simulation.service.ts:15-17, simulated.
\* controller.ts:42, which reads the status late).
AnsweredAsArrived ==
    LET a == ledger.last IN a # NoAnswer =>
      /\ a.kind \in Verdicts(a.arrivedUnder)
      /\ a.slept = (IF a.arrivedUnder.online THEN a.arrivedUnder.latencyMs ELSE 0)
      /\ a.kind = "error" => a.status \in a.met
=============================================================================
