------------------------------- MODULE Gateway -------------------------------
(***************************************************************************)
(* The life of a gateway request: createGroupProxyHandler, which runs      *)
(* executeWithFailover over the providers of a group, which runs           *)
(* proxyBusinessRequest (the bounded retry loop) on each provider that its *)
(* gates let through.                                                      *)
(*                                                                         *)
(* A request is suspended in two places only: while an attempt is with the *)
(* upstream and while it sleeps before a retry.  Everything between two    *)
(* suspensions happens in one turn of the event loop and is one step here; *)
(* steps of different requests, health rounds and the clock interleave.    *)
(***************************************************************************)
EXTENDS CircuitOps, Sequences

CONSTANTS
  Services,      \* registered providers
  Groups,        \* provider groups: sequences of services, the primary first
  Requests,      \* slots for requests in progress; a finished one is reused
  MaxFailovers,  \* DEFAULT_MAX_FAILOVERS
  MaxAttempts,   \* retryPolicy.maxAttempts
  Outcomes,      \* the attempt outcomes to be considered
  NoService,     \* a request that runs nowhere
  None           \* null

\* What an attempt can come to (ProxyOutcome): http_4xx and http_500 stand for
\* every status that is neither 2xx nor a transient gateway status.
AllOutcomes ==
  {"success", "timeout", "unreachable", "http_502", "http_503", "http_504",
   "http_4xx", "http_500", "invalid"}

\* Every provider belongs to one place of one group.
ASSUME GatewayAssumption ==
  /\ NoService \notin Services
  /\ MaxFailovers \in Nat
  /\ MaxAttempts \in Nat \ {0}
  /\ Outcomes \subseteq AllOutcomes
  /\ \A g \in Groups :
       /\ g \in Seq(Services)
       /\ Len(g) > 0
       /\ \A i, j \in 1..Len(g) : g[i] = g[j] => i = j

VARIABLES
  circuit,       \* the breaker's runtime of every service
  healthy,       \* HealthMonitor.isHealthy(s), as of its last probe
  req            \* the requests in progress and those last finished

gvars == <<circuit, healthy, req>>

-----------------------------------------------------------------------------
(* The three classifiers of an outcome, separate in the code as here.       *)

Transient == {"timeout", "unreachable", "http_502", "http_503", "http_504"}

Retryable(o) == o \in Transient

CountsAsCircuitFailure(o) == o \in Transient

FailoverEligible(o) == o \in Transient

FailoverReason(o) ==
  CASE o = "timeout" -> "UPSTREAM_TIMEOUT"
    [] o = "unreachable" -> "NETWORK_UNAVAILABLE"
    [] o \in {"http_502", "http_503", "http_504"} -> o
    [] OTHER -> None

\* The error code or pass-through a client receives for a final outcome.
ResponseTo(o) ==
  CASE o = "success" -> "SUCCESS"
    [] o = "timeout" -> "UPSTREAM_TIMEOUT"
    [] o \in {"unreachable", "http_503"} -> "UPSTREAM_UNAVAILABLE"
    [] o = "invalid" -> "UPSTREAM_INVALID_RESPONSE"
    [] OTHER -> "UPSTREAM_ERROR"

-----------------------------------------------------------------------------
(* A request: the controller's and executeWithFailover's local variables,   *)
(* and what it left in the event stream under its requestId (the breaker's  *)
(* own transition events are not part of log).                              *)

Active(q) == q.phase \in {"attempting", "backoff"}

Provider(q, i) == q.group[i]

\* The service a request is being executed on.
Serving(q) == IF Active(q) THEN Provider(q, q.at) ELSE NoService

Emit(q, type, i) == [q EXCEPT !.log = Append(@, <<type, Provider(q, i)>>)]

\* attempts.push() for a provider the gates kept out, and for one that ran.
Skipped(q, i, why) ==
  [q EXCEPT !.trail = Append(@, [at |-> i, ran |-> FALSE, result |-> why])]

\* Mutant: the result of the first provider is kept.
RanKeepsFirst(q, i, o) ==
  [q EXCEPT !.trail = Append(@, [at |-> i, ran |-> TRUE, result |-> o]),
            !.outcome = IF @ = None THEN o ELSE @,
            !.selected = i]

Ran(q, i, o) ==
  [q EXCEPT !.trail = Append(@, [at |-> i, ran |-> TRUE, result |-> o]),
            !.outcome = o,
            !.selected = i]

\* A slot no request has used yet.
Unused ==
  [group |-> <<>>, phase |-> "unused", at |-> 0, attempt |-> 0,
   used |-> 0, reason |-> None, selected |-> 0, outcome |-> None,
   trail |-> <<>>, log |-> <<>>, response |-> None]

Started(g) ==
  Emit([group |-> g, phase |-> "attempting", at |-> 1, attempt |-> 1,
        used |-> 0, reason |-> None, selected |-> 0, outcome |-> None,
        trail |-> <<>>, log |-> <<>>, response |-> None],
       "REQUEST_STARTED", 1)

Executing(q, i) == [q EXCEPT !.phase = "attempting", !.at = i, !.attempt = 1]

\* Leaving a provider behind: the reason is written once, the primary's
\* departure is announced, the budget is charged.  The mutants rewrite the
\* reason, charge the move off the primary to nobody, and announce every move.
LeftRewritingReason(q, i, why) ==
  LET noted == [q EXCEPT !.reason = why, !.used = @ + 1]
  IN  IF i = 1 THEN Emit(noted, "FAILOVER_STARTED", 1) ELSE noted

LeftWithoutCharge(q, i, why) ==
  LET noted == [q EXCEPT !.reason = IF @ = None THEN why ELSE @,
                         !.used = IF i = 1 THEN @ ELSE @ + 1]
  IN  IF i = 1 THEN Emit(noted, "FAILOVER_STARTED", 1) ELSE noted

LeftAnnouncingAll(q, i, why) ==
  Emit([q EXCEPT !.reason = IF @ = None THEN why ELSE @, !.used = @ + 1],
       "FAILOVER_STARTED", i)

Left(q, i, why) ==
  LET noted == [q EXCEPT !.reason = IF @ = None THEN why ELSE @, !.used = @ + 1]
  IN  IF i = 1 THEN Emit(noted, "FAILOVER_STARTED", 1) ELSE noted

\* The end of executeWithFailover: a failover took place if a fallback ran.
Concluded(q) == IF q.selected > 1 THEN Emit(q, "FAILOVER_COMPLETED", 1) ELSE q

\* The controller's terminal event and response: the serving provider owns the
\* event, or the primary when nothing was attempted.
Finished(q) ==
  LET told == Concluded(q)
      done == [told EXCEPT !.phase = "done",
                           !.response = IF q.selected = 0 THEN "CIRCUIT_OPEN"
                                        ELSE ResponseTo(q.outcome)]
  IN  IF q.selected = 0 THEN Emit(done, "REQUEST_FAILED", 1)
      ELSE IF q.outcome = "success" THEN Emit(done, "REQUEST_COMPLETED", q.selected)
      ELSE Emit(done, "REQUEST_FAILED", q.selected)

-----------------------------------------------------------------------------
(* The gates of a fallback, in the loop's order: budget, health, circuit.   *)

\* Whether the loop's turn to provider i reaches its circuit breaker.
Asks(q, i) ==
  /\ i \in 1..Len(q.group)
  /\ q.used <= MaxFailovers
  /\ healthy[Provider(q, i)]

\* The loop's turn to the fallback i after the providers before it were left.
Onward(q, i) ==
  IF i > Len(q.group) THEN Finished(q)
  ELSE IF q.used > MaxFailovers THEN Finished(Skipped(q, i, "BUDGET_EXHAUSTED"))
  ELSE IF ~Asks(q, i) THEN Finished(Skipped(q, i, "UNHEALTHY"))
  ELSE IF ~Admits(circuit[Provider(q, i)]) THEN Finished(Skipped(q, i, "CIRCUIT_OPEN"))
  ELSE Executing(q, i)

\* What that turn does to the circuits, given what happened to them before.
Asked(circuits, q, i) ==
  IF Asks(q, i)
  THEN [circuits EXCEPT ![Provider(q, i)] = AfterCanRequest(@)]
  ELSE circuits

\* The one circuit outcome of a provider that ran.
Recorded(s, o) ==
  IF CountsAsCircuitFailure(o) THEN [circuit EXCEPT ![s] = AfterFailure(@)]
  ELSE IF o = "success" THEN [circuit EXCEPT ![s] = AfterSuccess(@)]
  ELSE circuit

-----------------------------------------------------------------------------

\* Nothing has been requested and no health probe has been answered.
Init ==
  /\ circuit = [s \in Services |-> NewCircuit]
  /\ healthy = [s \in Services |-> FALSE]
  /\ req = [r \in Requests |-> Unused]

\* A request arrives and its primary admits it, whatever the primary's health.
Arrive(r, g) ==
  /\ ~Active(req[r])
  /\ Admits(circuit[g[1]])
  /\ circuit' = [circuit EXCEPT ![g[1]] = AfterCanRequest(@)]
  /\ req' = [req EXCEPT ![r] = Started(g)]
  /\ UNCHANGED healthy

\* A request arrives and its primary's circuit rejects it: the request moves
\* to the first fallback at once.
ArriveRejected(r, g) ==
  LET q == Left(Skipped(Started(g), 1, "CIRCUIT_OPEN"), 1, "CIRCUIT_OPEN") IN
  /\ ~Active(req[r])
  /\ ~Admits(circuit[g[1]])
  /\ circuit' = Asked([circuit EXCEPT ![g[1]] = AfterCanRequest(@)], q, 2)
  /\ req' = [req EXCEPT ![r] = Onward(q, 2)]
  /\ UNCHANGED healthy

\* onAttemptRecord: what the event stream hears of one attempt.
Observed(q, o, retried) ==
  LET told == IF retried THEN Emit(q, "RETRY_ATTEMPT", q.at) ELSE q
  IN  IF o = "timeout" THEN Emit(told, "UPSTREAM_TIMEOUT", q.at) ELSE told

WillRetry(q, o, late) ==
  /\ Retryable(o)
  /\ q.attempt < MaxAttempts
  /\ ~late

\* Mutant: a failed attempt is recorded with the breaker although it is retried.
AttemptFailsCounted(r) ==
  \E o \in Outcomes, late \in BOOLEAN :
    /\ req[r].phase = "attempting"
    /\ WillRetry(req[r], o, late)
    /\ req' = [req EXCEPT ![r] = [Observed(@, o, TRUE) EXCEPT !.phase = "backoff"]]
    /\ circuit' = Recorded(Serving(req[r]), o)
    /\ UNCHANGED healthy

\* An attempt ends and will be repeated; late says whether the total retry
\* budget is spent, which is asked only here.
AttemptFails(r) ==
  \E o \in Outcomes, late \in BOOLEAN :
    /\ req[r].phase = "attempting"
    /\ WillRetry(req[r], o, late)
    /\ req' = [req EXCEPT ![r] = [Observed(@, o, TRUE) EXCEPT !.phase = "backoff"]]
    /\ UNCHANGED <<circuit, healthy>>

\* Mutant: the retry waits until the circuit would admit it.
BackoffWaitsForCircuit(r) ==
  /\ req[r].phase = "backoff"
  /\ Admits(circuit[Serving(req[r])])
  /\ req' = [req EXCEPT ![r].phase = "attempting", ![r].attempt = @ + 1]
  /\ UNCHANGED <<circuit, healthy>>

\* The sleep before a retry is over and the next attempt starts.  The circuit
\* is not asked again.
BackoffOver(r) ==
  /\ req[r].phase = "backoff"
  /\ req' = [req EXCEPT ![r].phase = "attempting", ![r].attempt = @ + 1]
  /\ UNCHANGED <<circuit, healthy>>

\* The last attempt ends with an outcome that settles the request.
Settle(r) ==
  \E o \in Outcomes, late \in BOOLEAN :
    LET q == Ran(Observed(req[r], o, FALSE), req[r].at, o) IN
    /\ req[r].phase = "attempting"
    /\ ~WillRetry(req[r], o, late)
    /\ ~FailoverEligible(o)
    /\ circuit' = Recorded(Serving(req[r]), o)
    /\ req' = [req EXCEPT ![r] = Finished(q)]
    /\ UNCHANGED healthy

\* The last attempt ends with an outcome another provider may do better on.
FailOver(r) ==
  \E o \in Outcomes, late \in BOOLEAN :
    LET i == req[r].at
        q == Left(Ran(Observed(req[r], o, FALSE), i, o), i, FailoverReason(o))
    IN
    /\ req[r].phase = "attempting"
    /\ ~WillRetry(req[r], o, late)
    /\ FailoverEligible(o)
    /\ circuit' = Asked(Recorded(Serving(req[r]), o), q, i + 1)
    /\ req' = [req EXCEPT ![r] = Onward(q, i + 1)]
    /\ UNCHANGED healthy

\* The executor throws: the provider is charged with a failure and the error
\* handler answers; no terminal event is recorded.
Crash(r) ==
  /\ req[r].phase = "attempting"
  /\ circuit' = [circuit EXCEPT ![Serving(req[r])] = AfterFailure(@)]
  /\ req' = [req EXCEPT ![r].phase = "done", ![r].response = "INTERNAL_ERROR"]
  /\ UNCHANGED healthy

AttemptEnds(r) == AttemptFails(r) \/ Settle(r) \/ FailOver(r) \/ Crash(r)

\* A health probe is answered and the answer differs from the last one.
HealthChanges(s) ==
  /\ healthy' = [healthy EXCEPT ![s] = ~@]
  /\ UNCHANGED <<circuit, req>>

Tick ==
  /\ circuit' = [s \in Services |-> Aged(circuit[s])]
  /\ UNCHANGED <<healthy, req>>

Next ==
  \/ \E r \in Requests :
       \/ \E g \in Groups : Arrive(r, g) \/ ArriveRejected(r, g)
       \/ AttemptEnds(r)
       \/ BackoffOver(r)
  \/ \E s \in Services : HealthChanges(s)
  \/ Tick

\* Every attempt ends (AbortSignal.timeout) and every sleep is over (setTimeout);
\* nothing else is owed a step.
Spec ==
  /\ Init
  /\ [][Next]_gvars
  /\ \A r \in Requests :
       /\ WF_gvars(AttemptEnds(r))
       /\ WF_gvars(BackoffOver(r))

-----------------------------------------------------------------------------

Reasons ==
  {"CIRCUIT_OPEN", "UPSTREAM_TIMEOUT", "NETWORK_UNAVAILABLE",
   "http_502", "http_503", "http_504"}

\* null is none of the reasons.
ASSUME NoneAssumption == None \notin Reasons

Responses ==
  {"SUCCESS", "UPSTREAM_TIMEOUT", "UPSTREAM_UNAVAILABLE", "UPSTREAM_ERROR",
   "UPSTREAM_INVALID_RESPONSE", "CIRCUIT_OPEN", "INTERNAL_ERROR"}

EventTypes ==
  {"REQUEST_STARTED", "RETRY_ATTEMPT", "UPSTREAM_TIMEOUT", "FAILOVER_STARTED",
   "FAILOVER_COMPLETED", "REQUEST_COMPLETED", "REQUEST_FAILED"}

TrailEntry ==
  [at     : Nat,
   ran    : BOOLEAN,
   result : Outcomes \cup {"CIRCUIT_OPEN", "UNHEALTHY", "BUDGET_EXHAUSTED"}]

Request ==
  [group    : Groups \cup {<<>>},
   phase    : {"unused", "attempting", "backoff", "done"},
   at       : Nat,
   attempt  : 0..MaxAttempts,
   used     : Nat,
   reason   : Reasons \cup {None},
   selected : Nat,
   outcome  : Outcomes \cup {None},
   trail    : Seq(TrailEntry),
   log      : Seq(EventTypes \X Services),
   response : Responses \cup {None}]

\* A request makes at most maxAttempts attempts on a provider, is always on a
\* provider of its group, and what it reports and answers is one of the known
\* events and codes.  retry.service.ts:76-124; failover.service.ts:174-253.
TypeOK ==
  /\ circuit \in [Services -> Circuit]
  /\ healthy \in [Services -> BOOLEAN]
  /\ req \in [Requests -> Request]
  /\ \A r \in Requests :
       Active(req[r]) => req[r].group \in Groups /\ req[r].at \in 1..Len(req[r].group)

-----------------------------------------------------------------------------

Answered(q) == q.phase = "done" /\ q.response # "INTERNAL_ERROR"

PositionsOf(q, types) == {i \in 1..Len(q.log) : q.log[i][1] \in types}

RanEntries(q) == {i \in 1..Len(q.trail) : q.trail[i].ran}

\* An answered request has left exactly one terminal lifecycle event, after
\* everything else it reported, on the provider that ran last (the primary if
\* none ran); a request in progress, or one whose executor threw, has left
\* none.  gateway.controller.ts:216-284, 423-425.
OneTerminalEvent ==
  \A r \in Requests :
    LET q == req[r]
        terminal == PositionsOf(q, {"REQUEST_COMPLETED", "REQUEST_FAILED"})
    IN
    IF Answered(q)
    THEN /\ terminal = {Len(q.log)}
         /\ q.log[Len(q.log)][2] =
              Provider(q, IF RanEntries(q) = {} THEN 1
                          ELSE CHOOSE i \in RanEntries(q) : \A j \in RanEntries(q) : j <= i)
    ELSE terminal = {}

\* The failover events tell the story of the trail: STARTED is reported once,
\* exactly when the primary was left, and COMPLETED at most once, after it,
\* exactly when a fallback ran in a request that was answered.
\* failover.service.ts:158-172, 200-205, 247-272.
FailoverReported ==
  \A r \in Requests :
    LET q == req[r]
        started == PositionsOf(q, {"FAILOVER_STARTED"})
        completed == PositionsOf(q, {"FAILOVER_COMPLETED"})
    IN
    /\ started = {} <=> q.reason = None
    /\ completed # {} <=> Answered(q) /\ RanEntries(q) \ {1} # {}
    /\ \A i, j \in started : i = j
    /\ \A i, j \in completed : i = j
    /\ \A i \in started, j \in completed : i < j

\* The events of a request tell what became of it: the one that ends it, and
\* those of its failover.  gateway.controller.ts:137-284.
EventsTellTheStory == OneTerminalEvent /\ FailoverReported

\* A request visits its providers in order and none twice, stops at the first
\* fallback its gates keep out, and never goes more than MaxFailovers beyond
\* the primary, however it left the providers before.
\* failover.service.ts:121-129, 174-207.
ForwardWithinBudget ==
  \A r \in Requests :
    LET q == req[r] IN
    /\ \A i \in 1..Len(q.trail) :
         /\ q.trail[i].at = i
         /\ ~q.trail[i].ran /\ i > 1 => i = Len(q.trail)
         /\ q.trail[i].ran => i <= MaxFailovers + 1
    /\ Active(q) => q.at = Len(q.trail) + 1 /\ q.at <= MaxFailovers + 1

\* failoverReason says why the primary was left and no later outcome rewrites
\* it.  failover.service.ts:133-134, 201, 248-250.
ReasonIsThePrimarys ==
  \A r \in Requests :
    LET q == req[r] IN
    q.reason # None =>
      q.reason = IF q.trail[1].ran THEN FailoverReason(q.trail[1].result)
                 ELSE "CIRCUIT_OPEN"

\* What the client is told is what the last provider that ran came to, and a
\* failure another provider could have survived is returned only when there
\* was no further provider or its gates kept it out.
\* failover.service.ts:240-252; gateway.controller.ts:216-252, 286-421.
NoProviderForgotten ==
  \A r \in Requests :
    LET q == req[r]
        last == q.trail[Len(q.trail)]
    IN
    Answered(q) =>
      /\ q.response = "CIRCUIT_OPEN" <=> RanEntries(q) = {}
      /\ \A i \in RanEntries(q) :
           (\A j \in RanEntries(q) : j <= i) => q.response = ResponseTo(q.trail[i].result)
      /\ \/ Len(q.trail) = Len(q.group)
         \/ ~last.ran
         \/ ~FailoverEligible(last.result)

\* Every request is answered: attempts end, retries are bounded, and the
\* failover loop moves forward only.
RequestsEnd ==
  \A r \in Requests : Active(req[r]) ~> ~Active(req[r])

-----------------------------------------------------------------------------
(* The gateway drives its circuits only as CircuitBreaker allows: each step *)
(* is one operation of one call, a tick, or nothing to any circuit.         *)

Breaker == INSTANCE CircuitBreaker
           WITH Calls <- Requests, serving <- [r \in Requests |-> Serving(req[r])]

\* Between admission and outcome each provider execution is one call of the
\* abstract breaker; retries, failover and the controller add nothing to it.
ImplementsBreaker == Breaker!Spec

=============================================================================
