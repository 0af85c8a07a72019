# A TLA+ model of the API resilience platform

The repository is a gateway (`backend/`) that stands between clients and a few
simulated upstream services (`services/`), with a dashboard (`frontend/`). The
gateway limits the rate of its clients, retries, breaks circuits, fails over
between the providers of a group, and turns what happens into events, counters
and incidents, which the dashboard polls. All of that is in-memory state changed
by callbacks on one event loop: what makes it hard is the order in which awaits
resume, and what a restart forgets.

This directory holds the specifications of those parts, the TLC instances that
check them and the theorems TLAPS checks about them.

## 1. The system

| Component | State | Operations | Talks to |
| --- | --- | --- | --- |
| Circuit breaker (`services/circuitBreaker.service.ts`) | per service: state, failureCount, openedAtMs, activeProbes | canRequest, recordSuccess, recordFailure; OPEN becomes HALF_OPEN lazily, in canRequest | called by failover; reports transitions to observability |
| Failover (`services/failover.service.ts`) | local variables of one call | executeWithFailover: gates, execution, recording, moving on | breaker, health monitor, proxy, controller's emitter |
| Retry and proxy (`retry`, `proxy`, `upstreamClient`) | local variables | executeWithRetry around one upstream call | upstreams (fetch with a timeout) |
| Gateway controller (`controllers/gateway.controller.ts`) | none | one handler per group: events, failover, answer | failover, observability |
| Health monitor (`services/healthMonitor.service.ts`) | status of each service, roundInFlight, timer | start, stop, runRound, isHealthy | upstreams; reports changes |
| Rate limiter (`services/rateLimiter.service.ts`) | bucket of each client, sweeper's timer | middleware, cleanup, stop | in front of the proxy routes |
| Metrics collector (`observability/metricsCollector.service.ts`) | counters and latency windows per service and in total | observe | fed by every event |
| Incident aggregator (`observability/incidentAggregator.service.ts`) | per service: active incident, recent failures, pending events; resolved incidents | observe | fed by every event |
| Event store, facade (`observability/`) | bounded ring of events | record, list | feeds the three sinks synchronously; read by the routes |
| Anomaly detection (`anomaly/`) | counter positions, windows, last status | tick, observe | reads metrics, reports into the event stream |
| Configuration, topology (`config/`, `serviceRegistry`) | none after boot | loadEnv, the limiter's factory, byName | every constructor |
| Server and middleware (`server.ts`, `app.ts`) | listening socket, timers | start, shutdown on signals and exceptions | all |
| Simulators (`services/`) | simulation config, statistics, requests asleep | performRequest, applyPatch, reset; start and shutdown as the gateway | called by the gateway, set by operators |
| Dashboard (`frontend/`) | per page: data, staleness, request in flight; derived series | polling, refresh, filters, visibility | reads the gateway |
| Launchers (`launcher.ts`, `run-all.js`) | list of children | start, stop on signals, stop when a child exits | gateway and simulators |

A request goes: rate limiter, controller (REQUEST_STARTED on the primary), for
each provider of the group in turn the gates *budget, health, circuit*, then the
retry loop, then one recording with the provider's circuit; at the end the
terminal event and the answer. A request is suspended only while an attempt is
with the upstream and while it sleeps before a retry. Everything between two
suspensions, recording of events and counting included, runs in one turn of the
event loop.

**Hard behaviour.** Outcomes that arrive after the circuit has changed its state
(stragglers); probe slots that are taken before an await and given back after
it; outcomes that nobody records; failover driven by a rejection and by a failure;
an executor that throws; refill computed lazily; time in seconds next to time in
milliseconds; an incident that is resolved by the event that starts the next;
buffers cut at several places; a snapshot written after an await from what was
read before it; counters read in intervals that cut requests in two; attempts the
gateway gave up that go on in the upstream, whose operators reconfigure and reset
it meanwhile; refreshes dropped because a request is in flight, filters that
change under one, and a gateway that restarts between two polls; settings read
twice by different parsers; processes told to stop twice, or while they boot.
`PROJECT.json` lists these hazards with the line where each bites and the
properties that watch it. `RateBounded` starts its count again at a sweep, so what a sweep may take
is the matter of `OnlyInactiveSwept` alone.

**What makes each part correct.** Breaker: consistent circuits, slots and
streaks accounted for, a cool-off that is respected and ends. Gateway: one
terminal event and one answer for a request, failover that goes forward within
its budget and tells its story truthfully, one recorded outcome for each
provider that ran. Limiter: no client gets more than a token bucket gives, and
whoever waits as told is served. Metrics: totals balance, and latencies are those
of the last requests. Incidents: none missed, none invented, ended only when
calm, with their own requests and a severity that only escalates, one after the
other. Health: rounds that do not overlap, counts and events that tell
what probes found, a snapshot whose age is bounded. Anomalies: an alarm only for
an outlier, never missed on a flat history, told once when it worsens and once
when it ends. Upstream calls: bounded in time, answered by the configuration they
met, and all accounted for. Dashboard: what is shown answers what is asked, is
recent and never goes back. Processes: an environment that is accepted is refused
by no constructor, and it is known exactly which of them leave the limiter without
positive settings; draining ends in time; and a script that exits by itself leaves
nothing behind but the server of a watcher that was killed.

## 2. Modules

| Module | What it is |
| --- | --- |
| `Arrays` | `filter` and `sort` of JavaScript as operators |
| `CircuitOps` | one circuit as a record and the breaker's operations as functions on it; no variables |
| `CircuitBreaker` | all circuits and the calls they admit: the specification of the breaker's protocol |
| `CircuitHistory` | the same steps with history: who holds which slot, failures in a row |
| `Gateway` | requests through controller, failover, retry and breaker; implements `CircuitBreaker` |
| `GatewayMetrics` | `Gateway` composed with the collector's counters, latency windows and percentiles |
| `TokenBucket` | abstract specification of a rate limiter |
| `RateLimiter` | the limiter as coded; implements `TokenBucket` |
| `RateLimiterClients` | history of what a client was granted and promised |
| `Incidents` | the aggregator for one service with the breaker and requests that feed it |
| `IncidentHistory` | the same with the events since the last resolution |
| `HealthMonitor` | rounds, probes, the snapshot, its change events, and services that go up and down |
| `HealthHistory` | the same with the age of each check and the failures in a row |
| `RobustBaseline` | windows, medians and scores as pure operators |
| `Alarm` | abstract specification of the detector's events |
| `AnomalyDetection` | sampler and detector for one service; implements `Alarm` |
| `Simulator` | one simulated service: configuration, statistics, requests asleep |
| `Upstream` | `Simulator` composed with the gateway's retry loop, in time |
| `EventStore` | the ring, its filtered view and the routes' validation as operators |
| `Dashboard` | a tab that polls a gateway, with `EventStore` behind it |
| `Configuration` | loadEnv, the limiter's second reading, the constructors' checks, the topology, as operators |
| `Lifecycle` | the launch scripts and the processes they start, with `Configuration` at boot |
| `MC*` | instances for TLC |
| `ArraysProofs` | what filters, sorts and sums give: lemmas shared by the next four |
| `GatewayProofs` | theorems about `Gateway` and `GatewayMetrics` |
| `MonitoringProofs` | theorems about `HealthHistory` and `AnomalyDetection` |
| `IncidentProofs`, `DashboardProofs` | theorems about `IncidentHistory` and `Dashboard` |
| `CircuitBreakerProofs`, `UpstreamProofs` | theorems about `CircuitHistory` and `Upstream` |
| `ServerProofs` | theorems about `RateLimiterClients` and `Lifecycle` |

Operators whose comment calls them mutants are plausible mistakes in the
definition that follows them. No specification uses them; they serve to see
that a property notices the mistake.

### State and actions against the code

*Circuits.* `openAge` stands for `now - openedAtMs`, the only use of
`openedAtMs`; it is kept at `OpenDuration` once reached, so time is unbounded.
`failureCount` is kept at `CountBound`, which is at least the threshold: a larger
count decides nothing. `AfterCanRequest`, `AfterSuccess`, `AfterFailure` are
the methods in whole, `transition()` and its resets included. In
`CircuitBreaker` a call is one provider execution: `CanRequest`, then one of
`RecordSuccess`, `RecordFailure`, `FailOver` (a failure followed, in the same
turn, by the admission at the fallback) and `EndUncounted` (an outcome the code
records with neither method).

*Requests.* `req[r]` holds the locals of the handler and of
`executeWithFailover` (`at`, `attempt`, `used`, `reason`, `selected`, `trail` for
`attempts`), the events the request left (`log`) and its answer. `Arrive` and
`ArriveRejected` run from REQUEST_STARTED to the first await; `AttemptFails` is
an attempt that will be repeated; `BackoffOver` ends the sleep; `Settle`,
`FailOver` and `Crash` run from the last attempt's end to the next provider's
first await or to the answer. A slot in `Requests` that is not active may be used
again, so requests are unlimited and only their overlap is bounded. The data of
a response, durations and log lines are left out; whether the retry budget is
spent is a free choice at each attempt, which covers every clock. `healthy`
changes at any step: nothing is assumed about probes.

*Metrics.* Counting is synchronous, so the events a step adds to `log` are
counted in that step. CIRCUIT_OPENED comes from the circuits that open in it.
A terminal event carries a duration, which goes to the window of its service and
to that of the totals; `Refreshed` recomputes average and percentile as the code
does after each. `Past` is a history of requests that ended before the run
starts, through the same operators, so that windows are full and evict.

*Simulator and upstream calls.* A request that has to wait is an element of
`sleeping` with its copy of the configuration; `WakeUp` rolls the dice of that
copy, and `StatusOf` reads the failure status from the configuration in force, as
the controller does. `AttemptTimesOut` leaves the request asleep. A backoff is
any length the jitter can produce. Times are ticks; timers fire on time.

*Events and dashboard.* An event is its number and its type. A page is one
poller: the shared provider, whose new data extend the derived series; the events
page, which refreshes when its filter changes; the anomaly page's history, which
waits for its timer. A request in flight is its deadline, the query it was sent
with and, once the gateway has answered, the answer; the gateway answers at any
time before the deadline, which lets any delay lie on either side. `Restart`
empties the gateway. `version`, `starts`, `recorded`, `age`, `credited` and
`calm` are history.

*Processes.* A text of the environment is known by what the parsers read in it
(`Text`), which is where `parseInt`, `parseFloat` and `Number` differ.
`CompositionThrows` is everything in the composition root that may throw. A
process is booting, serving, draining or gone; a signal is pending until its
handler runs, and kills a process whose handlers are not installed yet. The
grace is counted in ticks from the first shutdown. `Signal` reaches the script
alone (SIGTERM) or, from the terminal, all processes. The children of `launcher.ts`
are the servers; those of `run-all.js` are watchers (`node --watch`, line 42), each
with a server as its own child, which is the variable `watcher`. A watcher passes a
signal on to its server and exits after it (`WatcherHandlesSignal`, `WatcherDone`);
when its server dies untold it stays, and the script hears nothing. `ExitNoticed`
is the exit of a watcher. `Kill`, `KillWatcher` and `KillScript` end one process
each and nothing else: a server survives its watcher and all survive their script.
What a watcher does is modelled from how `run-all.js` uses it.

*Buckets.* Tokens are counted in parts, one part a tick, `TokenTicks` parts a
token; `since` is the age of `lastRefillAt`, kept at `SinceBound`, at which every
bucket is full. `Expired` subtracts seconds from milliseconds, as the code does.

*Incidents.* `Told` is `observe()` after the recovery check, `Observe` adds the
check, `CircuitCloses` is the branch before it. The circuit's transitions and the
requests that have left the service constrain which events can come: a
transition event needs the right state, FAILOVER_COMPLETED needs an earlier
FAILOVER_STARTED of the same request. One service is enough, since each has a
tracking of its own and the list of resolved incidents is never read to decide
anything.

*Health.* A round in flight is its age and, for each service, the probe that
has not ended: the state read before its await and what the service has answered.
`Answered` is the moment the service reads its own configuration, `ProbeEnds` the
moment the monitor hears of it; between the two the service may change. Any probe
may fail at any time before its deadline (`Verdicts`), and `Tick` waits for
deadlines and for the interval, which is what `AbortSignal.timeout` and
`setInterval` do up to a delay of the event loop. `rounds` is a sequence so that
overlapping rounds can be expressed. `Gateway` lets the health gate's answer
change at any step, which covers everything this module does.

*Anomalies.* `growth` is the counters less the sampler's position, so counters are
unbounded; the two bounds are on one interval. `TickSample` is `tick()` with
`observe()`, `Seed` and `TickIdle` its two early exits. A request may start in one
interval and fail in the next, or fail on a service that never counted its start,
hence failures without requests. Medians are doubled and deviations quadrupled to
stay whole; scores are rounded to percents as `round2` does. The error of
floating-point division is not modelled. `Level` folds the statuses that
listeners need not tell apart.

## 3. Runs

| Run | Instance | Shows |
| --- | --- | --- |
| `circuit_breaker` | 2 services, 3 calls, threshold 2, cool-off 2, 2 probes, count to 3 | `CircuitConsistent`, `SlotAccounting`, `StreakCounted`, `CoolOffRespected`, `CoolOffEnds` |
| `gateway` | group of 2, 2 overlapping requests, 2 attempts, outcomes success, timeout, 500 | `EventsTellTheStory`, `ReasonIsThePrimarys`, `ImplementsBreaker`, `RequestsEnd` |
| `gateway_long_group` | group of 3 and group of 1, 20 requests in the past, 2 overlapping ones, outcomes success, 503, durations 1 and 4, windows of 20 | `ForwardWithinBudget`, `NoProviderForgotten`, `TotalsBalance` |
| `rate_limiter` | 2 clients, buckets of 2, a token every 3 ticks, at most 10 ticks counted between sweeps | `RateBounded`, `RetryAfterSuffices`, `ImplementsTokenBucket` |
| `incidents` | 2 requests, 5 events, 3 ticks, threshold 2, window 2, quiet period 2, buffers of 2 and 3, 2 resolved incidents kept | `HistoryInOrder`, `AffectedAreItsOwn`, `OpenedExactlyOnEvidence`, `ResolvedWhenCalm`, `SeverityEscalates` |
| `health` | 2 services, interval 2, timeout 1, counts to 2, ages to 5 | `RoundsNeverOverlap`, `FailuresCounted`, `SnapshotsAreFresh`, `HealthyWasUp`, `ChangesFaithful` |
| `anomaly` | windows of 5, 3 samples to start, latencies 4, 5, 12 with a floor of 1, at most 1 start and 2 failures an interval | `ADTypeOK`, `MedianIsMiddle`, `AlarmIsAnOutlier`, `JumpIsNoticed`, `ImplementsAlarm` |
| `upstream` | 1 call at a time, 3 attempts, timeout 2, backoff base 2 and cap 3, budget 4, latencies to 3, 7 bodies | `TimeBounded`, `StatisticsAddUp`, `AnsweredAsArrived` |
| `dashboard` | 3 pages, timeout 2, intervals 1, 1 and 2, ring of 2, series of 2 points, 3 events or restarts, queries with limits 1, 2 and an invalid 3, reads of the list with 0 and 3 as well | `ShownWithin`, `ListIsNewestMatching`, `NeverBackInTime`, `SeriesFollowsTheGateway` |
| `lifecycle` | 2 scripts, gateway and 2 simulators, grace 2, 1 request in flight each, 3 signals, exceptions or kills, every setting at and around its range and in every form of text, pairs that loadEnv compares and pairs of the limiter's settings | `StopsInTime`, `AcceptedConfigFits`, `NoneLeftBehind` |

**Why the bounds are enough.** Three calls are a straggler, a probe and a
rejected request on one circuit, with a second circuit to fail over to; a
threshold, cool-off and probe limit of 2 separate "at" from "one before".
Two requests of the gateway are one that changes a circuit while the other is
suspended; two attempts are one that is retried and one that is not; a group of
three is one longer than the budget of one failover. A threshold of 1 and one
probe slot in the gateway's runs make every failure a trip; the breaker's own run
has the larger values and `ImplementsBreaker` connects the two. The three outcomes
are one of each class: success, counted and eligible, neither. In
`gateway_long_group` only outcomes that are recorded occur, which is where
budgets and totals are decided; what happens with the others is the run
`probe_slot_leak`. Arrivals are counted there, since the totals grow with them:
twenty have ended before the run begins, the fewest with which the 95th
percentile is not the maximum, and two more make both windows evict. In the
incidents' run the window is as long as the quiet period, so that the buildup of
one incident could reach into the next, and shorter than a behaviour, so that it
lets go of what it held; events one tick apart put the quiet period off; buffers of 2 and 3 entries let the
buffer and the timeline be cut within five events. The archive's cut takes a third
resolved incident, which is beyond the bound; `HistoryIsToldInOrder` has it for
every bound. Requests are interchangeable there and in
`gateway_long_group`, and services in the health run, so symmetry is used; none of
the three checks liveness. In the health run an
age bound of 5 is one more than `MaxAge`, 2 timeouts and an interval, which a run
reaches exactly: with `MaxAge` less by one TLC finds `SnapshotsAreFresh` violated.
Monitoring stops, restarts and is forced without limit. In the anomaly run the
latencies are a flat history that jitters by one and a jump that is 8 floors above
one value and 7 above the other, so all four statuses occur through deviations and
through the floor; a window of 5 is the smallest the constructor accepts. In the
upstream run a budget of 4 is met by the second attempt or the third, depending on
the backoff, and a latency of 3 outlives the timeout, so that up to two abandoned
attempts sleep beside the running one; one call is enough since calls share only
the simulator, whose operators already change it at every step. In the dashboard
run a timeout is twice the interval of two pages and as long as that of the third,
so polls are skipped behind slow requests; three changes are two events beyond a
restart or a ring that has cut. Pages share no state but the gateway, so one page
a behaviour is enough. In the lifecycle run three incidents are a signal, which from the
terminal reaches a child twice, and two exceptions or kills while it drains, or a
watcher that is killed while others get a signal; one setting at a
time is enough for range checks, which read one each, and the pairs are those the
cross-checks relate. The behaviours of the incidents' and the lifecycle's run end
(at the bounds `MaxEvents` and `MaxTime`, and when all processes have gone), which
is why deadlock is not checked in them; every other passing run checks it.

**Fairness.** `CoolOffEnds` assumes only that the clock moves. `RequestsEnd`
assumes that an attempt ends, which `AbortSignal.timeout` sees to, and that a
sleep ends, which is a `setTimeout`. Nothing else is fair: not arrivals, not
probes of the health monitor, not the outcome of an attempt. `NoneLeftBehind`
assumes that handlers and timers of a live process run: `StopAll`, `HandleSignal`,
`Drained`, `GraceOver`, those of the watchers and time itself; no request is assumed to end, which is
what the grace is for. `ShownWithin` and `TimeBounded` need no fairness: they
bound ticks, and a tick waits for timers that are due.

### Where documents and code disagree

Two further runs check what a document or comment says and the code does not do;
TLC shows a behaviour for each.

| Run | Said | Done |
| --- | --- | --- |
| `probe_slot_leak` | every admitted request is paired with one outcome, so probe slots are released (`circuitBreaker.service.ts:79-81`) | a probe that ends with 4xx, 500 or a malformed body records nothing; its slot stays taken, and with all slots gone the circuit rejects for ever (`failover.service.ts:225-229`) |
| `rate_limiter_idle_sweep` | buckets idle for 5 minutes are removed (`rateLimiter.service.ts:98`, `backend/README.md:331`) | milliseconds are compared with seconds and every sweep removes every bucket (`rateLimiter.service.ts:101`) |

Other differences were met while modelling; the models follow the code.

* **Metrics.** A failed-over request is said to count traffic for both providers
  (`backend/README.md:717-718`); `requestCount` is raised by REQUEST_STARTED only,
  which names the primary (`metricsCollector.service.ts:79`,
  `gateway.controller.ts:125-127`), and the terminal event names the provider that
  served. `TotalsBalance` therefore balances the sums and not each service. With
  fewer than twenty samples the 95th percentile is always the maximum.
* **Incidents.** The buildup is said to be bounded by the lookback window
  (`incidentAggregator.service.ts:88-89`); it is filtered when it grows and not
  when an incident opens (line 248), so an incident opened by a late circuit trip
  may start with an older event. Failover is said to raise severity and set its
  flag (lines 127-128, `backend/README.md:727`); a failover in the replayed
  buildup does neither (line 255).
* **Retries.** `totalBudgetMs` is called a wall-clock ceiling for the whole loop
  (`retry.service.ts:39`); it is looked at before a backoff only, and
  `TimeBounded` states by how much a call may exceed it. The ranges of successive
  backoffs are called non-overlapping (lines 61-63); once the cap is reached they
  coincide.
* **Simulators.** A request is said to keep the configuration it arrived with
  (`simulation.service.ts:15-17`); the status of its failure is read when it
  answers (`simulated.controller.ts:42`).
* **Configuration.** The limiter logs an invalid setting as replaced by its default
  and uses it (`rateLimiter.service.ts:253-267`). `loadEnv` does not check
  `RATE_LIMIT_REFILL_RATE` (`env.ts:130-132`) and takes empty and blank texts for
  absent ones, so that an accepted environment may give the limiter a rate of 0, a
  negative one or NaN, or a capacity of 0, and `20abc` is 20 to one and NaN to the
  other: such a gateway starts, says "using default", and rejects its clients for
  ever or once their first tokens are spent. `AcceptedConfigFits` claims no more than
  is true: both readings agree on plain numerals, and the limiter's values are positive
  if and only if each of its three texts is absent or a positive numeral. An
  integer is said to be expected (`env.ts`), and `parseInt` accepts `20abc`, and
  `2e3` as 2.
* **Dashboard.** `connected` is said to be true while a recent fetch succeeded
  (`useGatewayData.tsx:24`); it stays true once each poller has had data
  (lines 93-95). The series "since the dashboard opened" ends at 90 points. The
  anomaly page shows another service's history until its timer fires. The
  refresh of the events page is dropped behind a request in flight. A page limit
  above `EVENTS_CAPACITY` is answered 400.
* **Launchers.** `run-all.js` promises prefixed output (lines 6-8) and writes none.
  `launcher.ts` exits without waiting for children that drain, and does not notice
  a child that exits. `run-all.js` logs "stopping all services" (line 59) when a
  watcher has exited; if the watcher was killed, its server is still there and
  is not stopped. A server that crashes stops nothing, since its watcher waits for a
  change of source. A script that is killed tells nobody. `NoneLeftBehind` names
  these cases: it speaks of scripts that exit by themselves, and excepts the server of
  a killed watcher.

The header of `createGroupProxyHandler` (`gateway.controller.ts:106`) announces
UPSTREAM_UNAVAILABLE when nothing could be attempted; the handler answers
CIRCUIT_OPEN (line 243), and so does the model. A call that outlives the cool-off and fails in HALF_OPEN re-opens the
circuit and forgets the probe in flight, so that more probes than
`halfOpenMaxRequests` may run at once, against `backend/README.md:389` and `:506`;
`SlotAccounting` holds all the same, since it counts the slots and not the probes.
A snapshot may be two timeouts older than the "one probe interval" of
`backend/README.md:668-669`; `SnapshotsAreFresh` states what holds. A forced check
(`gateway.controller.ts:69`, "forces an immediate probing round") starts no round
when one is in flight.

## 4. Theorems

All theorems hold for every value of the constants that satisfies the named
assumptions (`CircuitAssumption`, `CallAssumption`, `GatewayAssumption`,
`RateLimiterAssumption`, `NoBucketAssumption`, `ClientsAssumption`,
`MonitorAssumption`, `NoneAssumption`, `AgeAssumption`, `WindowAssumption`,
`DetectorAssumption`, `IncidentAssumption`, `NullAssumption`,
`SimulatorAssumption`, `UpstreamAssumption`, `EventStoreAssumption`,
`DashboardAssumption`, `LatencyAssumption`, `NumberAssumption`,
`LifecycleAssumption`): arbitrary sets of services, requests, clients and pages, any
thresholds, windows and timeouts. The assumptions only say that numbers are in the
ranges `env.ts` and the constructors accept, that null values differ from proper
ones, that no group names a provider twice, that environments are made of the
modelled texts, in which every simulator has a port, that the services and the
slots of requests are finitely many (their counters are added up), and that
the models' own bounds fit: `AgeBound` exceeds `MaxAge`, and the rates of an
interval are multiples of `1 / RateScale`.

* **Arrays** (`ArraysProofs`). No induction theorem of the library can be
  instantiated here, so induction goes through the least number that is not reached
  (`LeastNumber`, `SetInduction`). With it: a filter returns the elements it keeps,
  in their order (`KeptIsSelection`), and one more element at the end is kept at the
  end or not at all (`KeptAppend`); a sorted array is a permutation in order
  (`SortedAscends`), which of an array already in order is the array itself
  (`SortedStays`); at most `r - 1` elements lie below the one of rank `r` and at
  least `r` below anything greater (`RanksCount`), which is all that medians and
  percentiles need to know. `SumFunction` is a fold over a set in an order left to
  `CHOOSE`: `FoldExists` shows that the fold is a function on the subsets, whence
  sums add (`SumAdds`) and counts by service add up to the count (`CountsAddUp`).

* **Breaker** (`CircuitBreakerProofs`). `TypeCorrect`, `Consistency`, `CoolOff`.
  The invariant is `TypeOK /\ CircuitConsistent`: type correctness alone is not
  inductive for consistency, since a trip resets slots only because the state it
  leaves is known. Lemmas say what each operation does to one sound circuit; a
  step changes at most two circuits. For the history, `HistoryTypeCorrect`,
  `SlotsAreAccountedFor` and `StreaksAreCounted`: `leaked` stays in its range only
  because slots are accounted for, so types, consistency and accounting are
  proved together, with the fact that only calls on a service hold its slots.
* **Gateway** (`GatewayProofs`). `TypeCorrect` and `GatewayImplementsBreaker`:
  each action of the gateway maps to one action of the breaker with the
  request as the call, or to a stutter. Types are the inductive invariant: that an
  active request is at a position of its group is what makes its service one.
  `EventsTellTheStoryHolds`, `ForwardWithinBudgetHolds`, `ReasonIsThePrimarysHolds`
  and `NoProviderForgottenHolds` rest on `StoryInv`: a request is unused, or
  underway with exactly the providers before its own behind it (`Behind`), each of
  which ran into an outcome that is eligible for failover, or is the primary and
  was kept out by its circuit, or told: its trail, answer and events agree.
  Between two such states a handler passes through others (`Leaving`, `Trailed`),
  and lemmas say what each piece of a handler makes of one; an action is a chain of
  them.
* **Metrics** (`GatewayProofs`). `TotalsBalanceHolds`, from `MInv`: the stories,
  the account (requests started are those completed, failed, crashed and in
  progress) and the books (`Books`). The books say that each total is the sum over
  the services, that no failover is counted without an end, and that the readings
  shown are `Current`: the window holds exactly the newest durations of the answers
  given (`NewestSlides`, since two cuts in a row are one), and average and percentile
  are those of the window. What the collector hears keeps the books if it is
  `Proper`, that is, if at most its last event ends a request and at most one
  failover is completed, with such an end (`BooksKept`). That every step of a request
  says something proper follows from its story: a log only grows (`Grows`), had told
  no end before, and its terminal event is the last. `Past` is replayed through the
  same lemmas. The percentile is a sample of rank `ceil(0.95 n)`, hence the least
  that 95 % do not exceed (`PercentileIsLeast`).
* **Limiter** (`ServerProofs`). `BucketsTyped`, `RateLimiterIsTokenBucket`
  (each request is a `Take` or a stutter, a tick a `Drip`, a sweep a `Forget` of the
  clients it drops), `ClientsTyped`, `GrantsAreBounded`, `WaitingSuffices`. What
  is granted is bounded because grants plus the present level never exceed a full
  bucket plus the elapsed ticks; a promise holds because the part still missing
  never exceeds the ticks still to wait.
* **Incidents** (`IncidentProofs`). All properties of its run. The invariant says
  that the tracking agrees with the story (`Agrees`) and the archive is in turn
  (`InTurn`). What `SeverityEscalates` says of later failovers and openings is
  `EscalationsAreFlagged`. `HistoryIsToldInOrder` follows from it: the list the gateway gives is already
  in the order the page sorts it into, since each incident ended before the one above
  it began, and sorting leaves such a list as it is (`SortedStays`).
  The aggregator keeps a cut of the story, and the invariant says how much of it:
  while no incident is active, the times in `recent` match failures of the story
  one to one (`Matches`), and no failure inside the window is without one; the
  buildup lacks no failure later than its own first event; an active incident knows
  every failure since its start, although its timeline was cut. Counting then is a
  pigeonhole argument on that matching. A tick only makes windows smaller.
* **Health** (`MonitoringProofs`). All five properties of its run and its types, from the
  invariant `HealthInv`. Its first part is that rounds are disjoint, so there is one probe of
  a service at most. Its second, `Truthful`, is that the state a probe has read
  before its await is still the present one; this is what disjoint rounds are for,
  and counts and events follow from it. Its third bounds ages by cases: a service
  already probed in the present round is as old as the round at most; between
  rounds age and remaining timer together are at most a timeout and an interval;
  while a probe is under way the round's own age comes on top. The case of a
  service that was up before monitoring started is kept apart by `runningFor`.
* **Anomalies** (`MonitoringProofs`). `AnomalyTypeCorrect`,
  `DetectorImplementsAlarm`, `MedianIsTheMiddle`, `AlarmsAreOutliers` and
  `JumpsAreNoticed`. The invariant is that the last verdict is the one the windows
  give (`VerdictFits`), and that a detector that has not seen enough has given none;
  otherwise the cold start could end an alarm silently. The last three say what the
  verdict is worth: by `RanksCount` at most half of a window lies on either side of
  its median, an alarm needs a value above the median by its threshold and hence
  above half of the window, and in a window that is flat but for its last value the
  deviation is nil, so that the floor alone decides what is a jump.
* **Upstream calls** (`UpstreamProofs`). `TimeBoundedHolds`, `StatisticsAddUpHolds`,
  `AnsweredAsArrivedHolds`, from `UInv`. Its part `InTime` bounds, phase by phase,
  the time spent together with what is left on the running timer: a first attempt
  ends within one timeout, and since the budget is looked at before a backoff only, a
  later one may pass it by less than one delay and one timeout. `Accounts` pairs
  tickets with the requests asleep, one to one, across the tick that renames them
  all; `Ages` adds a sleeper's age and its remaining time up to the latency it
  arrived with, without which its configuration could not be called that of its
  arrival.
* **Dashboard** (`DashboardProofs`). `ShownWithinHolds`, `NeverBackInTimeHolds`,
  `SeriesFollowsTheGatewayHolds` and `ListIsNewestMatchingHolds`, from `DInv`. One request is in flight at most, so
  what it brings follows what is shown (`InOrder`). That what is shown is recent goes
  by cases (`Within`): either the page has not been left alone for long, or it shows
  what it should, and in both the wait to the next turn still fits. A request for
  what is no longer asked is over within a timeout, the timer's next turn comes
  within an interval, and its answer within another timeout, whence `Patience`. The list is
  the newest that match since the ring is the end of what was recorded (`StoreIsEnd`)
  and a filter, a cut and a reversal pick positions, each in its order.
* **Processes** (`ServerProofs`). `StopsInTimeHolds`: while a process drains, the
  ticks since it was first told to stop and those left on its timer are `Grace`
  together, since a second signal, an exception or a drained server never sets a
  second timer; exit code 0 is given by a drained server only. `AcceptedConfigFitsHolds`
  goes through the parsers: what `loadEnv` accepts is in range, and every constructor's
  check follows from the ranges and the cross-checks. The limiter's second reading does
  not: `LimiterAgrees` and `RateAgrees` have it for plain numerals, and
  `PositiveNumerals` says for which texts it is positive.

Every safety property and every refinement that a passing run checks is stated by
one of these theorems. Only model-checked are `CoolOffEnds`, `RequestsEnd` and
`NoneLeftBehind`: liveness under fairness is beyond this prover. The two runs that
show a disagreement with a document are counterexamples, which need no proof.

## 5. Not modelled, and the plan

Not modelled: layout, charts, themes, the search box and the control actions of
the dashboard; request ids, security headers, access logs and error texts; the
reasons and reports of the detector; payloads; the scripts that exercise a running
platform from outside and the tests. None of them keeps state between requests or
decides anything the properties are about. Left out, too, are fractions in the
environment and the restart of a simulator by its watcher when a source file
changes. `PROJECT.json` gives the reason for
each part.

What could be added next: the three liveness properties as proofs, once the prover
handles `ENABLED`; a second service in `Incidents`, which would show what a page
sees when two services fail together.
