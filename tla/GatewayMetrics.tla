---------------------------- MODULE GatewayMetrics ----------------------------
(***************************************************************************)
(* Gateway with the counters MetricsCollector keeps from the events that   *)
(* requests and circuits record.  Recording is synchronous, so the events  *)
(* of a step are counted in the step, and so is the duration the terminal   *)
(* event carries.                                                          *)
(***************************************************************************)
EXTENDS Gateway, Arrays, SequencesExt

CONSTANTS
  LatencyWindow,   \* latencyWindow
  Durations,       \* durationMs of a terminal event, from a small set
  Past,            \* the service and duration of requests answered before Init
  MaxArrivals      \* BOUND: requests started, those of Past included

ASSUME LatencyAssumption ==
  /\ LatencyWindow \in Nat \ {0} /\ Durations \subseteq Nat
  /\ Past \in Seq(Services \X Durations)
  /\ IsFiniteSet(Services) /\ IsFiniteSet(Requests)

VARIABLES
  metrics,        \* MetricsCollector.services: the state of each service
  totals,         \* MetricsCollector.totals
  circuitOpens,   \* totals.circuitOpenCount
  crashed,        \* history: requests whose executor threw
  ended           \* history: the service and duration of every terminal event

mvars == <<circuit, healthy, req, metrics, totals, circuitOpens, crashed, ended>>

Counts ==
  {"requestCount", "successCount", "failureCount", "retryCount", "timeoutCount",
   "failoverCount"}

\* createState(): the averages are None (null) until something has ended.
NewState ==
  [requestCount |-> 0, successCount |-> 0, failureCount |-> 0,
   retryCount |-> 0, timeoutCount |-> 0, failoverCount |-> 0,
   latencies |-> <<>>, averageLatency |-> None, p95Latency |-> None]

-----------------------------------------------------------------------------
(* Latencies.                                                              *)

\* The sorted samples at index ceil(0.95 n) - 1, counted from 0.
Percentile95(samples) ==
  SortedBy(samples, Smaller(samples))[(95 * Len(samples) + 99) \div 100]

\* The average in hundredths, rounded half up.
Refreshed(m) ==
  IF m.latencies = <<>> THEN m
  ELSE LET n == Len(m.latencies)
       IN  [m EXCEPT !.averageLatency = (200 * SumFunction(m.latencies) + n) \div (2 * n),
                     !.p95Latency = Percentile95(m.latencies)]

\* Mutant: a full window keeps its old samples and turns the new one away.
WithLatencyWhileRoom(m, duration) ==
  [m EXCEPT !.latencies = IF Len(@) < LatencyWindow THEN Append(@, duration) ELSE @]

WithLatency(m, duration) ==
  LET samples == Append(m.latencies, duration)
      excess == Len(samples) - LatencyWindow
  IN  [m EXCEPT !.latencies = IF excess > 0
                              THEN SubSeq(samples, excess + 1, Len(samples)) ELSE samples]

-----------------------------------------------------------------------------
(* Counters.                                                               *)

HowMany(events, type, services) ==
  Cardinality({i \in DOMAIN events : events[i][1] = type /\ events[i][2] \in services})

\* Mutant: a failed over request counts as a success wherever it ends.
WithCountsFailoverAsSuccess(m, events, services) ==
  [m EXCEPT
     !.requestCount = @ + HowMany(events, "REQUEST_STARTED", services),
     !.successCount = @ + HowMany(events, "REQUEST_COMPLETED", services)
                        + HowMany(events, "FAILOVER_COMPLETED", services),
     !.failureCount = @ + HowMany(events, "REQUEST_FAILED", services),
     !.retryCount = @ + HowMany(events, "RETRY_ATTEMPT", services),
     !.timeoutCount = @ + HowMany(events, "UPSTREAM_TIMEOUT", services),
     !.failoverCount = @ + HowMany(events, "FAILOVER_COMPLETED", services)]

WithCounts(m, events, services) ==
  [m EXCEPT
     !.requestCount = @ + HowMany(events, "REQUEST_STARTED", services),
     !.successCount = @ + HowMany(events, "REQUEST_COMPLETED", services),
     !.failureCount = @ + HowMany(events, "REQUEST_FAILED", services),
     !.retryCount = @ + HowMany(events, "RETRY_ATTEMPT", services),
     !.timeoutCount = @ + HowMany(events, "UPSTREAM_TIMEOUT", services),
     !.failoverCount = @ + HowMany(events, "FAILOVER_COMPLETED", services)]

Ends(events, services) ==
  HowMany(events, "REQUEST_COMPLETED", services) + HowMany(events, "REQUEST_FAILED", services) > 0

\* observe(): the state m after the events of some services; at most one of
\* them is terminal and carries the duration.
Observe(m, events, services, duration) ==
  LET counted == WithCounts(m, events, services)
  IN  IF Ends(events, services) THEN Refreshed(WithLatency(counted, duration)) ELSE counted

Opened == {s \in Services : circuit[s].state # "OPEN" /\ circuit'[s].state = "OPEN"}

\* The collector hears the events of a step.
Hears(events) ==
  /\ circuitOpens' = circuitOpens + Cardinality(Opened)
  /\ \E duration \in IF Ends(events, Services) THEN Durations ELSE {0} :
       /\ metrics' = [s \in Services |-> Observe(metrics[s], events, {s}, duration)]
       /\ totals' = Observe(totals, events, Services, duration)
       /\ ended' = IF Ends(events, Services)
                   THEN Append(ended, <<events[Len(events)][2], duration>>) ELSE ended

\* What a step adds to the log of a request in progress.
Added(r) == SubSeq(req'[r].log, Len(req[r].log) + 1, Len(req'[r].log))

-----------------------------------------------------------------------------

\* The state of some services after the requests of Past, each completed by
\* its primary before the next began.
AfterPast(services) ==
  FoldLeft(LAMBDA m, e : Observe(m, <<<<"REQUEST_STARTED", e[1]>>, <<"REQUEST_COMPLETED", e[1]>>>>,
                                 services, e[2]),
           NewState, Past)

MInit ==
  /\ Init
  /\ metrics = [s \in Services |-> AfterPast({s})]
  /\ totals = AfterPast(Services)
  /\ circuitOpens = 0
  /\ crashed = 0
  /\ ended = Past

MArrive(r, g) ==
  /\ totals.requestCount < MaxArrivals
  /\ Arrive(r, g) \/ ArriveRejected(r, g)
  /\ Hears(req'[r].log)
  /\ UNCHANGED crashed

MProceed(r) ==
  /\ AttemptFails(r) \/ BackoffOver(r) \/ Settle(r) \/ FailOver(r)
  /\ Hears(Added(r))
  /\ UNCHANGED crashed

MCrash(r) ==
  /\ Crash(r)
  /\ Hears(<<>>)
  /\ crashed' = crashed + 1

MOther ==
  /\ Tick \/ \E s \in Services : HealthChanges(s)
  /\ UNCHANGED <<metrics, totals, circuitOpens, crashed, ended>>

MNext ==
  \/ \E r \in Requests :
       \/ \E g \in Groups : MArrive(r, g)
       \/ MProceed(r)
       \/ MCrash(r)
  \/ MOther

MSpec == MInit /\ [][MNext]_mvars

-----------------------------------------------------------------------------

\* The durations of the answers, in `answers`, that some services gave.
EndedOn(answers, services) ==
  LET own == Kept(answers, {i \in DOMAIN answers : answers[i][1] \in services})
  IN  [i \in DOMAIN own |-> own[i][2]]

\* The newest LatencyWindow of some durations, or all.
Newest(durations) ==
  IF Len(durations) <= LatencyWindow THEN durations
  ELSE SubSeq(durations, Len(durations) - LatencyWindow + 1, Len(durations))

\* The statistics m are those of the newest of some durations: none of nothing,
\* an average within half a hundredth of the exact one, and the least sample
\* with 95 % of the samples no greater.
RecentOf(m, durations) ==
  LET recent == Newest(durations)
      n == Len(recent)
      Reaches95(x) == 100 * Cardinality({i \in 1..n : recent[i] <= x}) >= 95 * n
  IN  IF n = 0 THEN m.averageLatency = None /\ m.p95Latency = None
      ELSE /\ 2 * n * m.averageLatency
                \in (200 * SumFunction(recent) - n)..(200 * SumFunction(recent) + n)
           /\ m.p95Latency \in {recent[i] : i \in 1..n} /\ Reaches95(m.p95Latency)
           /\ \A i \in 1..n : recent[i] < m.p95Latency => ~Reaches95(recent[i])

\* Requests started are completed, failed, crashed or still in progress: the
\* totals a dashboard reads lose none of them and count none twice, every
\* failover that was completed belongs to a request that has ended, the totals
\* are the sums over the services, and the latencies shown, of a service and
\* in total, are those of the newest requests that ended, and of no other.
\* metricsCollector.service.ts:48-163; gateway.controller.ts:125-135, 229-284.
TotalsBalance ==
  /\ totals.requestCount =
       totals.successCount + totals.failureCount + crashed
         + Cardinality({r \in Requests : Active(req[r])})
  /\ totals.failoverCount <= totals.successCount + totals.failureCount
  /\ \A count \in Counts :
       totals[count] = SumFunction([s \in Services |-> metrics[s][count]])
  /\ RecentOf(totals, EndedOn(ended, Services))
  /\ \A s \in Services : RecentOf(metrics[s], EndedOn(ended, {s}))

=============================================================================
