--------------------------- MODULE AnomalyDetection ---------------------------
(***************************************************************************)
(* Anomaly detection for one service: MetricSampler and AnomalyDetector of *)
(* backend/src/anomaly, fed by the counters of MetricsCollector.  Services *)
(* share nothing but the sampler's timer, which may fire at any step.      *)
(*                                                                         *)
(* One latency and one rate stand for their kinds, which are treated alike *)
(* except for the floor.  Reasons and reports, which decide nothing, are   *)
(* left out.                                                               *)
(***************************************************************************)
EXTENDS RobustBaseline

CONSTANTS
  Latencies,        \* the values averageLatencyMs may take
  LatencyFloor,     \* LATENCY_METRIC_FLOOR_MS, in the unit of Latencies
  RateScale,        \* rates are multiples of 1 / RateScale
  MinSamples,       \* ANOMALY_MIN_SAMPLES
  ScoreWarning,     \* ANOMALY_SCORE_WARNING, in percent
  ScoreAnomalous,   \* ANOMALY_SCORE_ANOMALOUS, in percent
  MaxStarted,       \* BOUND: requests started between two ticks
  MaxFailed,        \* BOUND: requests failed between two ticks
  Null              \* null

ASSUME DetectorAssumption ==
  /\ Latencies \subseteq Nat
  /\ LatencyFloor \in Nat \ {0}
  /\ RateScale \in Nat \ {0}
  /\ \A volume \in 1..MaxStarted : RateScale % volume = 0
  /\ MinSamples \in 2..WindowSize
  /\ ScoreWarning \in 1..100 /\ ScoreAnomalous \in 1..100
  /\ ScoreWarning < ScoreAnomalous
  /\ MaxStarted \in Nat /\ MaxFailed \in Nat
  /\ Null \notin Nat

VARIABLES
  tracked,        \* the collector has an entry for the service
  position,       \* whether the sampler has a CounterPosition for it
  growth,         \* requestCount and failureCount less that position
  latency,        \* averageLatencyMs
  windows,        \* runtime.baselines
  observations,   \* runtime.observations, kept at MinSamples
  lastStatus,
  emitted         \* the last emission

advars == <<tracked, position, growth, latency, windows, observations, lastStatus, emitted>>

Metrics == {"avgLatencyMs", "errorRate"}

AnomalyStatuses == {"INSUFFICIENT_DATA", "NORMAL", "WARNING", "ANOMALOUS"}

\* STATUS_SEVERITY, and what of it matters to listeners.
Severity(status) ==
  CASE status = "INSUFFICIENT_DATA" -> 0
    [] status = "NORMAL" -> 1
    [] status = "WARNING" -> 2
    [] status = "ANOMALOUS" -> 3

Level(status) ==
  CASE status = "WARNING" -> 1
    [] status = "ANOMALOUS" -> 2
    [] OTHER -> 0

\* Windows never outgrow their size, and rates are proportions.
\* anomalyBaseline.ts:26-31; anomalyFeatures.ts:35-38.
ADTypeOK ==
  /\ tracked \in BOOLEAN
  /\ position \in BOOLEAN
  /\ growth \in [requests : 0..MaxStarted, failures : 0..MaxFailed]
  /\ latency \in Latencies \cup {Null}
  /\ windows \in [Metrics -> Seq(Nat)]
  /\ \A m \in Metrics : Len(windows[m]) <= WindowSize
  /\ \A i \in DOMAIN windows["errorRate"] : windows["errorRate"][i] \in 0..RateScale
  /\ observations \in 0..MinSamples
  /\ lastStatus \in AnomalyStatuses
  /\ emitted \in ({"ANOMALY_DETECTED", "ANOMALY_RESOLVED"} \X (0..2)) \cup {Null}

-----------------------------------------------------------------------------

NoGrowth == [requests |-> 0, failures |-> 0]

ADInit ==
  /\ tracked = FALSE
  /\ position = FALSE
  /\ growth = NoGrowth
  /\ latency = Null
  /\ windows = [m \in Metrics |-> <<>>]
  /\ observations = 0
  /\ lastStatus = "INSUFFICIENT_DATA"
  /\ emitted = Null

\* The first event about the service, if it is none of those counted here.
Noticed ==
  /\ ~tracked
  /\ tracked' = TRUE
  /\ UNCHANGED <<position, growth, latency, windows, observations, lastStatus, emitted>>

\* REQUEST_STARTED
RequestStarted ==
  /\ growth.requests < MaxStarted
  /\ tracked' = TRUE
  /\ growth' = [growth EXCEPT !.requests = @ + 1]
  /\ UNCHANGED <<position, latency, windows, observations, lastStatus, emitted>>

\* REQUEST_FAILED or REQUEST_COMPLETED, on the service that served the request:
\* a request that was failed over ends where it was not counted to start.
RequestEnded(failures, average) ==
  /\ growth.failures + failures <= MaxFailed
  /\ tracked' = TRUE
  /\ growth' = [growth EXCEPT !.failures = @ + failures]
  /\ latency' = average
  /\ UNCHANGED <<position, windows, observations, lastStatus, emitted>>

-----------------------------------------------------------------------------

\* Mutant: a rate is what the counters give.
ErrorRateUnclamped == (RateScale * growth.failures) \div growth.requests

\* clamp01() of the failures per request of the interval.
ErrorRate ==
  IF growth.failures >= growth.requests THEN RateScale
  ELSE (RateScale * growth.failures) \div growth.requests

\* metricValues() of the snapshot buildFeatureSnapshot() makes.
Features == [m \in Metrics |-> IF m = "avgLatencyMs" THEN latency ELSE ErrorRate]

\* 200 times dispersionFloor().
Floor(m) == IF m = "avgLatencyMs" THEN 200 * LatencyFloor ELSE 4 * RateScale

\* evaluate(): the worst score of the metrics with enough samples of their own.
Scores(ws) ==
  {UpperScore(ws[m], Floor(m)) : m \in {n \in Metrics : Len(ws[n]) >= MinSamples}}

StatusOf(score) ==
  IF score >= ScoreAnomalous THEN "ANOMALOUS"
  ELSE IF score >= ScoreWarning THEN "WARNING" ELSE "NORMAL"

\* Mutant: an event for every verdict that is not NORMAL.
EmissionRepeated(previous, status) ==
  IF Level(status) > 0 THEN <<"ANOMALY_DETECTED", Level(status)>>
  ELSE IF Level(previous) > 0 THEN <<"ANOMALY_RESOLVED", 0>>
  ELSE emitted

\* handleTransition()
Emission(previous, status) ==
  IF Severity(status) > Severity(previous) /\ status \in {"WARNING", "ANOMALOUS"}
  THEN <<"ANOMALY_DETECTED", Level(status)>>
  ELSE IF status = "NORMAL" /\ previous \in {"WARNING", "ANOMALOUS"}
  THEN <<"ANOMALY_RESOLVED", 0>>
  ELSE emitted

\* observe()
Observe ==
  LET ws == [m \in Metrics |->
               IF Features[m] = Null THEN windows[m] ELSE Pushed(windows[m], Features[m])]
      status == IF observations + 1 < MinSamples THEN "INSUFFICIENT_DATA"
                ELSE StatusOf(Max(Scores(ws) \cup {0}))
  IN  /\ windows' = ws
      /\ observations' = IF observations < MinSamples THEN observations + 1 ELSE MinSamples
      /\ lastStatus' = status
      /\ emitted' = Emission(lastStatus, status)

\* tick() that finds the service for the first time.
Seed ==
  /\ tracked /\ ~position
  /\ position' = TRUE
  /\ growth' = NoGrowth
  /\ UNCHANGED <<tracked, latency, windows, observations, lastStatus, emitted>>

\* tick() after an idle interval.
TickIdle ==
  /\ position /\ growth.requests = 0
  /\ growth' = NoGrowth
  /\ UNCHANGED <<tracked, position, latency, windows, observations, lastStatus, emitted>>

\* tick() after an interval with requests.
TickSample ==
  /\ position /\ growth.requests > 0
  /\ growth' = NoGrowth
  /\ Observe
  /\ UNCHANGED <<tracked, position, latency>>

ADNext ==
  \/ Noticed
  \/ RequestStarted
  \/ \E failures \in {0, 1}, average \in Latencies : RequestEnded(failures, average)
  \/ Seed
  \/ TickIdle
  \/ TickSample

ADSpec == ADInit /\ [][ADNext]_advars

-----------------------------------------------------------------------------

Ideal == INSTANCE Alarm
  WITH Levels <- 0..2, NoEvent <- Null, level <- Level(lastStatus), last <- emitted

\* Each worsening and each end of an alarm is reported, once, and nothing else
\* is, the way out of the cold start included.
\* anomalyDetector.service.ts:206-237; backend/README.md:828-831.
ImplementsAlarm == Ideal!Spec

\* The median is the middle: the values it lies between are those that have at
\* most half of the window below and at most half above them, in whatever order
\* they came.  anomalyBaseline.ts:43-62.
MedianIsMiddle ==
  \A m \in Metrics : windows[m] # <<>> =>
    LET w == windows[m]
        middle == {w[i] : i \in {k \in DOMAIN w :
                     /\ 2 * Cardinality({j \in DOMAIN w : w[j] < w[k]}) <= Len(w)
                     /\ 2 * Cardinality({j \in DOMAIN w : w[j] > w[k]}) <= Len(w)}}
    IN  TwiceMedian(w) = Min(middle) + Max(middle)

\* An alarm always rests on a metric that has enough samples and whose last
\* value is above at least half of its window: neither a fall, nor a change that
\* has lasted for half a window, nor a young metric raises one.
\* anomalyBaseline.ts:85-101; anomalyDetector.service.ts:166-192.
AlarmIsAnOutlier ==
  Level(lastStatus) > 0 =>
    \E m \in Metrics :
      LET w == windows[m] IN
      /\ Len(w) >= MinSamples
      /\ 2 * Cardinality({i \in DOMAIN w : w[i] < Last(w)}) >= Len(w)

\* "any change IS meaningful" on a constant history (anomalyBaseline.ts:88-89):
\* a last value that rises from otherwise equal ones by 8 times the floor or 5%
\* of them is ANOMALOUS.
JumpIsNoticed ==
  \A m \in Metrics :
    LET w == windows[m]
        flat == w[1]
        rise == Last(w) - flat
    IN  /\ observations = MinSamples
        /\ Len(w) >= MinSamples /\ Len(w) >= 3
        /\ \A i \in 1..(Len(w) - 1) : w[i] = flat
        /\ 200 * rise >= 80 * flat /\ 200 * rise >= 8 * Floor(m)
        => lastStatus = "ANOMALOUS"

=============================================================================
