--------------------------- MODULE Configuration ---------------------------
(***************************************************************************)
(* How a process of the platform reads its settings at boot: the texts of  *)
(* the environment, loadEnv with its fallbacks, ranges and cross-checks,   *)
(* the rate limiter's factory, which reads the environment a second time,  *)
(* the constructors that refuse bad options, and the upstream topology.    *)
(***************************************************************************)
EXTENDS Integers, Sequences, FiniteSets

CONSTANTS NaN, Invalid    \* what is not a number; what loadEnv refuses

ASSUME NumberAssumption == NaN \notin Int /\ Invalid \notin Int /\ NaN # Invalid

\* A text is known by what the parsers read in it: "whole" is the numeral n,
\* "prefixed" the numeral n and other characters, "scaled" n with an exponent
\* of one, "word" one of the words, or a URL of the kind, that is expected;
\* "empty" has no character and "blank" only spaces; all others are "garbage".
\* Numerals are whole.  An environment is a function on the settings given.
Text(kind, n) == [kind |-> kind, n |-> n]
Texts ==
    [kind : {"whole", "prefixed", "scaled", "word", "empty", "blank", "garbage"}, n : Int]
Raw(environment, name) ==
    IF name \in DOMAIN environment THEN environment[name] ELSE Text("unset", 0)

-----------------------------------------------------------------------------
(* The parsers of the language.                                            *)

ParseInt(text) == IF text.kind \in {"whole", "prefixed", "scaled"} THEN text.n ELSE NaN

ParseFloat(text) ==
    CASE text.kind \in {"whole", "prefixed"} -> text.n
      [] text.kind = "scaled"                -> 10 * text.n
      [] OTHER                               -> NaN

ToNumber(text) ==
    CASE text.kind = "whole"              -> text.n
      [] text.kind = "scaled"             -> 10 * text.n
      [] text.kind \in {"empty", "blank"} -> 0
      [] OTHER                            -> NaN

-----------------------------------------------------------------------------
(* loadEnv.                                                                *)

Range(fallback, min, max) == [fallback |-> fallback, min |-> min, max |-> max]

\* The settings read by parsePort and parseIntInRange.
Integral ==
    [PORT |-> Range(4000, 1, 65535),
     HEALTH_CHECK_INTERVAL_MS |-> Range(5000, 100, 3600000),
     UPSTREAM_TIMEOUT_MS |-> Range(3000, 50, 60000),
     RETRY_MAX_ATTEMPTS |-> Range(3, 1, 10),
     RETRY_BASE_DELAY_MS |-> Range(100, 0, 60000),
     RETRY_MAX_DELAY_MS |-> Range(1000, 0, 300000),
     RETRY_TOTAL_BUDGET_MS |-> Range(10000, 100, 300000),
     RATE_LIMIT_CAPACITY |-> Range(20, 1, 1000),
     RATE_LIMIT_CLEANUP_INTERVAL_MS |-> Range(60000, 1000, 3600000),
     CIRCUIT_BREAKER_FAILURE_THRESHOLD |-> Range(5, 1, 100),
     CIRCUIT_BREAKER_OPEN_DURATION_MS |-> Range(10000, 100, 300000),
     CIRCUIT_BREAKER_HALF_OPEN_MAX_REQUESTS |-> Range(1, 1, 10),
     EVENTS_CAPACITY |-> Range(2000, 10, 100000),
     METRICS_LATENCY_WINDOW |-> Range(200, 10, 100000),
     INCIDENT_FAILURE_THRESHOLD |-> Range(3, 1, 100),
     INCIDENT_LOOKBACK_MS |-> Range(60000, 1000, 3600000),
     INCIDENT_RECOVERY_QUIET_MS |-> Range(10000, 0, 3600000),
     INCIDENT_MAX_RESOLVED |-> Range(100, 1, 10000),
     ANOMALY_WINDOW_SIZE |-> Range(30, 5, 500),
     ANOMALY_MIN_SAMPLES |-> Range(10, 2, 100),
     ANOMALY_SAMPLE_INTERVAL_MS |-> Range(5000, 200, 600000)]

\* The settings read by parseFloat, scores in hundredths.
Fractional ==
    [RATE_LIMIT_REFILL_RATE |-> 10, ANOMALY_SCORE_WARNING |-> 50,
     ANOMALY_SCORE_ANOMALOUS |-> 80]

\* Mutant: what is not a number passes the comparison with the range.
IntInRangeOrNaN(text, range) ==
    IF text.kind \in {"unset", "empty", "blank"} THEN range.fallback
    ELSE IF ParseInt(text) = NaN \/ ParseInt(text) \in range.min..range.max
         THEN ParseInt(text) ELSE Invalid

IntInRange(text, range) ==
    IF text.kind \in {"unset", "empty", "blank"} THEN range.fallback
    ELSE IF ParseInt(text) \in range.min..range.max THEN ParseInt(text) ELSE Invalid

\* NODE_ENV, LOG_LEVEL and the base URLs: a default or what is given.
Worded == {"NODE_ENV", "LOG_LEVEL", "PAYMENT_SERVICE_URL", "AI_SERVICE_URL",
           "AI_FALLBACK_SERVICE_URL", "NOTIFICATION_SERVICE_URL"}

WordRefused(text) == text.kind \notin {"unset", "empty", "blank", "word"}

FloatOr(text, fallback) ==
    IF text.kind \in {"unset", "empty"} THEN fallback ELSE ParseFloat(text)

Loaded(environment) ==
    [name \in DOMAIN Integral \cup DOMAIN Fractional |->
        IF name \in DOMAIN Integral THEN IntInRange(Raw(environment, name), Integral[name])
        ELSE FloatOr(Raw(environment, name), Fractional[name])]

ScoresOrdered(warning, anomalous) ==
    /\ NaN \notin {warning, anomalous}
    /\ warning > 0 /\ warning < anomalous /\ anomalous <= 100

Exceeds(a, b) == NaN \notin {a, b} /\ a > b

\* The process exits with code 1 before it has built anything.
Refused(environment) ==
    LET config == Loaded(environment)
    IN  \/ \E name \in Worded : WordRefused(Raw(environment, name))
        \/ \E name \in DOMAIN Integral : config[name] = Invalid
        \/ ~ScoresOrdered(config.ANOMALY_SCORE_WARNING, config.ANOMALY_SCORE_ANOMALOUS)
        \/ Exceeds(config.ANOMALY_MIN_SAMPLES, config.ANOMALY_WINDOW_SIZE)

-----------------------------------------------------------------------------
(* What the components are given.                                          *)

\* Mutant: a rate that is not given has no default.
LimiterWithoutDefault(environment) ==
    LET read(name, default) ==
            IF name \in DOMAIN environment THEN ToNumber(environment[name]) ELSE default
    IN  [capacity |-> read("RATE_LIMIT_CAPACITY", 20),
         refillRate |-> read("RATE_LIMIT_REFILL_RATE", NaN),
         cleanupIntervalMs |-> read("RATE_LIMIT_CLEANUP_INTERVAL_MS", 60000)]

\* createTokenBucketRateLimiter: a value it calls invalid is logged, and used.
Limiter(environment) ==
    LET read(name, default) ==
            IF name \in DOMAIN environment THEN ToNumber(environment[name]) ELSE default
    IN  [capacity |-> read("RATE_LIMIT_CAPACITY", 20),
         refillRate |-> read("RATE_LIMIT_REFILL_RATE", 10),
         cleanupIntervalMs |-> read("RATE_LIMIT_CLEANUP_INTERVAL_MS", 60000)]

StoreThrows(capacity) == capacity \notin Int \/ capacity < 1

WindowThrows(latencyWindow) == latencyWindow \notin Int \/ latencyWindow < 1

DetectorThrows(windowSize, minSamples, warning, anomalous) ==
    \/ windowSize \notin Int \/ windowSize < 5
    \/ minSamples \notin 2..windowSize
    \/ ~ScoresOrdered(warning, anomalous)

ConstructorThrows(config) ==
    \/ StoreThrows(config.EVENTS_CAPACITY)
    \/ WindowThrows(config.METRICS_LATENCY_WINDOW)
    \/ DetectorThrows(config.ANOMALY_WINDOW_SIZE, config.ANOMALY_MIN_SAMPLES,
                      config.ANOMALY_SCORE_WARNING, config.ANOMALY_SCORE_ANOMALOUS)

-----------------------------------------------------------------------------
(* The upstream topology, with the default addresses; the simulators' own  *)
(* definitions of where they listen and what they serve.                   *)

Registration(name, port, target) == [name |-> name, port |-> port, targetPath |-> target]

Registrations ==
    <<Registration("payment", 4101, "/api/payments/test"),
      Registration("ai-primary", 4102, "/api/ai/test"),
      Registration("ai-fallback", 4104, "/api/ai/test"),
      Registration("notification", 4103, "/api/notifications/test")>>

Group(id, target, providers) == [id |-> id, targetPath |-> target, providers |-> providers]

ProviderGroups ==
    {Group("ai", "/api/ai/test", <<"ai-primary", "ai-fallback">>),
     Group("payment", "/api/payments/test", <<"payment">>),
     Group("notification", "/api/notifications/test", <<"notification">>)}

\* byName: a group may name only registered services.
ByNameThrows ==
    \E group \in ProviderGroups : \E i \in DOMAIN group.providers :
        \A j \in DOMAIN Registrations : Registrations[j].name # group.providers[i]

RegistryThrows ==
    \E i, j \in DOMAIN Registrations : i # j /\ Registrations[i].name = Registrations[j].name

\* The composition root of server.ts, which builds the components from the
\* loaded settings: any of their constructors may end it.
CompositionThrows(environment) ==
    \/ ConstructorThrows(Loaded(environment))
    \/ ByNameThrows
    \/ RegistryThrows

\* The port and the test endpoint of the simulator behind each service.
Simulated ==
    {Registration("payment", 4101, "/api/payments/test"),
     Registration("ai-primary", 4102, "/api/ai/test"),
     Registration("ai-fallback", 4104, "/api/ai/test"),
     Registration("notification", 4103, "/api/notifications/test")}
=============================================================================
