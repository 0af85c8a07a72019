---------------------------- MODULE MCLifecycle ----------------------------
EXTENDS Lifecycle, TLC

CONSTANTS payment, ai

MCPortOf == (payment :> 4101) @@ (ai :> 4102)

\* The texts tried for a setting: around its range, and the odd ones.
Odd == {Text(kind, 0) : kind \in {"empty", "blank", "garbage"}}
Numerals(n) == {Text(kind, n) : kind \in {"whole", "prefixed", "scaled"}}
IntegralTexts(name) ==
    Odd \cup UNION {Numerals(n) : n \in
        {Integral[name].min - 1, Integral[name].min, Integral[name].max,
         Integral[name].max + 1}}
ScoreTexts == Odd \cup UNION {Numerals(n) : n \in {-1, 0, 50, 80, 100, 101}}

\* One setting given, or two of those loadEnv compares or the limiter needs.
MCEnvironments ==
    {<<>>}
    \cup {"PORT" :> Text("whole", 4101)}
    \cup UNION {[{name} -> IntegralTexts(name)] : name \in DOMAIN Integral}
    \cup UNION {[{name} -> ScoreTexts] : name \in DOMAIN Fractional}
    \cup [{"RATE_LIMIT_CAPACITY", "RATE_LIMIT_REFILL_RATE"} ->
             Odd \cup Numerals(0) \cup Numerals(5)]
    \cup UNION {[{name} -> Odd \cup {Text("word", 0)}] : name \in Worded}
    \cup [{"ANOMALY_SCORE_WARNING", "ANOMALY_SCORE_ANOMALOUS"} -> ScoreTexts]
    \cup [{"ANOMALY_WINDOW_SIZE", "ANOMALY_MIN_SAMPLES"} ->
             IntegralTexts("ANOMALY_WINDOW_SIZE") \cup IntegralTexts("ANOMALY_MIN_SAMPLES")]
=============================================================================
