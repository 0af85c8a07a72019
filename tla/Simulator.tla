----------------------------- MODULE Simulator -----------------------------
(***************************************************************************)
(* One simulated upstream service: the configuration its operators change, *)
(* its statistics, and the requests that sleep through their simulated     *)
(* latency.  A configuration is a record; the field failureStatus is       *)
(* present only after somebody has set it.                                 *)
(***************************************************************************)
EXTENDS Naturals, FiniteSets

CONSTANTS
    DefaultLatency,   \* definition.defaultLatencyMs, in ticks
    MaxLatency,       \* MAX_LATENCY_MS, in ticks
    Malformed,        \* a value that is not of the type its field calls for
    Bodies            \* the request bodies operators post

ASSUME SimulatorAssumption ==
    /\ DefaultLatency \in Nat /\ MaxLatency \in Nat
    /\ DefaultLatency <= MaxLatency

VARIABLES
    config,             \* the configuration in force
    requestsHandled,    \* statistics since the last reset
    simulatedFailures,
    sleeping            \* the requests in flight

simulator == <<config, requestsHandled, simulatedFailures, sleeping>>

InitialConfig == [online |-> TRUE, latencyMs |-> DefaultLatency, failureRate |-> 0]

\* A patch is valid as a whole or not at all.  Fields it does not know are
\* ignored, so bodies have known fields only.
ValidField(field, value) ==
    \/ field = "online" /\ value \in BOOLEAN
    \/ field = "latencyMs" /\ value \in 0..MaxLatency
    \/ field = "failureRate" /\ value \in 0..100
    \/ field = "failureStatus" /\ value \in 400..599

ValidPatch(body) ==
    body # Malformed /\ \A field \in DOMAIN body : ValidField(field, body[field])

Patched(patch) ==
    [field \in DOMAIN patch \cup DOMAIN config |->
       IF field \in DOMAIN patch THEN patch[field] ELSE config[field]]

\* What a request that arrived under cfg may turn out to be: the dice.
Verdicts(cfg) ==
    IF ~cfg.online THEN {"offline"}
    ELSE (IF cfg.failureRate < 100 THEN {"success"} ELSE {})
         \cup (IF cfg.failureRate > 0 THEN {"error"} ELSE {})

FailureStatus ==
    IF "failureStatus" \in DOMAIN config THEN config.failureStatus ELSE 500

StatusOf(kind) ==
    CASE kind = "offline" -> 503 [] kind = "error" -> FailureStatus [] OTHER -> 200

\* No latency to sleep through: the answer leaves in the turn of the arrival.
AnswersAtOnce(cfg) == ~cfg.online \/ cfg.latencyMs = 0

-----------------------------------------------------------------------------
SimulatorInit ==
    /\ config = InitialConfig
    /\ requestsHandled = 0 /\ simulatedFailures = 0
    /\ sleeping = {}

CountFailure(kind) ==
    simulatedFailures' = simulatedFailures + (IF kind = "error" THEN 1 ELSE 0)

\* A request arrives and is answered in the same turn.
HandleAtOnce(kind) ==
    /\ AnswersAtOnce(config) /\ kind \in Verdicts(config)
    /\ requestsHandled' = requestsHandled + 1
    /\ CountFailure(kind)
    /\ UNCHANGED <<config, sleeping>>

\* A request arrives, keeps a copy of the configuration and goes to sleep.
FallAsleep(ticket) ==
    /\ ~AnswersAtOnce(config)
    /\ requestsHandled' = requestsHandled + 1
    /\ sleeping' = sleeping \cup
          {[ticket |-> ticket, config |-> config, left |-> config.latencyMs]}
    /\ UNCHANGED <<config, simulatedFailures>>

\* Mutant: the dice are rolled with the configuration of the moment.
WakeUpLive(s, kind) ==
    /\ s \in sleeping /\ s.left = 0
    /\ kind \in Verdicts(config)
    /\ sleeping' = sleeping \ {s}
    /\ CountFailure(kind)
    /\ UNCHANGED <<config, requestsHandled>>

\* It wakes, rolls the dice of its copy and answers; the status of a failure
\* comes from the configuration of this moment (StatusOf).
WakeUp(s, kind) ==
    /\ s \in sleeping /\ s.left = 0
    /\ kind \in Verdicts(s.config)
    /\ sleeping' = sleeping \ {s}
    /\ CountFailure(kind)
    /\ UNCHANGED <<config, requestsHandled>>

\* POST /simulation/config; an invalid body is answered 400 and changes nothing.
Configure(body) ==
    /\ config' = IF ValidPatch(body) THEN Patched(body) ELSE config
    /\ UNCHANGED <<requestsHandled, simulatedFailures, sleeping>>

\* Mutant: one counter is forgotten.
ResetKeepsFailures ==
    /\ config' = InitialConfig
    /\ requestsHandled' = 0
    /\ UNCHANGED <<simulatedFailures, sleeping>>

\* POST /simulation/reset: requests in flight keep sleeping.
Reset ==
    /\ config' = InitialConfig
    /\ requestsHandled' = 0 /\ simulatedFailures' = 0
    /\ UNCHANGED sleeping

\* Timers fire on time: time does not pass a sleep that is over.
SimulatorTick ==
    /\ \A s \in sleeping : s.left > 0
    /\ sleeping' = {[s EXCEPT !.left = @ - 1] : s \in sleeping}
    /\ UNCHANGED <<config, requestsHandled, simulatedFailures>>
=============================================================================
