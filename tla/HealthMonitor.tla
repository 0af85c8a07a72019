----------------------------- MODULE HealthMonitor -----------------------------
(***************************************************************************)
(* HealthMonitor of backend/src/services/healthMonitor.service.ts: rounds  *)
(* of probes over all registered services, started by an interval or by    *)
(* POST /api/services/check, and the snapshot failover's health gate reads.*)
(*                                                                         *)
(* A probe is one callUpstream() under AbortSignal.timeout, so it ends     *)
(* ProbeTimeout ticks after its round began at the latest.  Base URLs,     *)
(* latencies, error texts and log lines are left out.                      *)
(***************************************************************************)
EXTENDS Integers, Sequences, SequencesExt

CONSTANTS
  Services,       \* the registrations
  Interval,       \* intervalMs, in ticks
  ProbeTimeout,   \* timeoutMs, in ticks
  FailBound,      \* BOUND: consecutiveFailures is kept at this value
  None            \* null

ASSUME MonitorAssumption ==
  /\ Services # {}
  /\ Interval \in Nat \ {0}
  /\ ProbeTimeout \in Nat \ {0}
  /\ FailBound \in Nat \ {0}
  /\ None \notin Nat

Statuses == {"unknown", "healthy", "unhealthy"}

States == [status : Statuses, consecutiveFailures : 0..FailBound]

\* A probe in flight: the state read before its await, and what the service has
\* answered, of which the monitor does not know yet.
Probes == [previous : States, answer : {"none", "healthy", "unhealthy"}]

ASSUME NoneAssumption == None \notin Probes

VARIABLES
  states,         \* the snapshot: name -> ServiceHealthState
  timer,          \* ticks until the interval fires, or None
  roundInFlight,
  rounds,         \* the rounds in flight: their age and the probes that have not ended
  changes,        \* changes[s]: the last HEALTH_CHANGED event of s, from and to
  up              \* up[s]: what s says of itself: a simulator's config.online

vars == <<states, timer, roundInFlight, rounds, changes, up>>

Rounds == [age : 0..ProbeTimeout, probes : [Services -> Probes \cup {None}]]

\* Snapshots are well formed, and no probe outlives its deadline.
\* healthMonitor.service.ts:40-51, 117-123, 153-163.
TypeOK ==
  /\ states \in [Services -> States]
  /\ timer \in 0..Interval \cup {None}
  /\ roundInFlight \in BOOLEAN
  /\ rounds \in Seq(Rounds)
  /\ changes \in [Services -> [from : Statuses, to : Statuses]]
  /\ up \in [Services -> BOOLEAN]

-----------------------------------------------------------------------------

Init ==
  /\ states = [s \in Services |-> [status |-> "unknown", consecutiveFailures |-> 0]]
  /\ timer = None
  /\ roundInFlight = FALSE
  /\ rounds = <<>>
  /\ changes = [s \in Services |-> [from |-> "unknown", to |-> "unknown"]]
  /\ up \in [Services -> BOOLEAN]

NewRound ==
  [age |-> 0, probes |-> [s \in Services |-> [previous |-> states[s], answer |-> "none"]]]

\* Mutant: a round starts whatever is in flight.
RunRoundAlways ==
  /\ roundInFlight' = TRUE
  /\ rounds' = Append(rounds, NewRound)

\* runRound() up to its await; a round in flight makes it return at once.
RunRound ==
  /\ roundInFlight' = TRUE
  /\ rounds' = IF roundInFlight THEN rounds ELSE Append(rounds, NewRound)

\* start()
Start ==
  /\ timer = None
  /\ timer' = Interval
  /\ RunRound
  /\ UNCHANGED <<states, changes, up>>

\* stop(): a round in flight goes on.
Stop ==
  /\ timer # None
  /\ timer' = None
  /\ UNCHANGED <<states, roundInFlight, rounds, changes, up>>

IntervalFires ==
  /\ timer = 0
  /\ timer' = Interval
  /\ RunRound
  /\ UNCHANGED <<states, changes, up>>

\* POST /api/services/check
ForceCheck ==
  /\ RunRound
  /\ UNCHANGED <<states, timer, changes, up>>

-----------------------------------------------------------------------------

InFlight(i, s) == i \in DOMAIN rounds /\ rounds[i].probes[s] # None

\* The service answers GET /health from its configuration of this moment.
Answered(i, s) ==
  /\ InFlight(i, s)
  /\ rounds[i].probes[s].answer = "none"
  /\ rounds' = [rounds EXCEPT
       ![i].probes[s].answer = IF up[s] THEN "healthy" ELSE "unhealthy"]
  /\ UNCHANGED <<states, timer, roundInFlight, changes, up>>

\* Mutant: a success leaves the count of failures as it was.
NextStateKeepsCount(previous, healthy) ==
  [status |-> IF healthy THEN "healthy" ELSE "unhealthy",
   consecutiveFailures |->
     IF healthy \/ previous.consecutiveFailures = FailBound
     THEN previous.consecutiveFailures ELSE previous.consecutiveFailures + 1]

\* Mutant: a single failure of a healthy service is overlooked.
NextStateTolerant(previous, healthy) ==
  [status |->
     IF healthy \/ (previous.status = "healthy" /\ previous.consecutiveFailures = 0)
     THEN "healthy" ELSE "unhealthy",
   consecutiveFailures |->
     IF healthy THEN 0
     ELSE IF previous.consecutiveFailures = FailBound THEN FailBound
     ELSE previous.consecutiveFailures + 1]

\* The state a probe leaves, from the state that was read before its await.
NextState(previous, healthy) ==
  [status |-> IF healthy THEN "healthy" ELSE "unhealthy",
   consecutiveFailures |->
     IF healthy THEN 0
     ELSE IF previous.consecutiveFailures = FailBound THEN FailBound
     ELSE previous.consecutiveFailures + 1]

\* onStateChange
Reported(s, previous, next) ==
  IF previous.status # next.status
  THEN [from |-> previous.status, to |-> next.status] ELSE changes[s]

\* Mutant: a failing probe rejects the round, whose flag nobody takes back.
AfterRoundWithoutFinally(i, s, healthy) ==
  LET probes == [rounds[i].probes EXCEPT ![s] = None]
      over == \A other \in Services : probes[other] = None
  IN  /\ rounds' = IF over THEN RemoveAt(rounds, i) ELSE [rounds EXCEPT ![i].probes = probes]
      /\ roundInFlight' = (roundInFlight /\ ~(over /\ healthy))

\* The last probe of a round ends it.
AfterRound(i, s, healthy) ==
  LET probes == [rounds[i].probes EXCEPT ![s] = None]
      over == \A other \in Services : probes[other] = None
  IN  /\ rounds' = IF over THEN RemoveAt(rounds, i) ELSE [rounds EXCEPT ![i].probes = probes]
      /\ roundInFlight' = (roundInFlight /\ ~over)

\* What a probe may find: the answer of the service, or, before its answer
\* and in spite of it, an error of the network or the deadline.
Verdicts(probe) ==
  IF probe.answer = "healthy" THEN {TRUE, FALSE} ELSE {FALSE}

\* probeOne() after its await.
ProbeEnds(i, s, healthy) ==
  /\ InFlight(i, s)
  /\ healthy \in Verdicts(rounds[i].probes[s])
  /\ LET previous == rounds[i].probes[s].previous
         next == NextState(previous, healthy)
     IN  /\ states' = [states EXCEPT ![s] = next]
         /\ changes' = [changes EXCEPT ![s] = Reported(s, previous, next)]
  /\ AfterRound(i, s, healthy)
  /\ UNCHANGED <<timer, up>>

-----------------------------------------------------------------------------

\* POST /simulation/config or /simulation/reset at the service.
Switch(s) ==
  /\ up' = [up EXCEPT ![s] = ~@]
  /\ UNCHANGED <<states, timer, roundInFlight, rounds, changes>>

\* The clock waits for what is due: the interval and the deadlines of probes.
Tick ==
  /\ timer # 0
  /\ \A i \in DOMAIN rounds : rounds[i].age < ProbeTimeout
  /\ timer' = IF timer = None THEN None ELSE timer - 1
  /\ rounds' = [i \in DOMAIN rounds |-> [rounds[i] EXCEPT !.age = @ + 1]]
  /\ UNCHANGED <<states, roundInFlight, changes, up>>

Next ==
  \/ Start \/ Stop \/ IntervalFires \/ ForceCheck
  \/ \E i \in DOMAIN rounds, s \in Services :
       \/ Answered(i, s)
       \/ \E healthy \in BOOLEAN : ProbeEnds(i, s, healthy)
  \/ \E s \in Services : Switch(s)
  \/ Tick

Spec == Init /\ [][Next]_vars

-----------------------------------------------------------------------------

\* isHealthy()
IsHealthy(s) == states[s].status = "healthy"

\* Rounds never overlap, and the flag that sees to it is taken back with the
\* round's last probe.  healthMonitor.service.ts:25-26, 74-82.
RoundsNeverOverlap ==
  /\ Len(rounds) <= 1
  /\ roundInFlight <=> rounds # <<>>

=============================================================================
