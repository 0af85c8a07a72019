------------------------------- MODULE Incidents -------------------------------
(***************************************************************************)
(* IncidentAggregator of                                                   *)
(* backend/src/observability/incidentAggregator.service.ts for one         *)
(* service: it turns the resilience events of the service into incidents.  *)
(* Each service has a tracking of its own; they share only the list of     *)
(* resolved incidents, which is never read to decide anything.             *)
(*                                                                         *)
(* An event is created and observed in one turn of the event loop, so its  *)
(* timestamp is the aggregator's "now".  Titles and summaries are left out.*)
(***************************************************************************)
EXTENDS Arrays

CONSTANTS
  Requests,           \* request ids
  Signals,            \* the event types to be considered
  FailureThreshold,   \* INCIDENT_FAILURE_THRESHOLD
  Lookback,           \* INCIDENT_LOOKBACK_MS, in ticks
  RecoveryQuiet,      \* INCIDENT_RECOVERY_QUIET_MS, in ticks
  MaxResolved,        \* INCIDENT_MAX_RESOLVED
  PendingCap,         \* PENDING_EVENT_CAP
  TimelineCap,        \* TIMELINE_CAP
  None                \* null

FailureSignals ==
  {"UPSTREAM_TIMEOUT", "REQUEST_FAILED", "FAILOVER_STARTED", "FAILOVER_COMPLETED",
   "CIRCUIT_OPENED"}

\* HEALTH_DEGRADED is HEALTH_CHANGED with a severity above INFO.
ContextSignals ==
  {"RETRY_ATTEMPT", "CIRCUIT_HALF_OPEN", "ANOMALY_DETECTED", "HEALTH_DEGRADED"}

\* Events that neither fail, nor give context, nor close the circuit.
OtherEvents == {"REQUEST_STARTED", "REQUEST_COMPLETED", "ANOMALY_RESOLVED", "HEALTH_RESTORED"}

EventTypes == FailureSignals \cup ContextSignals \cup OtherEvents

FailoverEvents == {"FAILOVER_STARTED", "FAILOVER_COMPLETED"}

CircuitEvents == {"CIRCUIT_OPENED", "CIRCUIT_HALF_OPEN"}

ASSUME IncidentAssumption ==
  /\ None \notin Requests
  /\ Signals \subseteq EventTypes
  /\ FailureThreshold \in Nat \ {0}
  /\ Lookback \in Nat
  /\ RecoveryQuiet \in Nat
  /\ MaxResolved \in Nat \ {0}
  /\ PendingCap \in Nat \ {0}
  /\ TimelineCap \in Nat \ {0}

VARIABLES
  now,        \* the injectable clock
  tracking,   \* ServiceTracking: runtime, recentFailureAtMs, pendingEvents
  resolved,   \* the incidents resolved last, newest first
  breaker,    \* state of the service's circuit, whose events are observed here
  left        \* requests that have left the service for a fallback

ivars == <<now, tracking, resolved, breaker, left>>

-----------------------------------------------------------------------------

Event(type, r) == [type |-> type, request |-> r, at |-> now]

IsFailure(e) == e.type \in FailureSignals

IsContext(e) == e.type \in ContextSignals

FirstOf(s, n) == SubSeq(s, 1, IF Len(s) < n THEN Len(s) ELSE n)

LastOf(s, n) == IF Len(s) <= n THEN s ELSE SubSeq(s, Len(s) - n + 1, Len(s))

FailuresIn(events) == {i \in 1..Len(events) : IsFailure(events[i])}

RequestsOf(events) == {events[i].request : i \in FailuresIn(events)} \ {None}

\* Mutant: only the trigger and later signals are counted as failing requests.
AttachLastOnly(i, events) ==
  [i EXCEPT !.timeline = LastOf(@ \o events, TimelineCap),
            !.eventCount = @ + Len(events),
            !.affected = @ \cup RequestsOf(LastOf(events, 1)),
            !.lastFailureAt = IF FailuresIn(events) # {} THEN now ELSE @]

\* Mutant: joining events do not put the end of the quiet period off.
AttachKeepsQuiet(i, events) ==
  [i EXCEPT !.timeline = LastOf(@ \o events, TimelineCap),
            !.eventCount = @ + Len(events),
            !.affected = @ \cup RequestsOf(events)]

\* attach(), for all of the events in turn.
Attach(i, events) ==
  [i EXCEPT !.timeline = LastOf(@ \o events, TimelineCap),
            !.eventCount = @ + Len(events),
            !.affected = @ \cup RequestsOf(events),
            !.lastFailureAt = IF FailuresIn(events) # {} THEN now ELSE @]

\* createIncident(): the buildup is replayed before the trigger.
Opened(t, e) ==
  LET byCircuit == e.type = "CIRCUIT_OPENED"
      byFailover == e.type \in FailoverEvents
  IN  Attach([startedAt |-> IF t.pending = <<>> THEN e.at ELSE t.pending[1].at,
              endedAt |-> None,
              severity |-> IF byCircuit \/ byFailover THEN "CRITICAL" ELSE "WARNING",
              failoverOccurred |-> byFailover,
              circuitOpened |-> byCircuit,
              eventCount |-> 0,
              affected |-> {},
              lastFailureAt |-> now,
              timeline |-> <<>>],
             Append(t.pending, e))

\* Mutant: a failover is noted but the severity stays.
JoinedWithoutEscalation(i, e) ==
  LET critical == e.type = "CIRCUIT_OPENED" IN
  [Attach(i, <<e>>) EXCEPT
     !.circuitOpened = @ \/ critical,
     !.failoverOccurred = @ \/ e.type \in FailoverEvents,
     !.severity = IF critical THEN "CRITICAL" ELSE @]

\* An event joins the active incident and may escalate it.
Joined(i, e) ==
  [Attach(i, <<e>>) EXCEPT
     !.circuitOpened = @ \/ e.type = "CIRCUIT_OPENED",
     !.failoverOccurred = @ \/ e.type \in FailoverEvents,
     !.severity = IF e.type \in FailoverEvents \cup {"CIRCUIT_OPENED"} THEN "CRITICAL" ELSE @]

\* recentFailureAtMs and pendingEvents keep what is inside the window.
InWindow(at) == at + Lookback >= now

Recent(t) ==
  LET times == Append(t.recent, now) IN
  Kept(times, {i \in DOMAIN times : InWindow(times[i])})

\* bufferPending()
Buffered(t, e) ==
  LET events == LastOf(Append(t.pending, e), PendingCap) IN
  [t EXCEPT !.pending = Kept(events, {i \in DOMAIN events : InWindow(events[i].at)})]

-----------------------------------------------------------------------------

\* maybeResolve(): the quiet period is over.
Quiet(t) ==
  /\ t.runtime # None
  /\ now - t.runtime.lastFailureAt >= RecoveryQuiet

\* Mutant: the count of failures goes on after an incident.
EndedKeepsCount(t) == [t EXCEPT !.runtime = None]

\* resolve(): what it does to the tracking and to the list.
Ended(t) == [t EXCEPT !.runtime = None, !.recent = <<>>]

NewestFirst(a, b) == a.startedAt > b.startedAt

\* list(): the active incidents, here at most one, and then the resolved ones,
\* each newest first.
List ==
  (IF tracking.runtime = None THEN <<>> ELSE <<tracking.runtime>>)
    \o SortedBy(resolved, {p \in (DOMAIN resolved) \X (DOMAIN resolved) :
                             NewestFirst(resolved[p[1]], resolved[p[2]])})

\* The incidents page sorts what it gets once more, and opens on the first
\* unless the operator has chosen one.
ShownBefore(a, b) ==
  IF (a.endedAt = None) = (b.endedAt = None) THEN NewestFirst(a, b) ELSE a.endedAt = None

Displayed(list) ==
  SortedBy(list, {p \in (DOMAIN list) \X (DOMAIN list) : ShownBefore(list[p[1]], list[p[2]])})

Archived(i) == FirstOf(<<[i EXCEPT !.endedAt = now]>> \o resolved, MaxResolved)

\* Mutant: the buildup stays for the next incident.
ToldKeepsBuildup(t, e) ==
  IF ~IsFailure(e) /\ ~IsContext(e) THEN t
  ELSE IF t.runtime # None THEN [t EXCEPT !.runtime = Joined(@, e)]
  ELSE LET counted == IF IsFailure(e) THEN [t EXCEPT !.recent = Recent(t)] ELSE t IN
       IF /\ IsFailure(e)
          /\ \/ e.type = "CIRCUIT_OPENED"
             \/ Len(counted.recent) >= FailureThreshold
       THEN [counted EXCEPT !.runtime = Opened(t, e)]
       ELSE Buffered(counted, e)

\* What an event makes of a tracking whose incident, if any, goes on.
Told(t, e) ==
  IF ~IsFailure(e) /\ ~IsContext(e) THEN t
  ELSE IF t.runtime # None THEN [t EXCEPT !.runtime = Joined(@, e)]
  ELSE LET counted == IF IsFailure(e) THEN [t EXCEPT !.recent = Recent(t)] ELSE t IN
       IF /\ IsFailure(e)
          /\ \/ e.type = "CIRCUIT_OPENED"
             \/ Len(counted.recent) >= FailureThreshold
       THEN [counted EXCEPT !.runtime = Opened(t, e), !.pending = <<>>]
       ELSE Buffered(counted, e)

-----------------------------------------------------------------------------

Init ==
  /\ now = 0
  /\ tracking = [runtime |-> None, recent |-> <<>>, pending |-> <<>>]
  /\ resolved = <<>>
  /\ breaker = "CLOSED"
  /\ left = {}

\* observe() of anything but CIRCUIT_CLOSED: first the lazy recovery check, then
\* the event itself.
Observe(e) ==
  /\ tracking' = Told(IF Quiet(tracking) THEN Ended(tracking) ELSE tracking, e)
  /\ resolved' = IF Quiet(tracking) THEN Archived(tracking.runtime) ELSE resolved
  /\ UNCHANGED now

\* The request an event belongs to; the health monitor and the anomaly detector
\* report on no request.
Senders(type) ==
  IF type \in {"ANOMALY_DETECTED", "ANOMALY_RESOLVED", "HEALTH_DEGRADED", "HEALTH_RESTORED"}
  THEN {None} ELSE Requests

\* An event that no circuit reports.  A request that has left a service reports
\* nothing on it any more but the end of its failover.
Signal(type, r) ==
  /\ type \in Signals \ CircuitEvents
  /\ r \in Senders(type)
  /\ type = "FAILOVER_COMPLETED" <=> r \in left
  /\ left' = CASE type = "FAILOVER_STARTED" -> left \cup {r}
             [] type = "FAILOVER_COMPLETED" -> left \ {r}
             [] OTHER -> left
  /\ Observe(Event(type, r))
  /\ UNCHANGED breaker

CircuitOpens(r) ==
  /\ breaker \in {"CLOSED", "HALF_OPEN"}
  /\ r \notin left
  /\ breaker' = "OPEN"
  /\ Observe(Event("CIRCUIT_OPENED", r))
  /\ UNCHANGED left

CircuitHalfOpens(r) ==
  /\ breaker = "OPEN"
  /\ r \notin left
  /\ breaker' = "HALF_OPEN"
  /\ Observe(Event("CIRCUIT_HALF_OPEN", r))
  /\ UNCHANGED left

\* observe() of CIRCUIT_CLOSED: resolved at once, without the recovery check.
CircuitCloses ==
  /\ breaker = "HALF_OPEN"
  /\ breaker' = "CLOSED"
  /\ tracking' = IF tracking.runtime = None THEN tracking ELSE Ended(tracking)
  /\ resolved' = IF tracking.runtime = None THEN resolved ELSE Archived(tracking.runtime)
  /\ UNCHANGED <<now, left>>

Tick == now' = now + 1 /\ UNCHANGED <<tracking, resolved, breaker, left>>

Next ==
  \/ \E type \in Signals, r \in Requests \cup {None} : Signal(type, r)
  \/ \E r \in Requests : CircuitOpens(r) \/ CircuitHalfOpens(r)
  \/ CircuitCloses
  \/ Tick

Spec == Init /\ [][Next]_ivars

=============================================================================
