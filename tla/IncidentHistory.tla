---------------------------- MODULE IncidentHistory ----------------------------
(***************************************************************************)
(* Incidents with the events of the service since its last incident was    *)
(* resolved, which the aggregator itself keeps only in part.               *)
(***************************************************************************)
EXTENDS Incidents

CONSTANTS
  MaxEvents,    \* BOUND: events observed in one behaviour
  MaxTime       \* BOUND: ticks of the clock

VARIABLES
  story,        \* the events observed since the last resolution
  heard         \* how many events were observed altogether

hvars == <<now, tracking, resolved, breaker, left, story, heard>>

Incident ==
  [startedAt : Nat, endedAt : Nat \cup {None}, severity : {"WARNING", "CRITICAL"},
   failoverOccurred : BOOLEAN, circuitOpened : BOOLEAN, eventCount : Nat,
   affected : SUBSET Requests, lastFailureAt : Nat,
   timeline : Seq([type : EventTypes, request : Requests \cup {None}, at : Nat])]

ASSUME NullAssumption == None \notin Nat /\ None \notin Incident

\* Every buffer stays within its bound, an archived incident has ended, and an
\* active one has not.  incidentAggregator.service.ts:221-232, 288-290, 327-330.
HTypeOK ==
  /\ tracking.runtime # None =>
       /\ tracking.runtime \in Incident
       /\ tracking.runtime.endedAt = None
       /\ Len(tracking.runtime.timeline) <= TimelineCap
  /\ Len(tracking.pending) <= PendingCap
  /\ Len(resolved) <= MaxResolved
  /\ \A i \in 1..Len(resolved) :
       resolved[i] \in Incident /\ resolved[i].endedAt \in resolved[i].startedAt..now

-----------------------------------------------------------------------------

HInit == Init /\ story = <<>> /\ heard = 0

\* An event joins the story, which starts again if the event found the last
\* incident quiet.
Hears(type, r) ==
  /\ heard < MaxEvents
  /\ heard' = heard + 1
  /\ story' = Append(IF Quiet(tracking) THEN <<>> ELSE story, Event(type, r))

HSignal(type, r) == Signal(type, r) /\ Hears(type, r)

HCircuitOpens(r) == CircuitOpens(r) /\ Hears("CIRCUIT_OPENED", r)

HCircuitHalfOpens(r) == CircuitHalfOpens(r) /\ Hears("CIRCUIT_HALF_OPEN", r)

HCircuitCloses ==
  /\ CircuitCloses
  /\ heard < MaxEvents
  /\ heard' = heard + 1
  /\ story' = IF tracking.runtime = None THEN story ELSE <<>>

HTick == now < MaxTime /\ Tick /\ UNCHANGED <<story, heard>>

HNext ==
  \/ \E type \in Signals, r \in Requests \cup {None} : HSignal(type, r)
  \/ \E r \in Requests : HCircuitOpens(r) \/ HCircuitHalfOpens(r)
  \/ HCircuitCloses
  \/ HTick

HSpec == HInit /\ [][HNext]_hvars

-----------------------------------------------------------------------------

RecentFailures(events) == {i \in FailuresIn(events) : now - events[i].at <= Lookback}

TypesOf(events) == {events[i].type : i \in 1..Len(events)}

\* The step that opens an incident.
Opens ==
  /\ heard' # heard
  /\ tracking'.runtime # None
  /\ tracking.runtime = None \/ Quiet(tracking)

\* The incidents of a service are told one after the other: the page shows the
\* active one first, as the gateway lists it, and each has ended before the one
\* above it began, although an incident begins with a buildup that was recorded
\* before it was opened.
\* incidentAggregator.service.ts:188-204, 221-248; IncidentsPage.tsx:63-78.
ToldInTurn ==
  /\ Displayed(List) = List
  /\ \A i \in DOMAIN List : List[i].endedAt = None => i = 1
  /\ \A i, j \in DOMAIN List : i < j => List[j].endedAt <= List[i].startedAt

\* What is kept is within its bounds and told in order.
HistoryInOrder == HTypeOK /\ ToldInTurn

\* No incident is missed: while none is active, fewer failure signals than the
\* threshold lie in the window, and the circuit has not opened, since the last
\* one was resolved.  incidentAggregator.service.ts:122-131, 179-192.
NoIncidentMissed ==
  tracking.runtime = None =>
    /\ Cardinality(RecentFailures(story)) < FailureThreshold
    /\ "CIRCUIT_OPENED" \notin TypesOf(story)

\* None is invented: an incident is opened by a circuit that opens, or by
\* threshold signals in the window, none of which belongs to an incident that
\* was resolved before.  incidentAggregator.service.ts:122-131, 179-192, 316-331.
OpenedOnEvidence ==
  [][Opens => \/ story'[Len(story')].type = "CIRCUIT_OPENED"
              \/ Cardinality(RecentFailures(story')) >= FailureThreshold]_hvars

\* Incidents open exactly on evidence: neither is one missed, nor one invented.
\* incidentAggregator.service.ts:122-131, 179-192, 316-331.
OpenedExactlyOnEvidence == []NoIncidentMissed /\ OpenedOnEvidence

\* An incident is resolved only by the circuit closing, or when no failure
\* signal of it is younger than the quiet period.
\* incidentAggregator.service.ts:129-131, 293-297, 308-314.
ResolvedWhenCalm ==
  [][(tracking.runtime # None /\ (tracking'.runtime = None \/ Opens)) =>
       \/ breaker = "HALF_OPEN" /\ breaker' = "CLOSED"
       \/ \A i \in FailuresIn(story) : now - story[i].at >= RecoveryQuiet]_hvars

\* The affected requests of an incident are those of its own story: all that
\* had a failure signal after the incident's start, buildup included, and none
\* of an earlier incident.  incidentAggregator.service.ts:234-238, 273-275, 293-301.
AffectedAreItsOwn ==
  tracking.runtime # None =>
    /\ tracking.runtime.affected \subseteq RequestsOf(story)
    /\ \A i \in FailuresIn(story) :
         story[i].at > tracking.runtime.startedAt =>
           story[i].request \in tracking.runtime.affected \cup {None}

\* Severity and flags agree, severity never comes down while an incident is
\* active, and every failover and every opening of the circuit that is observed
\* meanwhile is flagged, although those of the buildup are not.
\* incidentAggregator.service.ts:127-128, 167-174, 244-264.
SeverityEscalates ==
  [][tracking'.runtime # None =>
       /\ tracking'.runtime.severity = "CRITICAL" <=>
            tracking'.runtime.circuitOpened \/ tracking'.runtime.failoverOccurred
       /\ tracking.runtime # None /\ tracking.runtime.severity = "CRITICAL" /\ ~Opens =>
            tracking'.runtime.severity = "CRITICAL"
       /\ tracking.runtime # None /\ heard' # heard /\ ~Opens =>
            LET event == story'[Len(story')]
            IN  /\ event.type = "CIRCUIT_OPENED" => tracking'.runtime.circuitOpened
                /\ event.type \in FailoverEvents => tracking'.runtime.failoverOccurred]_hvars

=============================================================================
