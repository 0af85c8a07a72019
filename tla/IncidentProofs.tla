---------------------------- MODULE IncidentProofs ----------------------------
(***************************************************************************)
(* Theorems about IncidentHistory for every set of requests and signals,   *)
(* every threshold, window, quiet period and buffer size: no incident is   *)
(* missed or invented, its requests are its own, its severity does not     *)
(* come down, and it ends in calm or when the circuit closes.              *)
(***************************************************************************)
EXTENDS IncidentHistory, ArraysProofs

Events == [type : EventTypes, request : Requests \cup {None}, at : Nat]

Trackings == [runtime : Incident \cup {None}, recent : Seq(Nat), pending : Seq(Events)]

\* What is kept of an incident in progress is within its bounds.
Bounded(t) ==
  /\ t.runtime # None => t.runtime.endedAt = None /\ Len(t.runtime.timeline) <= TimelineCap
  /\ Len(t.pending) <= PendingCap

\* Nothing is recorded before it happens, and the buildup is in order.
Past(t, events) ==
  /\ \A k \in 1..Len(events) : events[k].at <= now
  /\ \A i, j \in 1..Len(t.pending) : i <= j => t.pending[i].at <= t.pending[j].at
  /\ t.runtime # None => t.runtime.startedAt <= now /\ t.runtime.lastFailureAt <= now

\* The severity of an incident is that of the worst it has seen.
Grave(i) == i.severity = "CRITICAL" <=> i.circuitOpened \/ i.failoverOccurred

\* An incident knows the failures of the story since it began, and the requests
\* they hit.
Knows(i, events) ==
  /\ \A k \in FailuresIn(events) : events[k].at <= i.lastFailureAt
  /\ i.affected \subseteq RequestsOf(events)
  /\ \A k \in FailuresIn(events) :
       events[k].at > i.startedAt => events[k].request \in i.affected \cup {None}

\* An active incident has used its buildup up.
WhileActive(t, events) ==
  t.runtime # None => Grave(t.runtime) /\ Knows(t.runtime, events) /\ t.pending = <<>>

\* The buildup is part of the story, and lacks no failure later than its own
\* first event.
Buildup(pending, events) ==
  /\ \A i \in 1..Len(pending) : \E k \in 1..Len(events) : events[k] = pending[i]
  /\ pending # <<>> =>
       \A k \in FailuresIn(events) :
         events[k].at > pending[1].at => \E i \in 1..Len(pending) : pending[i] = events[k]

\* The times kept are those of failures of the story, one each, and no failure
\* in the window is without one: h tells which.
Matches(h, recent, events) ==
  /\ h \in [1..Len(recent) -> FailuresIn(events)]
  /\ \A i \in 1..Len(recent) : recent[i] = events[h[i]].at
  /\ \A i, j \in 1..Len(recent) : h[i] = h[j] => i = j
  /\ \A k \in FailuresIn(events) :
       InWindow(events[k].at) => \E i \in 1..Len(recent) : h[i] = k

Between(t, events) ==
  t.runtime = None =>
    /\ Buildup(t.pending, events)
    /\ \E h : Matches(h, t.recent, events)
    /\ Len(t.recent) < FailureThreshold
    /\ "CIRCUIT_OPENED" \notin TypesOf(events)

\* A tracking agrees with the story it was told.
Agrees(t, events) ==
  /\ t \in Trackings /\ events \in Seq(Events)
  /\ Bounded(t) /\ Past(t, events) /\ WhileActive(t, events) /\ Between(t, events)

\* Resolved incidents are kept in turn, and what goes on began after them.
InTurn(t, done) ==
  /\ Len(done) <= MaxResolved
  /\ \A i \in 1..Len(done) : done[i].endedAt \in done[i].startedAt..now
  /\ \A i, j \in 1..Len(done) : i < j => done[j].endedAt <= done[i].startedAt
  /\ \A i \in 1..Len(done) :
       /\ t.runtime # None => done[i].endedAt <= t.runtime.startedAt
       /\ \A j \in 1..Len(t.pending) : done[i].endedAt <= t.pending[j].at

\* The inductive invariant.
IInv ==
  /\ now \in Nat
  /\ resolved \in Seq(Incident)
  /\ breaker \in {"CLOSED", "OPEN", "HALF_OPEN"}
  /\ left \subseteq Requests
  /\ heard \in Nat
  /\ Agrees(tracking, story)
  /\ InTurn(tracking, resolved)

-----------------------------------------------------------------------------
(* The helpers on sequences of events.                                      *)

\* The last n elements are the end of a sequence.
LEMMA LastOfIsEnd ==
  ASSUME NEW S, NEW s \in Seq(S), NEW n \in Nat
  PROVE  /\ LastOf(s, n) \in Seq(S) /\ Len(LastOf(s, n)) <= n
         /\ Len(LastOf(s, n)) = n \/ LastOf(s, n) = s
         /\ \E d \in Nat : /\ Len(s) = Len(LastOf(s, n)) + d
                           /\ \A i \in 1..Len(LastOf(s, n)) :
                                i + d \in 1..Len(s) /\ LastOf(s, n)[i] = s[i + d]
<1>1. CASE Len(s) <= n
  <2>1. LastOf(s, n) = s
    BY <1>1 DEF LastOf
  <2>2. 0 \in Nat /\ Len(s) = Len(s) + 0 /\ \A i \in 1..Len(s) : i + 0 = i
    OBVIOUS
  <2> QED
    BY <1>1, <2>1, <2>2
<1>2. CASE ~(Len(s) <= n)
  <2> DEFINE d == Len(s) - n
  <2>1. d \in Nat /\ d + 1 \in 1..(Len(s) + 1)  /\ Len(s) \in Nat
    BY <1>2
  <2>2. LastOf(s, n) = SubSeq(s, d + 1, Len(s))
    BY <1>2 DEF LastOf
  <2>3. /\ SubSeq(s, d + 1, Len(s)) \in Seq(S)
        /\ Len(SubSeq(s, d + 1, Len(s))) = n
        /\ \A i \in 1..n : SubSeq(s, d + 1, Len(s))[i] = s[i + d]
    <3>1. \A i \in (d + 1)..Len(s) : s[i] \in S
      BY <2>1
    <3>2. /\ Len(SubSeq(s, d + 1, Len(s))) = n
          /\ \A i \in 1..n : SubSeq(s, d + 1, Len(s))[i] = s[i + d]
      BY <1>2
    <3> QED
      BY <2>1, <3>1, <3>2
  <2>4. Len(s) = n + d /\ \A i \in 1..n : i + d \in 1..Len(s)
    BY <1>2
  <2> HIDE DEF d
  <2>5. /\ LastOf(s, n) \in Seq(S) /\ Len(LastOf(s, n)) = n
        /\ \A i \in 1..n : LastOf(s, n)[i] = s[i + d]
    BY <2>2, <2>3
  <2>6. Len(LastOf(s, n)) <= n
    BY <2>5
  <2>7. /\ Len(s) = Len(LastOf(s, n)) + d
        /\ \A i \in 1..Len(LastOf(s, n)) : i + d \in 1..Len(s) /\ LastOf(s, n)[i] = s[i + d]
    BY <2>4, <2>5
  <2> QED
    BY <2>1, <2>5, <2>6, <2>7
<1> QED
  BY <1>1, <1>2

\* The first n elements are the beginning of a sequence.
LEMMA FirstOfIsBeginning ==
  ASSUME NEW S, NEW s \in Seq(S), NEW n \in Nat
  PROVE  /\ FirstOf(s, n) \in Seq(S)
         /\ Len(FirstOf(s, n)) <= n /\ Len(FirstOf(s, n)) <= Len(s)
         /\ \A i \in 1..Len(FirstOf(s, n)) : FirstOf(s, n)[i] = s[i]
<1> DEFINE k == IF Len(s) < n THEN Len(s) ELSE n
<1>1. k \in Nat /\ k <= n /\ k <= Len(s)
  OBVIOUS
<1>2. FirstOf(s, n) = SubSeq(s, 1, k)
  BY DEF FirstOf
<1> HIDE DEF k
<1>3. SubSeq(s, 1, k) \in Seq(S) /\ Len(SubSeq(s, 1, k)) = k
  BY <1>1
<1>4. \A i \in 1..k : SubSeq(s, 1, k)[i] = s[i]
  BY <1>1
<1> QED
  BY <1>1, <1>2, <1>3, <1>4

\* What an event adds to a story.
LEMMA StoryGrows ==
  ASSUME NEW s \in Seq(Events), NEW e \in Events
  PROVE  LET t == Append(s, e) IN
         /\ t \in Seq(Events) /\ Len(t) = Len(s) + 1 /\ t[Len(s) + 1] = e
         /\ \A k \in 1..Len(s) : t[k] = s[k]
         /\ FailuresIn(t) = FailuresIn(s) \cup (IF IsFailure(e) THEN {Len(s) + 1} ELSE {})
         /\ RequestsOf(t) = RequestsOf(s) \cup
                              (IF IsFailure(e) THEN {e.request} \ {None} ELSE {})
         /\ TypesOf(t) = TypesOf(s) \cup {e.type}
<1> DEFINE t == Append(s, e)
<1>1. /\ t \in Seq(Events) /\ Len(t) = Len(s) + 1 /\ t[Len(s) + 1] = e
      /\ \A k \in 1..Len(s) : t[k] = s[k]
  BY AppendProperties
<1>2. /\ Len(s) \in Nat /\ Len(s) + 1 \in 1..Len(t)
      /\ \A k \in 1..Len(t) : k = Len(s) + 1 \/ k \in 1..Len(s)
      /\ \A k \in 1..Len(s) : k \in 1..Len(t)
  BY <1>1
<1> HIDE DEF t
<1>3. FailuresIn(t) = FailuresIn(s) \cup (IF IsFailure(e) THEN {Len(s) + 1} ELSE {})
  BY <1>1, <1>2 DEF FailuresIn
<1>4. Len(s) + 1 \notin FailuresIn(s) /\ \A k \in FailuresIn(s) : t[k] = s[k]
  BY <1>1, <1>2 DEF FailuresIn
<1>5. RequestsOf(t) = RequestsOf(s) \cup
                        (IF IsFailure(e) THEN {e.request} \ {None} ELSE {})
  BY <1>1, <1>3, <1>4 DEF RequestsOf
<1>6. TypesOf(t) = TypesOf(s) \cup {e.type}
  BY <1>1, <1>2 DEF TypesOf
<1> QED
  BY <1>1, <1>3, <1>5, <1>6 DEF t

-----------------------------------------------------------------------------
(* What an event makes of an incident.                                      *)

\* What events of one story, the last of which is now, add to an incident.
LEMMA AttachAdds ==
  ASSUME now \in Nat, NEW i \in Incident, NEW events \in Seq(Events)
  PROVE  LET j == Attach(i, events) IN
         /\ j \in Incident
         /\ j.startedAt = i.startedAt /\ j.endedAt = i.endedAt /\ j.severity = i.severity
         /\ j.failoverOccurred = i.failoverOccurred /\ j.circuitOpened = i.circuitOpened
         /\ j.affected = i.affected \cup RequestsOf(events)
         /\ j.lastFailureAt = IF FailuresIn(events) # {} THEN now ELSE i.lastFailureAt
         /\ Len(j.timeline) <= TimelineCap
<1> DEFINE timeline == LastOf(i.timeline \o events, TimelineCap)
<1>1. i.timeline \o events \in Seq(Events)
  BY DEF Incident, Events
<1>2. timeline \in Seq(Events) /\ Len(timeline) <= TimelineCap
  BY <1>1, LastOfIsEnd, IncidentAssumption
<1>3. RequestsOf(events) \subseteq Requests
  <2>1. \A k \in 1..Len(events) : events[k] \in Events
    OBVIOUS
  <2> QED
    BY <2>1 DEF RequestsOf, FailuresIn, Events
<1>4. Len(events) \in Nat /\ i.eventCount + Len(events) \in Nat
  BY DEF Incident
<1> DEFINE last == IF FailuresIn(events) # {} THEN now ELSE i.lastFailureAt
           hit == i.affected \cup RequestsOf(events)
           count == i.eventCount + Len(events)
<1>5. last \in Nat /\ hit \in SUBSET Requests /\ count \in Nat
  BY <1>3, <1>4 DEF Incident
<1>6. Attach(i, events) =
        [i EXCEPT !.timeline = timeline, !.eventCount = count,
                  !.affected = hit, !.lastFailureAt = last]
  BY DEF Attach
<1> HIDE DEF timeline, last, hit, count
<1>7. /\ Attach(i, events) \in Incident
      /\ Attach(i, events).startedAt = i.startedAt
      /\ Attach(i, events).endedAt = i.endedAt
      /\ Attach(i, events).severity = i.severity
      /\ Attach(i, events).failoverOccurred = i.failoverOccurred
      /\ Attach(i, events).circuitOpened = i.circuitOpened
      /\ Attach(i, events).affected = hit
      /\ Attach(i, events).lastFailureAt = last
      /\ Attach(i, events).timeline = timeline
  BY <1>2, <1>5, <1>6 DEF Incident, Events
<1> QED
  BY <1>2, <1>7 DEF last, hit

\* One event.
LEMMA OneEvent ==
  ASSUME NEW e \in Events
  PROVE  /\ <<e>> \in Seq(Events)
         /\ FailuresIn(<<e>>) = IF IsFailure(e) THEN {1} ELSE {}
         /\ RequestsOf(<<e>>) = IF IsFailure(e) THEN {e.request} \ {None} ELSE {}
<1>1. /\ <<e>> \in Seq(Events) /\ Len(<<e>>) = 1 /\ <<e>>[1] = e /\ 1..1 = {1}
  OBVIOUS
<1>2. FailuresIn(<<e>>) = IF IsFailure(e) THEN {1} ELSE {}
  BY <1>1 DEF FailuresIn
<1> QED
  BY <1>1, <1>2 DEF RequestsOf

\* An incident that an event joins knows of it, and its severity does not come
\* down.
LEMMA JoinedKnows ==
  ASSUME now \in Nat, NEW i \in Incident, i.startedAt <= now, i.lastFailureAt <= now,
         Grave(i), NEW story0 \in Seq(Events), Knows(i, story0),
         NEW e \in Events, e.at = now
  PROVE  LET j == Joined(i, e) IN
         /\ j \in Incident /\ j.startedAt = i.startedAt /\ j.endedAt = i.endedAt
         /\ j.lastFailureAt <= now /\ Len(j.timeline) <= TimelineCap
         /\ Grave(j) /\ Knows(j, Append(story0, e))
         /\ i.severity = "CRITICAL" => j.severity = "CRITICAL"
<1> DEFINE a == Attach(i, <<e>>)
           j == Joined(i, e)
           critical == e.type \in FailoverEvents \cup {"CIRCUIT_OPENED"}
<1>1. /\ a \in Incident
      /\ a.startedAt = i.startedAt /\ a.endedAt = i.endedAt /\ a.severity = i.severity
      /\ a.failoverOccurred = i.failoverOccurred /\ a.circuitOpened = i.circuitOpened
      /\ a.affected = i.affected \cup RequestsOf(<<e>>)
      /\ a.lastFailureAt = IF FailuresIn(<<e>>) # {} THEN now ELSE i.lastFailureAt
      /\ Len(a.timeline) <= TimelineCap
  BY OneEvent, AttachAdds
<1> DEFINE opened == a.circuitOpened \/ e.type = "CIRCUIT_OPENED"
           over == a.failoverOccurred \/ e.type \in FailoverEvents
           severity == IF critical THEN "CRITICAL" ELSE a.severity
<1>2. j = [a EXCEPT !.circuitOpened = opened, !.failoverOccurred = over,
                    !.severity = severity]
  BY DEF Joined
<1>3. opened \in BOOLEAN /\ over \in BOOLEAN /\ severity \in {"WARNING", "CRITICAL"}
  BY <1>1 DEF Incident
<1> HIDE DEF a, j, opened, over, severity
<1>4. /\ j \in Incident
      /\ j.startedAt = a.startedAt /\ j.endedAt = a.endedAt /\ j.severity = severity
      /\ j.failoverOccurred = over /\ j.circuitOpened = opened
      /\ j.affected = a.affected /\ j.lastFailureAt = a.lastFailureAt
      /\ j.timeline = a.timeline
  BY <1>1, <1>2, <1>3 DEF Incident
<1>5. /\ j.startedAt = i.startedAt /\ j.endedAt = i.endedAt
      /\ j.affected = i.affected \cup RequestsOf(<<e>>)
      /\ j.lastFailureAt = IF IsFailure(e) THEN now ELSE i.lastFailureAt
      /\ Len(j.timeline) <= TimelineCap
      /\ j.severity = IF critical THEN "CRITICAL" ELSE i.severity
  BY <1>1, <1>4, OneEvent DEF severity
<1>6. Grave(j)
  BY <1>1, <1>4, <1>5 DEF Grave, opened, over
<1>7. Knows(j, Append(story0, e))
  <2> DEFINE t == Append(story0, e)
             n == Len(story0) + 1
  <2>1. /\ t[n] = e /\ \A k \in FailuresIn(story0) : t[k] = story0[k]
        /\ FailuresIn(t) = FailuresIn(story0) \cup (IF IsFailure(e) THEN {n} ELSE {})
        /\ RequestsOf(t) = RequestsOf(story0) \cup
                             (IF IsFailure(e) THEN {e.request} \ {None} ELSE {})
    BY StoryGrows DEF FailuresIn
  <2>2. RequestsOf(<<e>>) = IF IsFailure(e) THEN {e.request} \ {None} ELSE {}
    BY OneEvent
  <2> HIDE DEF t, n
  <2>3. \A k \in FailuresIn(t) : t[k].at <= j.lastFailureAt
    <3> SUFFICES ASSUME NEW k \in FailuresIn(t) PROVE t[k].at <= j.lastFailureAt
      OBVIOUS
    <3>1. CASE k \in FailuresIn(story0)
      <4>1. story0[k].at <= i.lastFailureAt /\ story0[k] \in Events /\ t[k] = story0[k]
        BY <2>1, <3>1 DEF Knows, FailuresIn
      <4> QED
        BY <1>5, <4>1 DEF Events, Incident
    <3>2. CASE k \notin FailuresIn(story0)
      BY <1>5, <2>1, <3>2
    <3> QED
      BY <3>1, <3>2
  <2>4. j.affected \subseteq RequestsOf(t)
    BY <1>5, <2>1, <2>2 DEF Knows
  <2>5. \A k \in FailuresIn(t) :
          t[k].at > j.startedAt => t[k].request \in j.affected \cup {None}
    BY <1>5, <2>1, <2>2 DEF Knows
  <2> QED
    BY <2>3, <2>4, <2>5 DEF Knows, t
<1> QED
  BY <1>4, <1>5, <1>6, <1>7 DEF j, Incident

\* An incident knows the buildup it is opened with and the event that opens it.
LEMMA OpenedKnows ==
  ASSUME now \in Nat, NEW t \in Trackings, NEW events \in Seq(Events),
         \A k \in 1..Len(events) : events[k].at <= now,
         Buildup(t.pending, events),
         NEW e \in Events, e.at = now, IsFailure(e)
  PROVE  LET o == Opened(t, e) IN
         /\ o \in Incident /\ o.endedAt = None
         /\ o.startedAt <= now /\ o.lastFailureAt = now
         /\ o.startedAt = IF t.pending = <<>> THEN now ELSE t.pending[1].at
         /\ Len(o.timeline) <= TimelineCap
         /\ Grave(o) /\ Knows(o, Append(events, e))
<1> DEFINE byCircuit == e.type = "CIRCUIT_OPENED"
           byFailover == e.type \in FailoverEvents
           start == IF t.pending = <<>> THEN e.at ELSE t.pending[1].at
           fresh == [startedAt |-> start, endedAt |-> None,
                     severity |-> IF byCircuit \/ byFailover THEN "CRITICAL" ELSE "WARNING",
                     failoverOccurred |-> byFailover, circuitOpened |-> byCircuit,
                     eventCount |-> 0, affected |-> {}, lastFailureAt |-> now,
                     timeline |-> <<>>]
           replayed == Append(t.pending, e)
           o == Opened(t, e)
<1>1. o = Attach(fresh, replayed)
  BY DEF Opened
<1>2. t.pending \in Seq(Events)
  BY DEF Trackings
<1>3. start \in Nat /\ start <= now
  <2>1. CASE t.pending = <<>>
    BY <2>1
  <2>2. CASE t.pending # <<>>
    <3>1. 1 \in 1..Len(t.pending)
      BY <1>2, <2>2
    <3>2. PICK k \in 1..Len(events) : events[k] = t.pending[1]
      BY <3>1 DEF Buildup
    <3>3. events[k] \in Events
      OBVIOUS
    <3> QED
      BY <2>2, <3>2, <3>3 DEF Events
  <2> QED
    BY <2>1, <2>2
<1>4. fresh \in Incident
  <2>1. <<>> \in Seq([type : EventTypes, request : Requests \cup {None}, at : Nat])
    OBVIOUS
  <2> HIDE DEF start
  <2> QED
    BY <1>3, <2>1 DEF Incident
<1>5. /\ replayed \in Seq(Events)
      /\ FailuresIn(replayed) = FailuresIn(t.pending) \cup {Len(t.pending) + 1}
      /\ RequestsOf(replayed) = RequestsOf(t.pending) \cup ({e.request} \ {None})
  BY <1>2, StoryGrows
<1>6. /\ fresh.startedAt = start /\ fresh.endedAt = None
      /\ fresh.severity = (IF byCircuit \/ byFailover THEN "CRITICAL" ELSE "WARNING")
      /\ fresh.failoverOccurred = byFailover /\ fresh.circuitOpened = byCircuit
      /\ fresh.affected = {}
  OBVIOUS
<1> HIDE DEF fresh, replayed, start, o
<1>7. /\ o \in Incident
      /\ o.startedAt = start /\ o.endedAt = None
      /\ o.severity = fresh.severity
      /\ o.failoverOccurred = byFailover /\ o.circuitOpened = byCircuit
      /\ o.affected = RequestsOf(t.pending) \cup ({e.request} \ {None})
      /\ o.lastFailureAt = now
      /\ Len(o.timeline) <= TimelineCap
  BY <1>1, <1>4, <1>5, <1>6, AttachAdds
<1>8. Grave(o)
  BY <1>6, <1>7 DEF Grave
<1>9. Knows(o, Append(events, e))
  <2> DEFINE s == Append(events, e)
             n == Len(events) + 1
  <2>1. /\ s \in Seq(Events) /\ Len(s) = n /\ s[n] = e
        /\ \A k \in 1..Len(events) : s[k] = events[k]
        /\ FailuresIn(s) = FailuresIn(events) \cup {n}
        /\ RequestsOf(s) = RequestsOf(events) \cup ({e.request} \ {None})
    BY StoryGrows
  <2> HIDE DEF s, n
  <2>2. \A k \in FailuresIn(events) : k \in 1..Len(events) /\ IsFailure(events[k])
    BY DEF FailuresIn
  <2>3. \A k \in FailuresIn(s) : s[k].at <= now
    <3>1. now <= now
      OBVIOUS
    <3> QED
      BY <2>1, <2>2, <3>1
  <2>4. RequestsOf(t.pending) \subseteq RequestsOf(events)
    BY DEF RequestsOf, FailuresIn, Buildup
  <2>5. ASSUME NEW k \in FailuresIn(s), s[k].at > start
        PROVE  s[k].request \in o.affected \cup {None}
    <3>1. CASE k = n
      BY <1>7, <2>1, <3>1
    <3>2. CASE k # n
      <4>1. k \in FailuresIn(events) /\ s[k] = events[k] /\ events[k] \in Events
        BY <2>1, <2>2, <3>2
      <4>2. t.pending # <<>>
        <5> SUFFICES ASSUME t.pending = <<>> PROVE FALSE
          OBVIOUS
        <5>1. start = now
          BY DEF start
        <5> QED
          BY <2>2, <2>5, <4>1, <5>1 DEF Events
      <4>3. PICK i \in 1..Len(t.pending) : t.pending[i] = events[k]
        BY <2>5, <4>1, <4>2 DEF Buildup, start
      <4>4. i \in FailuresIn(t.pending)
        BY <2>2, <4>1, <4>3 DEF FailuresIn
      <4>5. t.pending[i].request \in RequestsOf(t.pending) \cup {None}
        BY <4>4 DEF RequestsOf
      <4> QED
        BY <1>7, <4>1, <4>3, <4>5
    <3> QED
      BY <3>1, <3>2
  <2> QED
    BY <1>7, <2>1, <2>3, <2>4, <2>5 DEF Knows, s
<1> QED
  BY <1>3, <1>7, <1>8, <1>9 DEF o, start

-----------------------------------------------------------------------------
(* What an event makes of what is kept between incidents.                   *)

\* The buildup with an event more: the oldest leave, and those that are out of
\* the window, so it lacks nothing later than its first.
LEMMA BufferedBuildup ==
  ASSUME now \in Nat, NEW t \in Trackings, NEW events \in Seq(Events),
         Past(t, events), Buildup(t.pending, events),
         NEW e \in Events, e.at = now
  PROVE  LET b == Buffered(t, e) IN
         /\ b \in Trackings /\ b.runtime = t.runtime /\ b.recent = t.recent
         /\ Len(b.pending) <= PendingCap
         /\ \A i, j \in 1..Len(b.pending) : i <= j => b.pending[i].at <= b.pending[j].at
         /\ Buildup(b.pending, Append(events, e))
         /\ \A i \in 1..Len(b.pending) :
              b.pending[i] = e \/ \E j \in 1..Len(t.pending) : b.pending[i] = t.pending[j]
<1> DEFINE all == Append(t.pending, e)
           n == Len(t.pending) + 1
           last == LastOf(all, PendingCap)
           P == {i \in DOMAIN last : InWindow(last[i].at)}
           p == Kept(last, P)
           b == Buffered(t, e)
           s == Append(events, e)
<1>1. /\ t.pending \in Seq(Events) /\ n \in Nat /\ n >= 1
      /\ all \in Seq(Events) /\ Len(all) = n /\ all[n] = e
      /\ \A i \in 1..Len(t.pending) : all[i] = t.pending[i]
  BY StoryGrows DEF Trackings
<1>2. \A i \in 1..n : i = n \/ i \in 1..Len(t.pending)
  BY <1>1
<1>3. b = [t EXCEPT !.pending = p]
  BY DEF Buffered
<1>4. \A m \in 1..n : all[m] \in Events /\ all[m].at \in Nat /\ all[m].at <= now
  <2> SUFFICES ASSUME NEW m \in 1..n
               PROVE  all[m] \in Events /\ all[m].at \in Nat /\ all[m].at <= now
    OBVIOUS
  <2> HIDE DEF all, n
  <2>1. all[m] \in Events /\ all[m].at \in Nat
    <3>1. m \in 1..Len(all)
      BY <1>1
    <3>2. all[m] \in Events
      BY <1>1, <3>1
    <3> QED
      BY <3>2 DEF Events
  <2>2. CASE m = n
    BY <1>1, <2>1, <2>2
  <2>3. CASE m \in 1..Len(t.pending)
    <3>1. PICK k \in 1..Len(events) : events[k] = t.pending[m]
      BY <2>3 DEF Buildup
    <3> QED
      BY <1>1, <2>1, <2>3, <3>1 DEF Past
  <2> QED
    BY <1>2, <2>1, <2>2, <2>3
<1> HIDE DEF all, n
<1>5. \A i, j \in 1..n : i <= j => all[i].at <= all[j].at
  <2> SUFFICES ASSUME NEW i \in 1..n, NEW j \in 1..n, i <= j
               PROVE  all[i].at <= all[j].at
    OBVIOUS
  <2>1. CASE j = n
    BY <1>1, <1>4, <2>1
  <2>2. CASE j # n
    <3>1. i \in 1..Len(t.pending) /\ j \in 1..Len(t.pending)
      BY <1>1, <2>2 DEF n
    <3> QED
      BY <1>1, <3>1 DEF Past
  <2> QED
    BY <2>1, <2>2
<1>6. /\ last \in Seq(Events) /\ Len(last) <= PendingCap
      /\ Len(last) = PendingCap \/ last = all
  BY <1>1, LastOfIsEnd, IncidentAssumption
<1>7. PICK d \in Nat : /\ n = Len(last) + d
                       /\ \A i \in 1..Len(last) : i + d \in 1..n /\ last[i] = all[i + d]
  <2>1. PendingCap \in Nat /\ all \in Seq(Events)
    BY <1>1, IncidentAssumption
  <2>2. \E d \in Nat : /\ Len(all) = Len(last) + d
                       /\ \A i \in 1..Len(last) :
                            i + d \in 1..Len(all) /\ last[i] = all[i + d]
    BY <2>1, LastOfIsEnd, Zenon
  <2> HIDE DEF last
  <2> QED
    BY <1>1, <2>2
<1>8. Len(last) >= 1
  BY <1>1, <1>6, IncidentAssumption
<1> HIDE DEF last
<1>9. P \in SUBSET (1..Len(last))
  BY <1>6
<1>10. p \in Seq(Events) /\ Len(p) <= Len(last) /\ Len(last) \in Nat /\ Len(p) \in Nat
  BY <1>6, <1>9, KeptIsSelection
<1>11. PICK h : Picks(h, p, last, P, Len(last))
  BY <1>6, <1>9, KeptIsSelection
<1> DEFINE g == [i \in 1..Len(p) |-> h[i] + d]
<1>12. \A i \in 1..Len(p) : h[i] \in P /\ h[i] \in 1..Len(last) /\ p[i] = last[h[i]]
  BY <1>11 DEF Picks
<1>13. \A i \in 1..Len(p) :
         /\ g[i] \in 1..n /\ g[i] > d /\ p[i] = all[g[i]]
         /\ InWindow(p[i].at)
  BY <1>7, <1>12
<1>14. \A i, j \in 1..Len(p) : i <= j => g[i] <= g[j]
  <2> SUFFICES ASSUME NEW i \in 1..Len(p), NEW j \in 1..Len(p), i <= j
               PROVE  g[i] <= g[j]
    OBVIOUS
  <2>1. h[i] < h[j] \/ i = j
    BY <1>10, <1>11 DEF Picks
  <2>2. h[i] \in Nat /\ h[j] \in Nat /\ g[i] = h[i] + d /\ g[j] = h[j] + d
    BY <1>12
  <2> HIDE DEF g, p, P
  <2> QED
    BY <2>1, <2>2
<1>15. \A m \in 1..n :
         m > d /\ InWindow(all[m].at) => \E i \in 1..Len(p) : g[i] = m
  <2> SUFFICES ASSUME NEW m \in 1..n, m > d, InWindow(all[m].at)
               PROVE  \E i \in 1..Len(p) : g[i] = m
    OBVIOUS
  <2>1. PICK q \in 1..Len(last) : q + d = m
    <3>1. m - d \in 1..Len(last) /\ (m - d) + d = m
      BY <1>1, <1>7, <1>10
    <3> QED
      BY <3>1
  <2>2. DOMAIN last = 1..Len(last) /\ last[q] = all[q + d]
    BY <1>6, <1>7
  <2>3. q \in P
    BY <2>1, <2>2
  <2>4. \A i \in 1..Len(p) : g[i] = h[i] + d
    OBVIOUS
  <2> HIDE DEF P, p, g
  <2>5. PICK i \in 1..Len(p) : h[i] = q
    BY <1>11, <2>3 DEF Picks
  <2> QED
    BY <2>1, <2>4, <2>5
<1> HIDE DEF P, p, g
<1>16. \A i, j \in 1..Len(p) : i <= j => p[i].at <= p[j].at
  BY <1>5, <1>13, <1>14
<1>17. \A i \in 1..Len(p) : p[i] = e \/ \E j \in 1..Len(t.pending) : p[i] = t.pending[j]
  BY <1>1, <1>2, <1>13
<1>18. /\ s \in Seq(Events) /\ Len(s) = Len(events) + 1 /\ s[Len(events) + 1] = e
       /\ \A k \in 1..Len(events) : s[k] = events[k]
       /\ FailuresIn(s) \subseteq FailuresIn(events) \cup {Len(events) + 1}
  BY StoryGrows
<1>19. Len(events) \in Nat /\ Len(events) + 1 \in 1..Len(s)
       /\ \A k \in 1..Len(events) : k \in 1..Len(s)
  BY <1>18
<1> HIDE DEF s
<1>20. Buildup(p, s)
  <2>1. \A i \in 1..Len(p) : \E k \in 1..Len(s) : s[k] = p[i]
    <3> SUFFICES ASSUME NEW i \in 1..Len(p) PROVE \E k \in 1..Len(s) : s[k] = p[i]
      OBVIOUS
    <3>1. CASE p[i] = e
      BY <1>18, <1>19, <3>1
    <3>2. CASE \E j \in 1..Len(t.pending) : p[i] = t.pending[j]
      <4>1. PICK j \in 1..Len(t.pending) : p[i] = t.pending[j]
        BY <3>2
      <4>2. PICK k \in 1..Len(events) : events[k] = t.pending[j]
        BY DEF Buildup
      <4> QED
        BY <1>18, <1>19, <4>1, <4>2
    <3> QED
      BY <1>17, <3>1, <3>2
  <2>2. ASSUME p # <<>>, NEW k \in FailuresIn(s), s[k].at > p[1].at
        PROVE  \E i \in 1..Len(p) : p[i] = s[k]
    <3>1. 1 \in 1..Len(p) /\ g[1] \in 1..n /\ g[1] > d /\ p[1] = all[g[1]] /\ InWindow(p[1].at)
      BY <1>10, <1>13, <2>2
    <3>2. CASE k = Len(events) + 1
      <4>1. n \in 1..n /\ n > d /\ InWindow(all[n].at)
        BY <1>1, <1>7, <1>8, <1>10, IncidentAssumption DEF InWindow
      <4>2. PICK i \in 1..Len(p) : g[i] = n
        BY <1>15, <4>1
      <4> QED
        BY <1>1, <1>13, <1>18, <3>2, <4>2
    <3>3. CASE k # Len(events) + 1
      <4>1. /\ k \in FailuresIn(events) /\ k \in 1..Len(events) /\ s[k] = events[k]
            /\ events[k].at \in Nat /\ events[k].at <= now
        <5>1. k \in FailuresIn(events)
          BY <1>18, <3>3
        <5>2. k \in 1..Len(events)
          BY <5>1 DEF FailuresIn
        <5>3. events[k] \in Events /\ s[k] = events[k] /\ events[k].at <= now
          BY <1>18, <5>2 DEF Past
        <5> QED
          BY <5>1, <5>2, <5>3 DEF Events
      <4>2. t.pending # <<>>
        <5> SUFFICES ASSUME t.pending = <<>> PROVE FALSE
          OBVIOUS
        <5>1. n = 1
          BY DEF n
        <5>2. p[1] = e
          BY <1>1, <3>1, <5>1
        <5> QED
          BY <2>2, <4>1, <5>2
      <4>3. 1 \in 1..Len(t.pending) /\ 1 \in 1..n
        BY <1>1, <4>2 DEF n
      <4>4. all[1] = t.pending[1] /\ all[1].at <= p[1].at
        BY <1>1, <1>5, <3>1, <4>3
      <4>5. events[k].at > t.pending[1].at
        BY <1>4, <2>2, <3>1, <4>1, <4>3, <4>4
      <4>6. PICK m \in 1..Len(t.pending) : t.pending[m] = events[k]
        BY <4>1, <4>2, <4>5 DEF Buildup
      <4>7. m \in 1..n /\ all[m] = s[k]
        BY <1>1, <4>1, <4>6 DEF n
      <4>8. m > d
        <5> SUFFICES ASSUME m <= d PROVE FALSE
          BY <4>7
        <5>1. m <= g[1]
          BY <3>1, <4>7
        <5>2. all[m].at <= p[1].at
          BY <1>5, <3>1, <4>7, <5>1
        <5> QED
          BY <1>4, <2>2, <3>1, <4>7, <5>2
      <4>9. InWindow(all[m].at)
        <5>1. /\ p[1].at \in Nat /\ all[m].at \in Nat /\ Lookback \in Nat
              /\ p[1].at < all[m].at
          BY <1>4, <2>2, <3>1, <4>7, IncidentAssumption
        <5>2. p[1].at + Lookback >= now
          BY <3>1 DEF InWindow
        <5> QED
          BY <5>1, <5>2 DEF InWindow
      <4>10. PICK i \in 1..Len(p) : g[i] = m
        BY <1>15, <4>7, <4>8, <4>9
      <4> QED
        BY <1>13, <4>7, <4>10
    <3> QED
      BY <3>2, <3>3
  <2> QED
    BY <2>1, <2>2 DEF Buildup
<1>21. b \in Trackings /\ b.runtime = t.runtime /\ b.recent = t.recent /\ b.pending = p
  BY <1>3, <1>10 DEF Trackings
<1>22. Len(p) <= PendingCap
  BY <1>6, <1>10, IncidentAssumption
<1> HIDE DEF b
<1> QED
  BY <1>16, <1>17, <1>20, <1>21, <1>22 DEF b, s

\* The times kept that are in the window are as many as the failures in it.
LEMMA RecentAreCounted ==
  ASSUME now \in Nat, NEW events \in Seq(Events), NEW recent \in Seq(Nat),
         \A k \in 1..Len(events) : events[k].at <= now,
         NEW h, Matches(h, recent, events)
  PROVE  /\ Cardinality(RecentFailures(events)) \in Nat
         /\ Cardinality(RecentFailures(events)) <= Len(recent)
         /\ (\A i \in 1..Len(recent) : InWindow(recent[i])) =>
              Len(recent) <= Cardinality(RecentFailures(events))
<1> DEFINE R == RecentFailures(events)
           I == 1..Len(recent)
<1>1. \A k \in FailuresIn(events) :
        k \in 1..Len(events) /\ events[k].at \in Nat /\ events[k].at <= now
  <2> SUFFICES ASSUME NEW k \in FailuresIn(events)
               PROVE  k \in 1..Len(events) /\ events[k].at \in Nat /\ events[k].at <= now
    OBVIOUS
  <2>1. k \in 1..Len(events)
    BY DEF FailuresIn
  <2>2. events[k] \in Events
    BY <2>1
  <2> QED
    BY <2>1, <2>2 DEF Events
<1>2. \A k : k \in R <=> k \in FailuresIn(events) /\ InWindow(events[k].at)
  <2>1. \A k \in FailuresIn(events) : now - events[k].at <= Lookback <=> InWindow(events[k].at)
    BY <1>1, IncidentAssumption DEF InWindow
  <2> QED
    BY <2>1 DEF RecentFailures
<1>3. R \subseteq 1..Len(events)
  BY <1>1, <1>2
<1>4. Len(events) \in Nat /\ Len(recent) \in Nat
  OBVIOUS
<1>5. IsFiniteSet(R) /\ Cardinality(R) \in Nat
  <2>1. IsFiniteSet(1..Len(events))
    BY <1>4, FS_Interval
  <2> QED
    BY <1>3, <2>1, FS_Subset, FS_CardinalityType
<1>6. IsFiniteSet(I) /\ Cardinality(I) = Len(recent)
  <2>1. \A n \in Nat : IsFiniteSet(1..n) /\ Cardinality(1..n) = n
    BY FS_Interval
  <2> QED
    BY <1>4, <2>1
<1> HIDE DEF R, I
<1>7. Cardinality(R) <= Len(recent)
  <2> SUFFICES ASSUME Cardinality(I) < Cardinality(R) PROVE FALSE
    BY <1>4, <1>5, <1>6
  <2> DEFINE f == [k \in R |-> CHOOSE i \in I : h[i] = k]
  <2>1. \A k \in R : \E i \in I : h[i] = k
    BY <1>2 DEF Matches, I
  <2>2. \A k \in R : f[k] \in I /\ h[f[k]] = k
    BY <2>1
  <2>3. f \in [R -> I]
    BY <2>2
  <2> HIDE DEF f
  <2>4. \E x, y \in R : x # y /\ f[x] = f[y]
    BY <1>5, <1>6, <2>3, FS_PigeonHole
  <2> QED
    BY <2>2, <2>4
<1>8. ASSUME \A i \in I : InWindow(recent[i])
      PROVE  Len(recent) <= Cardinality(R)
  <2> SUFFICES ASSUME Cardinality(R) < Cardinality(I) PROVE FALSE
    BY <1>4, <1>5, <1>6
  <2>1. \A i \in I : h[i] \in FailuresIn(events) /\ recent[i] = events[h[i]].at
    BY DEF Matches, I
  <2>2. \A i \in I : h[i] \in R
    BY <1>2, <1>8, <2>1
  <2> DEFINE f == [i \in I |-> h[i]]
  <2>3. f \in [I -> R] /\ \A i \in I : f[i] = h[i]
    BY <2>2
  <2> HIDE DEF f
  <2>4. \E x, y \in I : x # y /\ f[x] = f[y]
    BY <1>5, <1>6, <2>3, FS_PigeonHole
  <2> QED
    BY <2>3, <2>4 DEF Matches, I
<1> QED
  BY <1>5, <1>7, <1>8 DEF R, I

\* An event that is no failure changes none of the times.
LEMMA MatchesStay ==
  ASSUME NEW events \in Seq(Events), NEW recent, NEW h, Matches(h, recent, events),
         NEW e \in Events, ~IsFailure(e)
  PROVE  Matches(h, recent, Append(events, e))
<1>1. /\ FailuresIn(Append(events, e)) = FailuresIn(events)
      /\ \A k \in FailuresIn(events) : Append(events, e)[k] = events[k]
  BY StoryGrows DEF FailuresIn
<1> QED
  BY <1>1 DEF Matches

\* A failure joins the times, and those out of the window leave.
LEMMA RecentMatches ==
  ASSUME now \in Nat, NEW t \in Trackings, NEW events \in Seq(Events),
         NEW h0, Matches(h0, t.recent, events),
         NEW e \in Events, e.at = now, IsFailure(e)
  PROVE  /\ Recent(t) \in Seq(Nat)
         /\ \A i \in 1..Len(Recent(t)) : InWindow(Recent(t)[i])
         /\ \E h : Matches(h, Recent(t), Append(events, e))
<1> DEFINE times == Append(t.recent, now)
           n == Len(t.recent) + 1
           P == {i \in DOMAIN times : InWindow(times[i])}
           r == Kept(times, P)
           s == Append(events, e)
           last == Len(events) + 1
<1>1. /\ t.recent \in Seq(Nat) /\ n \in Nat /\ n >= 1
      /\ times \in Seq(Nat) /\ Len(times) = n /\ times[n] = now
      /\ \A i \in 1..Len(t.recent) : times[i] = t.recent[i]
  BY AppendProperties DEF Trackings
<1>2. \A i \in 1..n : i = n \/ i \in 1..Len(t.recent)
  BY <1>1
<1>3. Recent(t) = r
  BY DEF Recent
<1>4. /\ s[last] = e /\ last \notin FailuresIn(events)
      /\ FailuresIn(s) = FailuresIn(events) \cup {last}
      /\ \A k \in FailuresIn(events) : s[k] = events[k]
  <2>1. last \notin 1..Len(events)
    OBVIOUS
  <2> QED
    BY <2>1, StoryGrows DEF FailuresIn
<1>5. DOMAIN times = 1..n /\ n \in 1..n /\ \A i \in 1..Len(t.recent) : i \in 1..n /\ i # n
  BY <1>1
<1> HIDE DEF times, n, s, last
<1>6. \A i : i \in P <=> i \in 1..n /\ InWindow(times[i])
  BY <1>5
<1>7. P \in SUBSET (1..Len(times))
  BY <1>1, <1>5
<1> HIDE DEF P
<1>8. r \in Seq(Nat) /\ \E h : Picks(h, r, times, P, Len(times))
  BY <1>1, <1>7, KeptIsSelection
<1>9. PICK h : Picks(h, r, times, P, n)
  BY <1>1, <1>8
<1> HIDE DEF r
<1>10. \A i \in 1..Len(r) : h[i] \in P /\ h[i] \in 1..n /\ r[i] = times[h[i]]
  BY <1>9 DEF Picks
<1>11. \A i, j \in 1..Len(r) : h[i] = h[j] => i = j
  <2> SUFFICES ASSUME NEW i \in 1..Len(r), NEW j \in 1..Len(r), i # j PROVE h[i] # h[j]
    OBVIOUS
  <2>1. i < j \/ j < i
    OBVIOUS
  <2>2. h[i] < h[j] \/ h[j] < h[i]
    BY <1>9, <2>1 DEF Picks
  <2>3. h[i] \in 1..n /\ h[j] \in 1..n
    BY <1>10
  <2> QED
    BY <2>2, <2>3
<1>12. \A i \in 1..n : InWindow(times[i]) => \E j \in 1..Len(r) : h[j] = i
  BY <1>6, <1>9 DEF Picks
<1> DEFINE g0 == [i \in 1..n |-> IF i = n THEN last ELSE h0[i]]
           g == [i \in 1..Len(r) |-> g0[h[i]]]
<1>13. \A i \in 1..Len(t.recent) :
         h0[i] \in FailuresIn(events) /\ t.recent[i] = events[h0[i]].at
  BY DEF Matches
<1>14. \A i \in 1..n : g0[i] \in FailuresIn(s) /\ times[i] = s[g0[i]].at
  BY <1>1, <1>2, <1>4, <1>5, <1>13
<1>15. \A i, j \in 1..n : g0[i] = g0[j] => i = j
  <2> SUFFICES ASSUME NEW i \in 1..n, NEW j \in 1..n, g0[i] = g0[j] PROVE i = j
    OBVIOUS
  <2>1. CASE i \in 1..Len(t.recent) /\ j \in 1..Len(t.recent)
    BY <1>5, <2>1 DEF Matches
  <2>2. CASE i = n \/ j = n
    BY <1>2, <1>4, <1>5, <1>13, <2>2
  <2> QED
    BY <1>2, <2>1, <2>2
<1>16. \A k \in FailuresIn(s) : InWindow(s[k].at) => \E i \in 1..n : g0[i] = k
  <2> SUFFICES ASSUME NEW k \in FailuresIn(s), InWindow(s[k].at)
               PROVE  \E i \in 1..n : g0[i] = k
    OBVIOUS
  <2>1. CASE k = last
    BY <1>5, <2>1
  <2>2. CASE k # last
    <3>1. k \in FailuresIn(events) /\ InWindow(events[k].at)
      BY <1>4, <2>2
    <3>2. PICK i \in 1..Len(t.recent) : h0[i] = k
      BY <3>1 DEF Matches
    <3> QED
      BY <1>5, <3>2
  <2> QED
    BY <2>1, <2>2
<1> HIDE DEF g0
<1>17. \A i \in 1..Len(r) : g[i] = g0[h[i]] /\ g[i] \in FailuresIn(s) /\ r[i] = s[g[i]].at
  BY <1>10, <1>14
<1>18. g \in [1..Len(r) -> FailuresIn(s)]
  BY <1>17
<1> HIDE DEF g
<1>19. \A i, j \in 1..Len(r) : g[i] = g[j] => i = j
  BY <1>10, <1>11, <1>15, <1>17
<1>20. \A k \in FailuresIn(s) : InWindow(s[k].at) => \E i \in 1..Len(r) : g[i] = k
  <2> SUFFICES ASSUME NEW k \in FailuresIn(s), InWindow(s[k].at)
               PROVE  \E i \in 1..Len(r) : g[i] = k
    OBVIOUS
  <2>1. PICK i \in 1..n : g0[i] = k
    BY <1>16
  <2>2. InWindow(times[i])
    BY <1>14, <2>1
  <2>3. PICK j \in 1..Len(r) : h[j] = i
    BY <1>12, <2>2
  <2> QED
    BY <1>17, <2>1, <2>3
<1>21. Matches(g, r, s)
  BY <1>17, <1>18, <1>19, <1>20 DEF Matches
<1>22. \A i \in 1..Len(r) : InWindow(r[i])
  BY <1>6, <1>10
<1> QED
  BY <1>3, <1>8, <1>21, <1>22 DEF s

-----------------------------------------------------------------------------
(* What an event makes of a tracking.                                       *)

\* A story with an event more is still in the past.
LEMMA StoryIsPast ==
  ASSUME now \in Nat, NEW events \in Seq(Events),
         \A k \in 1..Len(events) : events[k].at <= now,
         NEW e \in Events, e.at = now
  PROVE  \A k \in 1..Len(Append(events, e)) : Append(events, e)[k].at <= now
<1> DEFINE s == Append(events, e)
<1>1. /\ Len(s) = Len(events) + 1 /\ s[Len(events) + 1] = e
      /\ \A k \in 1..Len(events) : s[k] = events[k]
  BY StoryGrows
<1>2. now <= now /\ \A k \in 1..(Len(events) + 1) : k = Len(events) + 1 \/ k \in 1..Len(events)
  OBVIOUS
<1> HIDE DEF s
<1> QED
  BY <1>1, <1>2 DEF s

\* What was heard between incidents and is neither failure nor context is
\* forgotten.
LEMMA IgnoredAgrees ==
  ASSUME now \in Nat, NEW t, NEW events, Agrees(t, events),
         NEW e \in Events, e.at = now, ~IsFailure(e)
  PROVE  Agrees(t, Append(events, e))
<1> DEFINE s == Append(events, e)
<1>1. /\ t \in Trackings /\ events \in Seq(Events)
      /\ Bounded(t) /\ Past(t, events) /\ WhileActive(t, events) /\ Between(t, events)
  BY DEF Agrees
<1>2. /\ s \in Seq(Events) /\ Len(s) = Len(events) + 1
      /\ \A k \in 1..Len(events) : s[k] = events[k] /\ k \in 1..Len(s)
      /\ FailuresIn(s) = FailuresIn(events)
      /\ \A k \in FailuresIn(s) : s[k] = events[k]
      /\ RequestsOf(s) = RequestsOf(events)
      /\ TypesOf(s) = TypesOf(events) \cup {e.type}
  <2>1. /\ s \in Seq(Events) /\ Len(s) = Len(events) + 1
        /\ \A k \in 1..Len(events) : s[k] = events[k]
        /\ FailuresIn(s) = FailuresIn(events)
        /\ RequestsOf(s) = RequestsOf(events)
        /\ TypesOf(s) = TypesOf(events) \cup {e.type}
    BY <1>1, StoryGrows
  <2>2. Len(events) \in Nat /\ \A k \in 1..Len(events) : k \in 1..(Len(events) + 1)
    BY <1>1
  <2>3. \A k \in FailuresIn(events) : k \in 1..Len(events)
    BY DEF FailuresIn
  <2> HIDE DEF s
  <2> QED
    BY <2>1, <2>2, <2>3
<1>3. \A k \in 1..Len(s) : s[k].at <= now
  BY <1>1, StoryIsPast DEF Past
<1>4. e.type # "CIRCUIT_OPENED"
  BY DEF IsFailure, FailureSignals
<1>5. ASSUME NEW h, Matches(h, t.recent, events) PROVE Matches(h, t.recent, s)
  BY <1>1, <1>5, MatchesStay
<1> HIDE DEF s
<1>6. Past(t, s)
  BY <1>1, <1>3 DEF Past
<1>7. WhileActive(t, s)
  BY <1>1, <1>2 DEF WhileActive, Knows
<1>8. Between(t, s)
  <2> SUFFICES ASSUME t.runtime = None
               PROVE  /\ Buildup(t.pending, s)
                      /\ \E h : Matches(h, t.recent, s)
                      /\ Len(t.recent) < FailureThreshold
                      /\ "CIRCUIT_OPENED" \notin TypesOf(s)
    BY DEF Between
  <2>1. Buildup(t.pending, s)
    <3>1. \A i \in 1..Len(t.pending) : \E k \in 1..Len(s) : s[k] = t.pending[i]
      <4> SUFFICES ASSUME NEW i \in 1..Len(t.pending)
                   PROVE  \E k \in 1..Len(s) : s[k] = t.pending[i]
        OBVIOUS
      <4>1. PICK k \in 1..Len(events) : events[k] = t.pending[i]
        BY <1>1 DEF Between, Buildup
      <4> QED
        BY <1>2, <4>1
    <3> QED
      BY <1>1, <1>2, <3>1 DEF Between, Buildup
  <2> QED
    BY <1>1, <1>2, <1>4, <1>5, <2>1 DEF Between
<1> QED
  BY <1>1, <1>2, <1>6, <1>7, <1>8 DEF Agrees, s

\* An event in the course of an incident joins it.
LEMMA JoinedAgrees ==
  ASSUME now \in Nat, NEW t, NEW events, Agrees(t, events), t.runtime # None,
         NEW e \in Events, e.at = now
  PROVE  LET u == [t EXCEPT !.runtime = Joined(t.runtime, e)] IN
         /\ Agrees(u, Append(events, e))
         /\ u.pending = t.pending /\ u.runtime # None
         /\ u.runtime.startedAt = t.runtime.startedAt
         /\ t.runtime.severity = "CRITICAL" => u.runtime.severity = "CRITICAL"
<1> DEFINE s == Append(events, e)
           j == Joined(t.runtime, e)
           u == [t EXCEPT !.runtime = j]
<1>1. /\ t \in Trackings /\ events \in Seq(Events) /\ t.runtime \in Incident
      /\ Bounded(t) /\ Past(t, events) /\ WhileActive(t, events)
  BY DEF Agrees, Trackings
<1>2. /\ j \in Incident /\ j.startedAt = t.runtime.startedAt /\ j.endedAt = t.runtime.endedAt
      /\ j.lastFailureAt <= now /\ Len(j.timeline) <= TimelineCap
      /\ Grave(j) /\ Knows(j, s)
      /\ t.runtime.severity = "CRITICAL" => j.severity = "CRITICAL"
  BY <1>1, JoinedKnows DEF Past, WhileActive
<1>3. s \in Seq(Events) /\ \A k \in 1..Len(s) : s[k].at <= now
  BY <1>1, StoryGrows, StoryIsPast DEF Past
<1> HIDE DEF j, s
<1>4. u \in Trackings /\ u.runtime = j /\ u.pending = t.pending
  BY <1>1, <1>2 DEF Trackings
<1>5. j # None
  BY <1>2, NullAssumption
<1> HIDE DEF u
<1>6. Bounded(u) /\ Past(u, s)
  BY <1>1, <1>2, <1>3, <1>4 DEF Bounded, Past
<1>7. WhileActive(u, s) /\ Between(u, s)
  BY <1>1, <1>2, <1>4, <1>5 DEF WhileActive, Between
<1> QED
  BY <1>2, <1>3, <1>4, <1>5, <1>6, <1>7 DEF Agrees, u, s, j

\* A failure that opens an incident.
LEMMA OpenedAgrees ==
  ASSUME now \in Nat, NEW t, NEW events, Agrees(t, events), t.runtime = None,
         NEW e \in Events, e.at = now, IsFailure(e), NEW recent \in Seq(Nat)
  PROVE  LET u == [runtime |-> Opened(t, e), recent |-> recent, pending |-> <<>>] IN
         /\ Agrees(u, Append(events, e))
         /\ u.runtime # None
         /\ u.runtime.startedAt = now
              \/ (t.pending # <<>> /\ u.runtime.startedAt = t.pending[1].at)
<1> DEFINE s == Append(events, e)
           o == Opened(t, e)
           u == [runtime |-> o, recent |-> recent, pending |-> <<>>]
<1>1. /\ t \in Trackings /\ events \in Seq(Events) /\ Past(t, events)
      /\ Buildup(t.pending, events)
  BY DEF Agrees, Between
<1>2. /\ o \in Incident /\ o.endedAt = None
      /\ o.startedAt <= now /\ o.lastFailureAt = now
      /\ o.startedAt = IF t.pending = <<>> THEN now ELSE t.pending[1].at
      /\ Len(o.timeline) <= TimelineCap
      /\ Grave(o) /\ Knows(o, s)
  BY <1>1, OpenedKnows DEF Past
<1>3. s \in Seq(Events) /\ \A k \in 1..Len(s) : s[k].at <= now
  BY <1>1, StoryGrows, StoryIsPast DEF Past
<1> HIDE DEF o, s
<1>4. /\ u.runtime = o /\ u.recent = recent /\ u.pending = <<>>
      /\ Len(u.pending) = 0 /\ u \in Trackings
  BY <1>2 DEF Trackings
<1>5. o # None /\ now <= now
  BY <1>2, NullAssumption
<1> HIDE DEF u
<1>6. Bounded(u) /\ Past(u, s)
  BY <1>2, <1>3, <1>4, <1>5, IncidentAssumption DEF Bounded, Past
<1>7. WhileActive(u, s) /\ Between(u, s)
  BY <1>2, <1>4, <1>5 DEF WhileActive, Between
<1> QED
  BY <1>2, <1>3, <1>4, <1>5, <1>6, <1>7 DEF Agrees, u, s, o

\* An event that opens none is buffered.
LEMMA BufferedAgrees ==
  ASSUME now \in Nat, NEW t, NEW events, t \in Trackings, events \in Seq(Events),
         Past(t, events), t.runtime = None, Buildup(t.pending, events),
         "CIRCUIT_OPENED" \notin TypesOf(events),
         NEW e \in Events, e.at = now, e.type # "CIRCUIT_OPENED",
         NEW h, Matches(h, t.recent, Append(events, e)),
         Len(t.recent) < FailureThreshold
  PROVE  LET u == Buffered(t, e) IN
         /\ Agrees(u, Append(events, e))
         /\ u.runtime = None
         /\ \A i \in 1..Len(u.pending) :
              u.pending[i] = e \/ \E j \in 1..Len(t.pending) : u.pending[i] = t.pending[j]
<1> DEFINE s == Append(events, e)
           u == Buffered(t, e)
<1>1. /\ u \in Trackings /\ u.runtime = t.runtime /\ u.recent = t.recent
      /\ Len(u.pending) <= PendingCap
      /\ \A i, j \in 1..Len(u.pending) : i <= j => u.pending[i].at <= u.pending[j].at
      /\ Buildup(u.pending, s)
      /\ \A i \in 1..Len(u.pending) :
           u.pending[i] = e \/ \E j \in 1..Len(t.pending) : u.pending[i] = t.pending[j]
  BY BufferedBuildup
<1>2. /\ s \in Seq(Events) /\ \A k \in 1..Len(s) : s[k].at <= now
      /\ TypesOf(s) = TypesOf(events) \cup {e.type}
  BY StoryGrows, StoryIsPast DEF Past
<1> HIDE DEF u, s
<1>3. Bounded(u) /\ Past(u, s) /\ WhileActive(u, s)
  BY <1>1, <1>2 DEF Bounded, Past, WhileActive
<1>4. Between(u, s)
  BY <1>1, <1>2 DEF Between, s
<1> QED
  BY <1>1, <1>2, <1>3, <1>4 DEF Agrees, u, s

\* What every event makes of a tracking agrees with the story it joins, and an
\* incident is opened on evidence only.
LEMMA ToldAgrees ==
  ASSUME now \in Nat, NEW t, NEW events, Agrees(t, events),
         NEW e \in Events, e.at = now
  PROVE  LET u == Told(t, e)
             s == Append(events, e)
         IN
         /\ Agrees(u, s)
         /\ t.runtime # None =>
              /\ u.runtime # None /\ u.pending = t.pending
              /\ u.runtime.startedAt = t.runtime.startedAt
              /\ t.runtime.severity = "CRITICAL" => u.runtime.severity = "CRITICAL"
         /\ t.runtime = None /\ u.runtime # None =>
              /\ u.pending = <<>>
              /\ e.type = "CIRCUIT_OPENED" \/ Cardinality(RecentFailures(s)) >= FailureThreshold
              /\ \/ u.runtime.startedAt = now
                 \/ t.pending # <<>> /\ u.runtime.startedAt = t.pending[1].at
         /\ t.runtime = None /\ u.runtime = None =>
              \A i \in 1..Len(u.pending) :
                u.pending[i] = e \/ \E j \in 1..Len(t.pending) : u.pending[i] = t.pending[j]
<1> DEFINE u == Told(t, e)
           s == Append(events, e)
<1>1. /\ t \in Trackings /\ events \in Seq(Events) /\ Past(t, events)
      /\ t.runtime = None =>
           /\ Buildup(t.pending, events) /\ \E h : Matches(h, t.recent, events)
           /\ Len(t.recent) < FailureThreshold
           /\ "CIRCUIT_OPENED" \notin TypesOf(events)
  BY DEF Agrees, Between
<1>2. CASE ~IsFailure(e) /\ ~IsContext(e)
  <2>1. u = t
    BY <1>2 DEF Told
  <2>2. Agrees(t, s)
    BY <1>2, IgnoredAgrees
  <2> QED
    BY <2>1, <2>2
<1>3. CASE (IsFailure(e) \/ IsContext(e)) /\ t.runtime # None
  <2>1. u = [t EXCEPT !.runtime = Joined(t.runtime, e)]
    BY <1>3 DEF Told
  <2> HIDE DEF u, s
  <2> QED
    BY <1>3, <2>1, JoinedAgrees DEF u, s
<1>4. CASE IsFailure(e) /\ t.runtime = None
  <2> DEFINE counted == [t EXCEPT !.recent = Recent(t)]
             opens == e.type = "CIRCUIT_OPENED" \/ Len(Recent(t)) >= FailureThreshold
  <2>1. /\ Recent(t) \in Seq(Nat)
        /\ \A i \in 1..Len(Recent(t)) : InWindow(Recent(t)[i])
        /\ \E h : Matches(h, Recent(t), s)
    BY <1>1, <1>4, RecentMatches
  <2>2. /\ counted \in Trackings /\ counted.recent = Recent(t)
        /\ counted.runtime = t.runtime /\ counted.pending = t.pending
    BY <1>1, <2>1 DEF Trackings
  <2>3. CASE opens
    <3>1. u = [counted EXCEPT !.runtime = Opened(t, e), !.pending = <<>>]
      BY <1>4, <2>2, <2>3 DEF Told
    <3>2. u = [runtime |-> Opened(t, e), recent |-> Recent(t), pending |-> <<>>]
      BY <2>2, <3>1 DEF Trackings
    <3>3. /\ Agrees(u, s) /\ u.runtime # None /\ u.pending = <<>>
          /\ \/ u.runtime.startedAt = now
             \/ t.pending # <<>> /\ u.runtime.startedAt = t.pending[1].at
      BY <1>4, <2>1, <3>2, OpenedAgrees
    <3>4. ASSUME Len(Recent(t)) >= FailureThreshold
          PROVE  Cardinality(RecentFailures(s)) >= FailureThreshold
      <4>1. s \in Seq(Events) /\ \A k \in 1..Len(s) : s[k].at <= now
        BY <1>1, StoryGrows, StoryIsPast DEF Past
      <4>2. PICK h : Matches(h, Recent(t), s)
        BY <2>1
      <4>3. /\ Cardinality(RecentFailures(s)) \in Nat
            /\ Len(Recent(t)) <= Cardinality(RecentFailures(s))
        BY <2>1, <4>1, <4>2, RecentAreCounted
      <4>4. Len(Recent(t)) \in Nat
        BY <2>1
      <4> QED
        BY <3>4, <4>3, <4>4, IncidentAssumption
    <3> QED
      BY <1>4, <2>3, <3>3, <3>4
  <2>4. CASE ~opens
    <3>1. u = Buffered(counted, e)
      BY <1>4, <2>2, <2>4 DEF Told
    <3>2. Len(Recent(t)) < FailureThreshold
      BY <2>1, <2>4, IncidentAssumption
    <3>3. Past(counted, events)
      BY <1>1, <2>2 DEF Past
    <3> HIDE DEF counted
    <3>4. PICK h : Matches(h, counted.recent, s)
      BY <2>1, <2>2
    <3>5. /\ Agrees(Buffered(counted, e), s)
          /\ Buffered(counted, e).runtime = None
          /\ \A i \in 1..Len(Buffered(counted, e).pending) :
               \/ Buffered(counted, e).pending[i] = e
               \/ \E j \in 1..Len(counted.pending) :
                    Buffered(counted, e).pending[i] = counted.pending[j]
      BY <1>1, <1>4, <2>2, <2>4, <3>2, <3>3, <3>4, BufferedAgrees
    <3> HIDE DEF u, s
    <3> QED
      BY <1>4, <2>2, <3>1, <3>5 DEF u, s
  <2> QED
    BY <2>3, <2>4
<1>5. CASE ~IsFailure(e) /\ IsContext(e) /\ t.runtime = None
  <2>1. u = Buffered(t, e)
    BY <1>5 DEF Told
  <2>2. e.type # "CIRCUIT_OPENED"
    BY <1>5 DEF IsFailure, FailureSignals
  <2>3. PICK h : Matches(h, t.recent, s)
    <3>1. PICK h : Matches(h, t.recent, events)
      BY <1>1, <1>5
    <3> QED
      BY <1>1, <1>5, <3>1, MatchesStay
  <2>4. /\ Agrees(Buffered(t, e), s)
        /\ Buffered(t, e).runtime = None
        /\ \A i \in 1..Len(Buffered(t, e).pending) :
             \/ Buffered(t, e).pending[i] = e
             \/ \E j \in 1..Len(t.pending) : Buffered(t, e).pending[i] = t.pending[j]
    <3>1. /\ t \in Trackings /\ events \in Seq(Events) /\ Past(t, events)
          /\ t.runtime = None /\ Buildup(t.pending, events)
          /\ Len(t.recent) < FailureThreshold
          /\ "CIRCUIT_OPENED" \notin TypesOf(events)
      BY <1>1, <1>5
    <3> HIDE DEF s
    <3>2. Matches(h, t.recent, Append(events, e))
      BY <2>3 DEF s
    <3>3. Agrees(Buffered(t, e), Append(events, e))
      BY <2>2, <3>1, <3>2, BufferedAgrees
    <3>4. Buffered(t, e).runtime = None
      BY <2>2, <3>1, <3>2, BufferedAgrees
    <3>5. \A i \in 1..Len(Buffered(t, e).pending) :
            \/ Buffered(t, e).pending[i] = e
            \/ \E j \in 1..Len(t.pending) : Buffered(t, e).pending[i] = t.pending[j]
      BY <3>1, BufferedBuildup
    <3> QED
      BY <3>3, <3>4, <3>5 DEF s
  <2> HIDE DEF u, s
  <2> QED
    BY <1>5, <2>1, <2>4 DEF u, s
<1> QED
  BY <1>2, <1>3, <1>4, <1>5

-----------------------------------------------------------------------------
(* The archive.                                                             *)

\* A tracking whose incident has ended begins a new story.
LEMMA EndedAgrees ==
  ASSUME NEW t, NEW events, Agrees(t, events), t.runtime # None
  PROVE  /\ Agrees(Ended(t), <<>>)
         /\ Ended(t).runtime = None /\ Ended(t).pending = <<>>
<1> DEFINE u == Ended(t)
<1>1. t \in Trackings /\ t.pending = <<>> /\ <<>> \in Seq(Nat) /\ <<>> \in Seq(Events)
  BY DEF Agrees, WhileActive
<1>2. u \in Trackings /\ u.runtime = None /\ u.recent = <<>> /\ u.pending = <<>>
  BY <1>1 DEF Ended, Trackings
<1>3. /\ FailuresIn(<<>>) = {} /\ TypesOf(<<>>) = {}
      /\ Len(u.pending) = 0 /\ Len(u.recent) = 0
  BY <1>2 DEF FailuresIn, TypesOf
<1> HIDE DEF u
<1>4. \E h : Matches(h, u.recent, <<>>)
  <2> DEFINE h == [i \in 1..0 |-> i]
  <2>1. Matches(h, u.recent, <<>>)
    BY <1>3 DEF Matches
  <2> QED
    BY <2>1
<1>5. Buildup(u.pending, <<>>)
  BY <1>2, <1>3 DEF Buildup
<1>6. Between(u, <<>>)
  BY <1>3, <1>4, <1>5, IncidentAssumption DEF Between
<1>7. Bounded(u) /\ Past(u, <<>>) /\ WhileActive(u, <<>>)
  BY <1>2, <1>3, IncidentAssumption DEF Bounded, Past, WhileActive
<1> QED
  BY <1>1, <1>2, <1>6, <1>7 DEF Agrees, u

\* An incident that ends goes first, after all that ended before it began.
LEMMA ArchivedInTurn ==
  ASSUME now \in Nat, resolved \in Seq(Incident), NEW t, NEW events,
         Agrees(t, events), t.runtime # None, InTurn(t, resolved)
  PROVE  /\ Archived(t.runtime) \in Seq(Incident)
         /\ InTurn(Ended(t), Archived(t.runtime))
<1> DEFINE i == t.runtime
           last == [i EXCEPT !.endedAt = now]
           all == <<last>> \o resolved
           a == Archived(i)
<1>1. i \in Incident /\ i.startedAt \in Nat /\ i.startedAt <= now
  BY DEF Agrees, Trackings, Past, Incident
<1>2. last \in Incident /\ last.startedAt = i.startedAt /\ last.endedAt = now
  BY <1>1 DEF Incident
<1> HIDE DEF last
<1>3. /\ all \in Seq(Incident) /\ Len(all) = Len(resolved) + 1 /\ all[1] = last
      /\ \A k \in 1..Len(resolved) : all[k + 1] = resolved[k]
      /\ Len(resolved) \in Nat
  <2>1. <<last>> \in Seq(Incident) /\ Len(<<last>>) = 1 /\ <<last>>[1] = last
    BY <1>2
  <2> QED
    BY <2>1, ConcatProperties
<1> HIDE DEF all
<1>4. \A k \in 1..Len(all) : k = 1 \/ (k - 1 \in 1..Len(resolved) /\ all[k] = resolved[k - 1])
  <2> SUFFICES ASSUME NEW k \in 1..Len(all), k # 1
               PROVE  k - 1 \in 1..Len(resolved) /\ all[k] = resolved[k - 1]
    OBVIOUS
  <2>1. PICK m \in 1..Len(resolved) : k = m + 1
    <3>1. k - 1 \in 1..Len(resolved) /\ k = (k - 1) + 1
      BY <1>3
    <3> QED
      BY <3>1
  <2>2. k - 1 = m
    BY <2>1
  <2> QED
    BY <1>3, <2>1, <2>2
<1>5. a = FirstOf(all, MaxResolved) /\ MaxResolved \in Nat
  BY IncidentAssumption DEF Archived, all, last
<1>6. /\ a \in Seq(Incident) /\ Len(a) <= MaxResolved /\ Len(a) <= Len(all)
      /\ \A k \in 1..Len(a) : a[k] = all[k]
  BY <1>3, <1>5, FirstOfIsBeginning
<1>7. Len(a) \in Nat /\ \A k \in 1..Len(a) : k \in 1..Len(all)
  BY <1>3, <1>6
<1> HIDE DEF a
<1>8. \A k \in 1..Len(resolved) :
        /\ resolved[k] \in Incident /\ resolved[k].startedAt \in Nat
        /\ resolved[k].endedAt \in resolved[k].startedAt..now
        /\ resolved[k].endedAt <= i.startedAt
  <2> SUFFICES ASSUME NEW k \in 1..Len(resolved)
               PROVE  /\ resolved[k] \in Incident /\ resolved[k].startedAt \in Nat
                      /\ resolved[k].endedAt \in resolved[k].startedAt..now
                      /\ resolved[k].endedAt <= i.startedAt
    OBVIOUS
  <2>1. resolved[k] \in Incident
    OBVIOUS
  <2>2. resolved[k].startedAt \in Nat
    BY <2>1 DEF Incident
  <2>3. resolved[k].endedAt \in resolved[k].startedAt..now
    BY DEF InTurn
  <2>4. resolved[k].endedAt <= i.startedAt
    BY DEF InTurn
  <2> QED
    BY <2>1, <2>2, <2>3, <2>4
<1>9. \A k \in 1..Len(a) :
        \/ k = 1 /\ a[k] = last
        \/ k - 1 \in 1..Len(resolved) /\ a[k] = resolved[k - 1]
  BY <1>3, <1>4, <1>6, <1>7
<1>10. \A k \in 1..Len(a) : a[k].endedAt \in a[k].startedAt..now
  <2>1. now \in i.startedAt..now
    BY <1>1
  <2> QED
    BY <1>2, <1>8, <1>9, <2>1
<1>11. \A j, k \in 1..Len(a) : j < k => a[k].endedAt <= a[j].startedAt
  <2> SUFFICES ASSUME NEW j \in 1..Len(a), NEW k \in 1..Len(a), j < k
               PROVE  a[k].endedAt <= a[j].startedAt
    OBVIOUS
  <2>1. k # 1 /\ k - 1 \in 1..Len(resolved) /\ a[k] = resolved[k - 1]
    BY <1>9
  <2>2. CASE j = 1
    <3>1. a[j] = last
      BY <1>3, <1>6, <2>2
    <3> QED
      BY <1>2, <1>8, <2>1, <3>1
  <2>3. CASE j # 1
    <3>1. j - 1 \in 1..Len(resolved) /\ a[j] = resolved[j - 1] /\ j - 1 < k - 1
      BY <1>9, <2>3
    <3> QED
      BY <2>1, <3>1 DEF InTurn
  <2> QED
    BY <2>2, <2>3
<1>12. Ended(t).runtime = None /\ Len(Ended(t).pending) = 0
  BY EndedAgrees
<1>13. InTurn(Ended(t), a)
  BY <1>6, <1>10, <1>11, <1>12 DEF InTurn
<1> QED
  BY <1>6, <1>13 DEF a

\* What an event makes of a tracking comes after what is archived.
LEMMA ToldInTurnOfTime ==
  ASSUME now \in Nat, NEW t, NEW events, Agrees(t, events),
         NEW done \in Seq(Incident), InTurn(t, done),
         NEW e \in Events, e.at = now
  PROVE  InTurn(Told(t, e), done)
<1> DEFINE u == Told(t, e)
<1>1. /\ t.runtime # None => /\ u.runtime # None /\ u.pending = t.pending
                             /\ u.runtime.startedAt = t.runtime.startedAt
      /\ t.runtime = None /\ u.runtime # None =>
           /\ u.pending = <<>>
           /\ \/ u.runtime.startedAt = now
              \/ t.pending # <<>> /\ u.runtime.startedAt = t.pending[1].at
      /\ t.runtime = None /\ u.runtime = None =>
           \A i \in 1..Len(u.pending) :
             u.pending[i] = e \/ \E j \in 1..Len(t.pending) : u.pending[i] = t.pending[j]
  BY ToldAgrees
<1>2. t.pending \in Seq(Events) /\ (t.pending # <<>> => 1 \in 1..Len(t.pending))
  <2>1. t.pending \in Seq(Events)
    BY DEF Agrees, Trackings
  <2> QED
    BY <2>1
<1> HIDE DEF u
<1>3. \A i \in 1..Len(done) :
        /\ done[i].endedAt <= now
        /\ t.runtime # None => done[i].endedAt <= t.runtime.startedAt
        /\ \A j \in 1..Len(t.pending) : done[i].endedAt <= t.pending[j].at
  BY DEF InTurn, Incident
<1>4. ASSUME NEW i \in 1..Len(done)
      PROVE  /\ u.runtime # None => done[i].endedAt <= u.runtime.startedAt
             /\ \A j \in 1..Len(u.pending) : done[i].endedAt <= u.pending[j].at
  <2>1. CASE t.runtime # None
    BY <1>1, <1>3, <2>1
  <2>2. CASE t.runtime = None /\ u.runtime # None
    BY <1>1, <1>2, <1>3, <2>2
  <2>3. CASE t.runtime = None /\ u.runtime = None
    BY <1>1, <1>3, <2>3
  <2> QED
    BY <2>1, <2>2, <2>3
<1> QED
  BY <1>4 DEF InTurn, u

-----------------------------------------------------------------------------
(* The steps.                                                               *)

\* The incident, if any, that an event does not find quiet, and its story.
Before == IF Quiet(tracking) THEN Ended(tracking) ELSE tracking

StoryBefore == IF Quiet(tracking) THEN <<>> ELSE story

\* The lazy recovery check that comes before an event is told.
LEMMA Checked ==
  ASSUME IInv
  PROVE  LET done == IF Quiet(tracking) THEN Archived(tracking.runtime) ELSE resolved IN
         /\ Agrees(Before, StoryBefore)
         /\ done \in Seq(Incident) /\ InTurn(Before, done)
         /\ Quiet(tracking) => Before.runtime = None
         /\ ~Quiet(tracking) => Before = tracking
<1>1. CASE Quiet(tracking)
  <2>1. tracking.runtime # None
    BY <1>1 DEF Quiet
  <2> QED
    BY <1>1, <2>1, EndedAgrees, ArchivedInTurn DEF IInv, Before, StoryBefore
<1>2. CASE ~Quiet(tracking)
  BY <1>2 DEF IInv, Before, StoryBefore
<1> QED
  BY <1>1, <1>2

\* An event that joins an active incident is flagged in it.
LEMMA EscalationsAreFlagged ==
  ASSUME NEW t \in Trackings, t.runtime # None, NEW e
  PROVE  /\ e.type = "CIRCUIT_OPENED" => Told(t, e).runtime.circuitOpened
         /\ e.type \in FailoverEvents => Told(t, e).runtime.failoverOccurred
<1> SUFFICES ASSUME e.type \in FailoverEvents \cup {"CIRCUIT_OPENED"}
             PROVE  /\ e.type = "CIRCUIT_OPENED" => Told(t, e).runtime.circuitOpened
                    /\ e.type \in FailoverEvents => Told(t, e).runtime.failoverOccurred
  OBVIOUS
<1> DEFINE a == Attach(t.runtime, <<e>>)
           j == Joined(t.runtime, e)
<1>1. IsFailure(e)
  BY DEF IsFailure, FailureSignals, FailoverEvents
<1>2. Told(t, e).runtime = j
  BY <1>1, NullAssumption DEF Told, Trackings
<1>3. j = [a EXCEPT !.circuitOpened = a.circuitOpened \/ e.type = "CIRCUIT_OPENED",
                    !.failoverOccurred = a.failoverOccurred \/ e.type \in FailoverEvents,
                    !.severity = "CRITICAL"]
  BY DEF Joined
<1>4. {"circuitOpened", "failoverOccurred"} \subseteq DOMAIN a
  BY DEF Attach, Trackings, Incident
<1> HIDE DEF a, j
<1> QED
  BY <1>2, <1>3, <1>4

\* Whatever event is observed, tracking and archive agree with the story it
\* joins; an incident opens on evidence, ends in calm and does not lose in
\* severity.
LEMMA Observing ==
  ASSUME IInv, NEW type \in EventTypes, NEW r \in Requests \cup {None},
         Observe(Event(type, r)), Hears(type, r)
  PROVE  /\ now' = now /\ heard' \in Nat /\ resolved' \in Seq(Incident)
         /\ Agrees(tracking', story') /\ InTurn(tracking', resolved')
         /\ Opens => \/ story'[Len(story')].type = "CIRCUIT_OPENED"
                     \/ Cardinality(RecentFailures(story')) >= FailureThreshold
         /\ tracking.runtime # None /\ (tracking'.runtime = None \/ Opens) => Quiet(tracking)
         /\ tracking.runtime # None /\ tracking'.runtime # None /\ ~Opens
              /\ tracking.runtime.severity = "CRITICAL" =>
              tracking'.runtime.severity = "CRITICAL"
         /\ tracking.runtime # None /\ tracking'.runtime # None /\ ~Opens =>
              /\ story'[Len(story')].type = "CIRCUIT_OPENED" => tracking'.runtime.circuitOpened
              /\ story'[Len(story')].type \in FailoverEvents =>
                   tracking'.runtime.failoverOccurred
<1> DEFINE e == Event(type, r)
           s == Append(StoryBefore, e)
           u == Told(Before, e)
           done == IF Quiet(tracking) THEN Archived(tracking.runtime) ELSE resolved
<1>1. now \in Nat /\ heard \in Nat
  BY DEF IInv
<1>2. e \in Events /\ e.at = now /\ e.type = type
  BY <1>1 DEF Events, Event
<1>3. /\ now' = now /\ heard' = heard + 1
      /\ tracking' = u /\ resolved' = done /\ story' = s
  BY DEF Observe, Hears, Before, StoryBefore
<1>4. /\ Agrees(Before, StoryBefore) /\ done \in Seq(Incident) /\ InTurn(Before, done)
      /\ Quiet(tracking) => Before.runtime = None
      /\ ~Quiet(tracking) => Before = tracking
  BY Checked
<1> HIDE DEF e, done
<1>5. /\ Agrees(u, s)
      /\ Before.runtime # None =>
           /\ u.runtime # None
           /\ Before.runtime.severity = "CRITICAL" => u.runtime.severity = "CRITICAL"
      /\ Before.runtime = None /\ u.runtime # None =>
           e.type = "CIRCUIT_OPENED" \/ Cardinality(RecentFailures(s)) >= FailureThreshold
  BY <1>1, <1>2, <1>4, ToldAgrees
<1>6. InTurn(u, done)
  BY <1>1, <1>2, <1>4, ToldInTurnOfTime
<1>7. s[Len(s)] = e
  <2>1. StoryBefore \in Seq(Events)
    BY <1>4 DEF Agrees
  <2> QED
    BY <1>2, <2>1
<1> HIDE DEF u, s
<1>8. heard' # heard /\ heard' \in Nat
  BY <1>1, <1>3
<1>9. Opens => tracking'.runtime # None /\ Before.runtime = None
  BY <1>4 DEF Opens
<1>10. ASSUME tracking.runtime # None, tracking'.runtime = None \/ Opens PROVE Quiet(tracking)
  BY <1>3, <1>4, <1>5, <1>10 DEF Opens
<1>11. ASSUME tracking.runtime # None, tracking'.runtime # None, ~Opens,
              tracking.runtime.severity = "CRITICAL"
       PROVE  tracking'.runtime.severity = "CRITICAL"
  BY <1>3, <1>4, <1>5, <1>8, <1>11 DEF Opens
<1>12. ASSUME tracking.runtime # None, tracking'.runtime # None, ~Opens
       PROVE  /\ story'[Len(story')].type = "CIRCUIT_OPENED" => tracking'.runtime.circuitOpened
              /\ story'[Len(story')].type \in FailoverEvents =>
                   tracking'.runtime.failoverOccurred
  <2>1. Before \in Trackings /\ Before.runtime # None
    BY <1>4, <1>8, <1>12 DEF Opens, Agrees
  <2> QED
    BY <1>3, <1>7, <2>1, EscalationsAreFlagged DEF u
<1>13. Opens => \/ story'[Len(story')].type = "CIRCUIT_OPENED"
                \/ Cardinality(RecentFailures(story')) >= FailureThreshold
  BY <1>3, <1>5, <1>7, <1>9
<1> QED
  BY <1>3, <1>4, <1>5, <1>6, <1>8, <1>10, <1>11, <1>12, <1>13

\* The steps that observe an event other than the circuit closing.
Observes ==
  \E type \in EventTypes, r \in Requests \cup {None} : Observe(Event(type, r)) /\ Hears(type, r)

\* Those are all but the circuit's closing and the clock's ticks.
LEMMA StepsObserve ==
  ASSUME HNext, IInv
  PROVE  \/ Observes /\ breaker' \in {"CLOSED", "OPEN", "HALF_OPEN"} /\ left' \subseteq Requests
         \/ HCircuitCloses
         \/ HTick
<1>1. breaker \in {"CLOSED", "OPEN", "HALF_OPEN"} /\ left \subseteq Requests
  BY DEF IInv
<1>2. /\ \A type \in Signals : type \in EventTypes
      /\ "CIRCUIT_OPENED" \in EventTypes /\ "CIRCUIT_HALF_OPEN" \in EventTypes
  BY IncidentAssumption DEF EventTypes, FailureSignals, ContextSignals
<1>3. ASSUME NEW type \in Signals, NEW r \in Requests \cup {None}, HSignal(type, r)
      PROVE  Observes /\ breaker' \in {"CLOSED", "OPEN", "HALF_OPEN"} /\ left' \subseteq Requests
  <2>1. /\ Observe(Event(type, r)) /\ Hears(type, r) /\ breaker' = breaker
        /\ r \in Senders(type) /\ (type = "FAILOVER_COMPLETED" <=> r \in left)
        /\ left' = CASE type = "FAILOVER_STARTED" -> left \cup {r}
                   [] type = "FAILOVER_COMPLETED" -> left \ {r}
                   [] OTHER -> left
    BY <1>3 DEF HSignal, Signal
  <2>2. type = "FAILOVER_STARTED" => r \in Requests
    BY <2>1 DEF Senders
  <2>3. left' \subseteq Requests
    BY <1>1, <2>1, <2>2
  <2> QED
    BY <1>1, <1>2, <2>1, <2>3 DEF Observes
<1>4. ASSUME NEW r \in Requests, HCircuitOpens(r) \/ HCircuitHalfOpens(r)
      PROVE  Observes /\ breaker' \in {"CLOSED", "OPEN", "HALF_OPEN"} /\ left' \subseteq Requests
  <2>1. CASE HCircuitOpens(r)
    <3>1. Observe(Event("CIRCUIT_OPENED", r)) /\ Hears("CIRCUIT_OPENED", r)
      BY <2>1 DEF HCircuitOpens, CircuitOpens
    <3>2. breaker' = "OPEN" /\ left' = left
      BY <2>1 DEF HCircuitOpens, CircuitOpens
    <3> QED
      BY <1>1, <1>2, <3>1, <3>2 DEF Observes
  <2>2. CASE HCircuitHalfOpens(r)
    <3>1. Observe(Event("CIRCUIT_HALF_OPEN", r)) /\ Hears("CIRCUIT_HALF_OPEN", r)
      BY <2>2 DEF HCircuitHalfOpens, CircuitHalfOpens
    <3>2. breaker' = "HALF_OPEN" /\ left' = left
      BY <2>2 DEF HCircuitHalfOpens, CircuitHalfOpens
    <3> QED
      BY <1>1, <1>2, <3>1, <3>2 DEF Observes
  <2> QED
    BY <1>4, <2>1, <2>2
<1> QED
  BY <1>3, <1>4 DEF HNext

\* While the clock stands still, agreement is agreement after the step.
LEMMA NowStays ==
  ASSUME now' = now, Agrees(tracking', story'), InTurn(tracking', resolved')
  PROVE  Agrees(tracking, story)' /\ InTurn(tracking, resolved)'
<1>1. Agrees(tracking, story)'
  <2>1. tracking' \in Trackings /\ story' \in Seq(Events) /\ Bounded(tracking')
        /\ Past(tracking', story') /\ WhileActive(tracking', story')
        /\ Between(tracking', story')
    BY DEF Agrees
  <2>2. (tracking \in Trackings /\ story \in Seq(Events) /\ Bounded(tracking))'
    BY <2>1
  <2>3. Past(tracking, story)'
    BY <2>1 DEF Past
  <2>4. WhileActive(tracking, story)'
    BY <2>1
  <2>5. Between(tracking, story)'
    BY <2>1 DEF Between, Matches, InWindow
  <2> QED
    BY <2>2, <2>3, <2>4, <2>5 DEF Agrees
<1>2. InTurn(tracking, resolved)'
  BY DEF InTurn
<1> QED
  BY <1>1, <1>2

\* The first state.
LEMMA InitHolds == HInit => IInv
<1> SUFFICES ASSUME HInit PROVE IInv
  OBVIOUS
<1> DEFINE t == [runtime |-> None, recent |-> <<>>, pending |-> <<>>]
<1>1. /\ now = 0 /\ tracking = t /\ resolved = <<>> /\ breaker = "CLOSED"
      /\ left = {} /\ story = <<>> /\ heard = 0
  BY DEF HInit, Init
<1>2. /\ t \in Trackings /\ t.runtime = None /\ t.pending = <<>> /\ t.recent = <<>>
  BY DEF Trackings
<1>3. /\ FailuresIn(<<>>) = {} /\ TypesOf(<<>>) = {} /\ <<>> \in Seq(Events)
      /\ Len(t.pending) = 0 /\ Len(t.recent) = 0
  BY <1>2 DEF FailuresIn, TypesOf
<1> HIDE DEF t
<1>4. Matches([i \in 1..0 |-> i], t.recent, <<>>)
  BY <1>3 DEF Matches
<1>5. Between(t, <<>>)
  BY <1>2, <1>3, <1>4, IncidentAssumption DEF Between, Buildup
<1>6. Bounded(t) /\ Past(t, <<>>) /\ WhileActive(t, <<>>)
  BY <1>2, <1>3, IncidentAssumption DEF Bounded, Past, WhileActive
<1>7. Agrees(t, <<>>)
  BY <1>2, <1>3, <1>5, <1>6 DEF Agrees
<1>8. InTurn(t, <<>>) /\ <<>> \in Seq(Incident)
  BY <1>2, IncidentAssumption DEF InTurn
<1> QED
  BY <1>1, <1>7, <1>8 DEF IInv

\* The circuit closes.
LEMMA ClosingKeeps ==
  ASSUME IInv, HCircuitCloses
  PROVE  /\ IInv'
         /\ tracking'.runtime = None
         /\ breaker = "HALF_OPEN" /\ breaker' = "CLOSED"
<1>1. /\ now' = now /\ left' = left /\ heard' = heard + 1
      /\ breaker = "HALF_OPEN" /\ breaker' = "CLOSED"
      /\ tracking' = IF tracking.runtime = None THEN tracking ELSE Ended(tracking)
      /\ resolved' = IF tracking.runtime = None THEN resolved ELSE Archived(tracking.runtime)
      /\ story' = IF tracking.runtime = None THEN story ELSE <<>>
  BY DEF HCircuitCloses, CircuitCloses
<1>2. /\ Agrees(tracking', story') /\ InTurn(tracking', resolved')
      /\ resolved' \in Seq(Incident) /\ tracking'.runtime = None
  <2>1. CASE tracking.runtime = None
    BY <1>1, <2>1 DEF IInv
  <2>2. CASE tracking.runtime # None
    BY <1>1, <2>2, EndedAgrees, ArchivedInTurn DEF IInv
  <2> QED
    BY <2>1, <2>2
<1>3. Agrees(tracking, story)' /\ InTurn(tracking, resolved)'
  BY <1>1, <1>2, NowStays
<1> QED
  BY <1>1, <1>2, <1>3 DEF IInv

\* Time passes: what was past stays past, and less lies in the window.
LEMMA TickKeeps ==
  ASSUME IInv, HTick
  PROVE  IInv'
<1>1. /\ now \in Nat /\ now' = now + 1 /\ tracking' = tracking /\ resolved' = resolved
      /\ breaker' = breaker /\ left' = left /\ story' = story /\ heard' = heard
  BY DEF HTick, Tick, IInv
<1>2. /\ tracking \in Trackings /\ story \in Seq(Events) /\ Bounded(tracking)
      /\ Past(tracking, story) /\ WhileActive(tracking, story) /\ Between(tracking, story)
  BY DEF IInv, Agrees
<1>3. \A n \in Nat : n <= now => n <= now'
  BY <1>1
<1>4. Past(tracking, story)'
  <2>1. \A k \in 1..Len(story) : story[k].at \in Nat
    <3>1. \A k \in 1..Len(story) : story[k] \in Events
      BY <1>2
    <3> QED
      BY <3>1 DEF Events
  <2>2. tracking.runtime # None =>
          tracking.runtime.startedAt \in Nat /\ tracking.runtime.lastFailureAt \in Nat
    BY <1>2 DEF Trackings, Incident
  <2> QED
    BY <1>1, <1>2, <1>3, <2>1, <2>2 DEF Past
<1>5. Between(tracking, story)'
  <2>1. ASSUME tracking.runtime = None PROVE \E h : Matches(h, tracking.recent, story)'
    <3>1. PICK h : Matches(h, tracking.recent, story)
      BY <1>2, <2>1 DEF Between
    <3>2. \A k \in FailuresIn(story) : InWindow(story[k].at)' => InWindow(story[k].at)
      <4> SUFFICES ASSUME NEW k \in FailuresIn(story), InWindow(story[k].at)'
                   PROVE  InWindow(story[k].at)
        OBVIOUS
      <4>1. story[k].at \in Nat
        <5>1. story[k] \in Events
          BY <1>2 DEF FailuresIn
        <5> QED
          BY <5>1 DEF Events
      <4> QED
        BY <1>1, <4>1, IncidentAssumption DEF InWindow
    <3>3. Matches(h, tracking.recent, story)'
      BY <1>1, <3>1, <3>2 DEF Matches
    <3> QED
      BY <3>3
  <2> QED
    BY <1>1, <1>2, <2>1 DEF Between
<1>6. (tracking \in Trackings /\ story \in Seq(Events)
        /\ Bounded(tracking) /\ WhileActive(tracking, story))'
  BY <1>1, <1>2
<1>7. InTurn(tracking, resolved)'
  <2>1. InTurn(tracking, resolved) /\ resolved \in Seq(Incident)
    BY DEF IInv
  <2>2. \A i \in 1..Len(resolved) :
          resolved[i].endedAt \in resolved[i].startedAt..now' /\ resolved[i].startedAt \in Nat
    <3> SUFFICES ASSUME NEW i \in 1..Len(resolved)
                 PROVE  /\ resolved[i].endedAt \in resolved[i].startedAt..now'
                        /\ resolved[i].startedAt \in Nat
      OBVIOUS
    <3>1. resolved[i] \in Incident
      BY <2>1
    <3>2. resolved[i].startedAt \in Nat
      BY <3>1 DEF Incident
    <3>3. resolved[i].endedAt \in resolved[i].startedAt..now
      BY <2>1 DEF InTurn
    <3> QED
      BY <1>1, <3>2, <3>3
  <2> QED
    BY <1>1, <2>1, <2>2 DEF InTurn
<1>8. (now \in Nat)' /\ Agrees(tracking, story)'
  BY <1>1, <1>4, <1>5, <1>6 DEF Agrees
<1> QED
  BY <1>1, <1>7, <1>8 DEF IInv

\* Every step keeps the invariant.
LEMMA StepKeeps == IInv /\ [HNext]_hvars => IInv'
<1> SUFFICES ASSUME IInv, [HNext]_hvars PROVE IInv'
  OBVIOUS
<1>1. CASE HNext
  <2>1. CASE Observes /\ breaker' \in {"CLOSED", "OPEN", "HALF_OPEN"} /\ left' \subseteq Requests
    <3>1. PICK type \in EventTypes, r \in Requests \cup {None} :
            Observe(Event(type, r)) /\ Hears(type, r)
      BY <2>1 DEF Observes
    <3>2. /\ now' = now /\ heard' \in Nat /\ resolved' \in Seq(Incident)
          /\ Agrees(tracking', story') /\ InTurn(tracking', resolved')
      BY <3>1, Observing
    <3>3. Agrees(tracking, story)' /\ InTurn(tracking, resolved)'
      BY <3>2, NowStays
    <3>4. now \in Nat
      BY DEF IInv
    <3> QED
      BY <2>1, <3>2, <3>3, <3>4 DEF IInv
  <2> QED
    BY <1>1, <2>1, StepsObserve, ClosingKeeps, TickKeeps
<1>2. CASE UNCHANGED hvars
  <2>1. /\ now' = now /\ tracking' = tracking /\ resolved' = resolved /\ story' = story
        /\ breaker' = breaker /\ left' = left /\ heard' = heard
    BY <1>2 DEF hvars
  <2>2. Agrees(tracking, story)' /\ InTurn(tracking, resolved)'
    BY <2>1, NowStays DEF IInv
  <2> QED
    BY <2>1, <2>2 DEF IInv
<1> QED
  BY <1>1, <1>2

\* The invariant holds in every state.
THEOREM Invariant == HSpec => []IInv
<1> QED
  BY InitHolds, StepKeeps, PTL DEF HSpec

-----------------------------------------------------------------------------

\* Every buffer of the aggregator stays within its bound, whatever the events:
\* pending, timeline and archive.
THEOREM BuffersStayBounded == HSpec => []HTypeOK
<1>1. IInv => HTypeOK
  BY DEF IInv, HTypeOK, Agrees, Trackings, Bounded, InTurn
<1> QED
  BY <1>1, Invariant, PTL

\* What is active comes before what is resolved, newest first as it was kept.
LEMMA ListIsHistory ==
  ASSUME IInv
  PROVE  /\ SortedBy(resolved, {p \in (DOMAIN resolved) \X (DOMAIN resolved) :
                                  NewestFirst(resolved[p[1]], resolved[p[2]])}) = resolved
         /\ List \in Seq(Incident)
         /\ tracking.runtime = None => List = resolved
         /\ tracking.runtime # None =>
              /\ Len(List) = Len(resolved) + 1
              /\ List[1] = tracking.runtime
              /\ \A i \in 2..Len(List) : i - 1 \in 1..Len(resolved) /\ List[i] = resolved[i - 1]
<1> DEFINE B == {p \in (DOMAIN resolved) \X (DOMAIN resolved) :
                   NewestFirst(resolved[p[1]], resolved[p[2]])}
<1>1. /\ resolved \in Seq(Incident) /\ tracking.runtime \in Incident \cup {None}
      /\ InTurn(tracking, resolved) /\ now \in Nat
  BY DEF IInv, Agrees, Trackings
<1>2. \A i, j \in 1..Len(resolved) : i <= j => <<j, i>> \notin B
  <2> SUFFICES ASSUME NEW i \in 1..Len(resolved), NEW j \in 1..Len(resolved), i <= j
               PROVE  ~NewestFirst(resolved[j], resolved[i])
    OBVIOUS
  <2>1. resolved[i].startedAt \in Nat /\ resolved[j].startedAt \in Nat
    <3>1. resolved[i] \in Incident /\ resolved[j] \in Incident
      BY <1>1
    <3> QED
      BY <3>1 DEF Incident
  <2>2. resolved[j].startedAt <= resolved[j].endedAt /\ resolved[j].endedAt \in Nat
    BY <1>1, <2>1 DEF InTurn
  <2>3. i # j => resolved[j].endedAt <= resolved[i].startedAt
    BY <1>1 DEF InTurn
  <2> QED
    BY <2>1, <2>2, <2>3 DEF NewestFirst
<1>3. SortedBy(resolved, B) = resolved
  <2> HIDE DEF B
  <2> QED
    BY <1>1, <1>2, SortedStays
<1>4. List = (IF tracking.runtime = None THEN <<>> ELSE <<tracking.runtime>>) \o resolved
  BY <1>3 DEF List
<1>5. ASSUME tracking.runtime = None PROVE List = resolved
  BY <1>1, <1>4, <1>5
<1>6. ASSUME tracking.runtime # None
      PROVE  /\ List \in Seq(Incident)
             /\ Len(List) = Len(resolved) + 1
             /\ List[1] = tracking.runtime
             /\ \A i \in 2..Len(List) : i - 1 \in 1..Len(resolved) /\ List[i] = resolved[i - 1]
  <2>1. List = <<tracking.runtime>> \o resolved /\ tracking.runtime \in Incident
    BY <1>1, <1>4, <1>6
  <2> QED
    BY <1>1, <2>1
<1> QED
  BY <1>1, <1>3, <1>5, <1>6

\* Of two incidents of the list the lower has ended, before the upper began.
LEMMA ListIsInTurn ==
  ASSUME IInv, NEW i \in 1..Len(List), NEW j \in 1..Len(List)
  PROVE  /\ List[i].startedAt \in Nat
         /\ List[i].endedAt = None => i = 1
         /\ i < j => /\ List[j].endedAt \in Nat /\ List[j].endedAt # None
                     /\ List[j].startedAt <= List[j].endedAt
                     /\ List[j].endedAt <= List[i].startedAt
<1>1. /\ resolved \in Seq(Incident) /\ List \in Seq(Incident)
      /\ InTurn(tracking, resolved) /\ now \in Nat /\ None \notin Nat
  BY ListIsHistory, NullAssumption DEF IInv
<1>2. List[i].startedAt \in Nat /\ List[j].startedAt \in Nat
  <2>1. List[i] \in Incident /\ List[j] \in Incident
    BY <1>1
  <2> QED
    BY <2>1 DEF Incident
<1>3. ASSUME NEW k \in 1..Len(resolved)
      PROVE  /\ resolved[k].startedAt \in Nat /\ resolved[k].endedAt \in Nat
             /\ resolved[k].endedAt # None
             /\ resolved[k].startedAt <= resolved[k].endedAt
  <2>1. resolved[k].startedAt \in Nat
    <3>1. resolved[k] \in Incident
      BY <1>1
    <3> QED
      BY <3>1 DEF Incident
  <2>2. resolved[k].endedAt \in resolved[k].startedAt..now
    BY <1>1 DEF InTurn
  <2> QED
    BY <1>1, <2>1, <2>2
<1>4. \A k, l \in 1..Len(resolved) : k < l => resolved[l].endedAt <= resolved[k].startedAt
  BY <1>1 DEF InTurn
<1>5. CASE tracking.runtime = None
  BY <1>2, <1>3, <1>4, <1>5, ListIsHistory
<1>6. CASE tracking.runtime # None
  <2>1. /\ Len(List) = Len(resolved) + 1 /\ Len(resolved) \in Nat
        /\ List[1] = tracking.runtime
        /\ \A k \in 2..Len(List) : k - 1 \in 1..Len(resolved) /\ List[k] = resolved[k - 1]
    BY <1>1, <1>6, ListIsHistory
  <2>2. \A k \in 1..Len(resolved) : resolved[k].endedAt <= List[1].startedAt
    BY <1>1, <1>6, <2>1 DEF InTurn
  <2>3. ASSUME i # 1 PROVE List[i].endedAt # None
    <3>1. i \in 2..Len(List)
      BY <2>1, <2>3
    <3> QED
      BY <1>3, <2>1, <3>1
  <2>4. ASSUME i < j
        PROVE  /\ List[j].endedAt \in Nat /\ List[j].endedAt # None
               /\ List[j].startedAt <= List[j].endedAt
               /\ List[j].endedAt <= List[i].startedAt
    <3>1. j \in 2..Len(List)
      BY <2>1, <2>4
    <3>2. j - 1 \in 1..Len(resolved) /\ List[j] = resolved[j - 1]
      BY <2>1, <3>1
    <3>3. CASE i = 1
      BY <1>3, <2>2, <3>2, <3>3
    <3>4. CASE i # 1
      <4>1. i \in 2..Len(List)
        BY <2>1, <3>4
      <4>2. i - 1 \in 1..Len(resolved) /\ List[i] = resolved[i - 1] /\ i - 1 < j - 1
        BY <2>1, <2>4, <4>1
      <4> QED
        BY <1>3, <1>4, <3>2, <4>2
    <3> QED
      BY <3>3, <3>4
  <2> QED
    BY <1>2, <2>3, <2>4
<1> QED
  BY <1>5, <1>6

\* The history is told in order: what the gateway lists is already in the order
\* the page shows it in, the active incident first, and each incident ended
\* before the one above it began.
THEOREM HistoryIsToldInOrder == HSpec => []HistoryInOrder
<1>1. ASSUME IInv PROVE ToldInTurn
  <2> DEFINE B == {p \in (DOMAIN List) \X (DOMAIN List) : ShownBefore(List[p[1]], List[p[2]])}
  <2>1. List \in Seq(Incident)
    BY <1>1, ListIsHistory
  <2>2. DOMAIN List = 1..Len(List)
    BY <2>1
  <2>3. \A i, j \in 1..Len(List) : i <= j => <<j, i>> \notin B
    <3> SUFFICES ASSUME NEW i \in 1..Len(List), NEW j \in 1..Len(List), i <= j
                 PROVE  ~ShownBefore(List[j], List[i])
      OBVIOUS
    <3>1. List[i].startedAt \in Nat /\ List[j].startedAt \in Nat
      BY <1>1, ListIsInTurn
    <3>2. CASE i = j
      BY <3>1, <3>2 DEF ShownBefore, NewestFirst
    <3>3. CASE i < j
      <4>1. /\ List[j].endedAt # None
            /\ List[j].endedAt \in Nat
            /\ List[j].startedAt <= List[j].endedAt
            /\ List[j].endedAt <= List[i].startedAt
        BY <1>1, <3>3, ListIsInTurn
      <4>2. ~(List[j].startedAt > List[i].startedAt)
        BY <3>1, <4>1
      <4> QED
        BY <4>1, <4>2 DEF ShownBefore, NewestFirst
    <3> QED
      BY <3>2, <3>3
  <2>4. SortedBy(List, B) = List
    <3> HIDE DEF B
    <3> QED
      BY <2>1, <2>3, SortedStays
  <2>5. Displayed(List) = List
    BY <2>4 DEF Displayed
  <2>6. /\ \A i \in 1..Len(List) : List[i].endedAt = None => i = 1
        /\ \A i, j \in 1..Len(List) : i < j => List[j].endedAt <= List[i].startedAt
    BY <1>1, ListIsInTurn
  <2> QED
    BY <2>2, <2>5, <2>6 DEF ToldInTurn
<1>2. IInv => HTypeOK
  BY DEF IInv, HTypeOK, Agrees, Trackings, Bounded, InTurn
<1> QED
  BY <1>1, <1>2, Invariant, PTL DEF HistoryInOrder

\* The affected requests of an incident are its own: all that failed after its
\* start, and none of an earlier incident.
THEOREM AffectedAlwaysItsOwn == HSpec => []AffectedAreItsOwn
<1>1. IInv => AffectedAreItsOwn
  BY DEF IInv, AffectedAreItsOwn, Agrees, WhileActive, Knows
<1> QED
  BY <1>1, Invariant, PTL

\* While no incident is active the failures in the window are fewer than the
\* threshold, since each has a time of its own in the count.
LEMMA NoneIsMissed == IInv => NoIncidentMissed
<1> SUFFICES ASSUME IInv, tracking.runtime = None
             PROVE  /\ Cardinality(RecentFailures(story)) < FailureThreshold
                    /\ "CIRCUIT_OPENED" \notin TypesOf(story)
  BY DEF NoIncidentMissed
<1>1. /\ now \in Nat /\ tracking \in Trackings /\ story \in Seq(Events)
      /\ Past(tracking, story) /\ Between(tracking, story)
  BY DEF IInv, Agrees
<1>2. tracking.recent \in Seq(Nat) /\ Len(tracking.recent) \in Nat
  BY <1>1 DEF Trackings
<1>3. PICK h : Matches(h, tracking.recent, story)
  BY <1>1 DEF Between
<1>4. /\ Cardinality(RecentFailures(story)) \in Nat
      /\ Cardinality(RecentFailures(story)) <= Len(tracking.recent)
  <2>1. \A k \in 1..Len(story) : story[k].at <= now
    BY <1>1 DEF Past
  <2> QED
    BY <1>1, <1>2, <1>3, <2>1, RecentAreCounted
<1> QED
  BY <1>1, <1>2, <1>4, IncidentAssumption DEF Between

\* An incident is opened by a step that observes an event.
LEMMA OpeningsObserve ==
  ASSUME IInv, [HNext]_hvars, heard' # heard, tracking'.runtime # None
  PROVE  Observes
<1>1. HNext
  BY DEF hvars
<1>2. ~HTick
  BY DEF HTick
<1> QED
  BY <1>1, <1>2, StepsObserve, ClosingKeeps

\* Incidents are opened exactly on evidence: threshold failures in the window
\* since the last one, or a circuit that opens.
THEOREM OpenedOnEvidenceOnly == HSpec => OpenedExactlyOnEvidence
<1>1. IInv /\ [HNext]_hvars =>
        [Opens => \/ story'[Len(story')].type = "CIRCUIT_OPENED"
                  \/ Cardinality(RecentFailures(story')) >= FailureThreshold]_hvars
  <2> SUFFICES ASSUME IInv, [HNext]_hvars, Opens
               PROVE  \/ story'[Len(story')].type = "CIRCUIT_OPENED"
                      \/ Cardinality(RecentFailures(story')) >= FailureThreshold
    OBVIOUS
  <2>1. PICK type \in EventTypes, r \in Requests \cup {None} :
          Observe(Event(type, r)) /\ Hears(type, r)
    BY OpeningsObserve DEF Opens, Observes
  <2> QED
    BY <2>1, Observing
<1> QED
  BY <1>1, NoneIsMissed, Invariant, PTL DEF HSpec, OpenedExactlyOnEvidence, OpenedOnEvidence

\* An incident ends in calm, or because the circuit closes.
THEOREM IncidentsEndInCalm == HSpec => ResolvedWhenCalm
<1>1. IInv /\ [HNext]_hvars =>
        [(tracking.runtime # None /\ (tracking'.runtime = None \/ Opens)) =>
           \/ breaker = "HALF_OPEN" /\ breaker' = "CLOSED"
           \/ \A i \in FailuresIn(story) : now - story[i].at >= RecoveryQuiet]_hvars
  <2> SUFFICES ASSUME IInv, [HNext]_hvars, tracking.runtime # None,
                      tracking'.runtime = None \/ Opens,
                      ~(breaker = "HALF_OPEN" /\ breaker' = "CLOSED")
               PROVE  \A i \in FailuresIn(story) : now - story[i].at >= RecoveryQuiet
    OBVIOUS
  <2>1. HNext /\ ~HTick
    BY DEF hvars, HTick, Tick, Opens
  <2>2. Observes
    BY <2>1, StepsObserve, ClosingKeeps
  <2>3. Quiet(tracking)
    <3>1. PICK type \in EventTypes, r \in Requests \cup {None} :
            Observe(Event(type, r)) /\ Hears(type, r)
      BY <2>2 DEF Observes
    <3> QED
      BY <3>1, Observing
  <2>4. /\ now \in Nat /\ tracking.runtime \in Incident /\ story \in Seq(Events)
        /\ \A k \in FailuresIn(story) : story[k].at <= tracking.runtime.lastFailureAt
    BY DEF IInv, Agrees, Trackings, WhileActive, Knows
  <2>5. now - tracking.runtime.lastFailureAt >= RecoveryQuiet
    BY <2>3 DEF Quiet
  <2>6. tracking.runtime.lastFailureAt \in Nat
    BY <2>4 DEF Incident
  <2> SUFFICES ASSUME NEW k \in FailuresIn(story)
               PROVE  now - story[k].at >= RecoveryQuiet
    OBVIOUS
  <2>7. story[k].at \in Nat
    <3>1. story[k] \in Events
      BY <2>4 DEF FailuresIn
    <3> QED
      BY <3>1 DEF Events
  <2>8. story[k].at <= tracking.runtime.lastFailureAt
    BY <2>4
  <2> QED
    BY <2>4, <2>5, <2>6, <2>7, <2>8, IncidentAssumption
<1> QED
  BY <1>1, Invariant, PTL DEF HSpec, ResolvedWhenCalm

\* Severity tells the worst an incident has seen, does not come down while the
\* incident is active, and misses no failover and no opening of the circuit
\* observed meanwhile: observe and createIncident of
\* incidentAggregator.service.ts.
THEOREM SeverityOnlyEscalates == HSpec => SeverityEscalates
<1>1. IInv /\ IInv' /\ [HNext]_hvars =>
        [tracking'.runtime # None =>
           /\ tracking'.runtime.severity = "CRITICAL" <=>
                tracking'.runtime.circuitOpened \/ tracking'.runtime.failoverOccurred
           /\ tracking.runtime # None /\ tracking.runtime.severity = "CRITICAL" /\ ~Opens =>
                tracking'.runtime.severity = "CRITICAL"
           /\ tracking.runtime # None /\ heard' # heard /\ ~Opens =>
                LET event == story'[Len(story')]
                IN  /\ event.type = "CIRCUIT_OPENED" => tracking'.runtime.circuitOpened
                    /\ event.type \in FailoverEvents => tracking'.runtime.failoverOccurred]_hvars
  <2> SUFFICES ASSUME IInv, IInv', [HNext]_hvars, tracking'.runtime # None
               PROVE  /\ tracking'.runtime.severity = "CRITICAL" <=>
                           tracking'.runtime.circuitOpened \/ tracking'.runtime.failoverOccurred
                      /\ (tracking.runtime # None /\ tracking.runtime.severity = "CRITICAL"
                            /\ ~Opens) =>
                           tracking'.runtime.severity = "CRITICAL"
                      /\ (tracking.runtime # None /\ heard' # heard /\ ~Opens) =>
                           LET event == story'[Len(story')]
                           IN  /\ event.type = "CIRCUIT_OPENED" =>
                                    tracking'.runtime.circuitOpened
                               /\ event.type \in FailoverEvents =>
                                    tracking'.runtime.failoverOccurred
    OBVIOUS
  <2>1. tracking'.runtime.severity = "CRITICAL" <=>
          tracking'.runtime.circuitOpened \/ tracking'.runtime.failoverOccurred
    BY DEF IInv, Agrees, WhileActive, Grave
  <2>2. ASSUME tracking.runtime # None, tracking.runtime.severity = "CRITICAL", ~Opens
        PROVE  tracking'.runtime.severity = "CRITICAL"
    <3>1. CASE tracking' = tracking
      BY <2>2, <3>1
    <3>2. CASE Observes
      <4>1. PICK type \in EventTypes, r \in Requests \cup {None} :
              Observe(Event(type, r)) /\ Hears(type, r)
        BY <3>2 DEF Observes
      <4> QED
        BY <2>2, <4>1, Observing
    <3>3. tracking' = tracking \/ Observes
      BY StepsObserve, ClosingKeeps DEF hvars, HTick, Tick
    <3> QED
      BY <3>1, <3>2, <3>3
  <2>3. ASSUME tracking.runtime # None, heard' # heard, ~Opens
        PROVE  /\ story'[Len(story')].type = "CIRCUIT_OPENED" => tracking'.runtime.circuitOpened
               /\ story'[Len(story')].type \in FailoverEvents =>
                    tracking'.runtime.failoverOccurred
    <3>1. PICK type \in EventTypes, r \in Requests \cup {None} :
            Observe(Event(type, r)) /\ Hears(type, r)
      BY <2>3, OpeningsObserve DEF Observes
    <3> QED
      BY <2>3, <3>1, Observing
  <2> QED
    BY <2>1, <2>2, <2>3
<1> QED
  BY <1>1, Invariant, PTL DEF HSpec, SeverityEscalates

=============================================================================
