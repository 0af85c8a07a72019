----------------------------- MODULE EventStore -----------------------------
(***************************************************************************)
(* The gateway's memory of events and the read API over it: the bounded    *)
(* ring, the filtered view, and the answers of GET /api/events.  An event  *)
(* is [id, type]; a query may name a type and has a limit.                 *)
(***************************************************************************)
EXTENDS Arrays, SequencesExt

CONSTANTS
    Capacity,     \* events kept: env.eventsCapacity, for the ring and the routes
    EventTypes,   \* EVENT_TYPES
    AnyType           \* a query's filter that is not given

ASSUME EventStoreAssumption == Capacity \in Nat \ {0} /\ AnyType \notin EventTypes

\* The newest events are kept, the oldest cut off in front.
Retained(events) ==
    IF Len(events) > Capacity
    THEN SubSeq(events, Len(events) - Capacity + 1, Len(events)) ELSE events

Appended(events, event) == Retained(Append(events, event))

Matches(event, query) == query.type = AnyType \/ event.type = query.type

\* Mutant: the first `limit` of the matching events.
ListOldest(events, query) ==
    LET filtered == Kept(events, {i \in DOMAIN events : Matches(events[i], query)})
    IN  Reverse(SubSeq(filtered, 1,
                       IF Len(filtered) > query.limit THEN query.limit ELSE Len(filtered)))

\* list(): the last `limit` of the matching events, newest first.
List(events, query) ==
    LET filtered == Kept(events, {i \in DOMAIN events : Matches(events[i], query)})
        atLeastOne == IF query.limit < 1 THEN 1 ELSE query.limit
        limit == IF atLeastOne > Capacity THEN Capacity ELSE atLeastOne
        from == IF Len(filtered) > limit THEN Len(filtered) - limit + 1 ELSE 1
    IN  Reverse(SubSeq(filtered, from, Len(filtered)))

\* The route's validation: an unknown type or a limit outside the ring is
\* answered 400 by the error handler, before anything is read.
ValidQuery(query) ==
    query.type \in EventTypes \cup {AnyType} /\ query.limit \in 1..Capacity
=============================================================================
