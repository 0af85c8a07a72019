----------------------------- MODULE Dashboard -----------------------------
(***************************************************************************)
(* A browser tab on one page of the dashboard, which polls the gateway     *)
(* through usePolling, and the gateway it reads: events are recorded, the  *)
(* process restarts, the operator changes the filter, leaves the page and  *)
(* hides the tab, requests are slow and fail.                              *)
(*                                                                         *)
(* page picks the poller: "metrics" (the shared provider with its derived  *)
(* series, which no navigation unmounts), "events" (EventsPage, which      *)
(* refetches when the filter changes) or "history" (AnomaliesPage's        *)
(* history of the selected service, which does not).  The three share no   *)
(* state but the gateway they read.                                        *)
(***************************************************************************)
EXTENDS EventStore, FiniteSets

CONSTANTS
    Pages,        \* the pollers: "metrics", "events", "history"
    Interval,     \* [Pages -> intervalMs], in ticks
    Timeout,      \* fetchJson's timeoutMs, in ticks
    Filters,      \* [Pages -> what the page may ask for]
    NoService,    \* the selection of a history page without reports
    HistoryCap,   \* HISTORY_CAP
    MaxChanges    \* bound: events recorded and restarts, together

ASSUME DashboardAssumption ==
    /\ Interval \in [Pages -> Nat \ {0}] /\ Timeout \in Nat \ {0}
    /\ HistoryCap \in Nat \ {0} /\ MaxChanges \in Nat

VARIABLES
    page,
    gateway,   \* [events, totals]; history: [version, starts, recorded]
    tab,       \* [visible, mounted, filter]
    hook,      \* usePolling: [data, status, isStale, inFlight, next]
    fetch,     \* the requests in flight: [left, query, answer]
    series,    \* the provider's effect: [prev, points]; history: [credited]
    calm       \* history: ticks since the tab changed or a request failed

vars == <<page, gateway, tab, hook, fetch, series, calm>>

Null == [version |-> 0]          \* no data yet, no answer yet
NoTotals == [requestCount |-> 0, retryCount |-> 0]

Mounted == [data |-> Null, status |-> "loading", isStale |-> FALSE,
            inFlight |-> FALSE, next |-> Interval[page]]

\* How old what a page shows may be, and how long it may show what was asked
\* before: a request in flight, an interval, and the request after it.
Patience == 2 * Timeout + Interval[page]

-----------------------------------------------------------------------------
(* The gateway.  Of the snapshot's totals, the two that decide whether the *)
(* series gains a point; its rates and latencies are left out.             *)

Counted(totals, type) ==
    CASE type = "REQUEST_STARTED" -> [totals EXCEPT !.requestCount = @ + 1]
      [] type = "RETRY_ATTEMPT"   -> [totals EXCEPT !.retryCount = @ + 1]
      [] OTHER                    -> totals

\* record(): the event goes to the store and to the collector.
Record(type) ==
    /\ gateway.version < MaxChanges
    /\ LET event == [id |-> gateway.version + 1, type |-> type]
       IN  gateway' = [events |-> Appended(gateway.events, event),
                       totals |-> Counted(gateway.totals, type),
                       version |-> gateway.version + 1,
                       starts |-> gateway.starts,
                       recorded |-> Append(gateway.recorded, event)]
    /\ UNCHANGED <<page, tab, hook, fetch, series, calm>>

\* All of the gateway's state is in memory.
Restart ==
    /\ gateway.version < MaxChanges
    /\ gateway' = [events |-> <<>>, totals |-> NoTotals, version |-> gateway.version + 1,
                   starts |-> gateway.starts + 1, recorded |-> <<>>]
    /\ UNCHANGED <<page, tab, hook, fetch, series, calm>>

Answer(query) ==
    [version |-> gateway.version + 1, starts |-> gateway.starts,
     totals |-> gateway.totals, query |-> query, age |-> 0]

-----------------------------------------------------------------------------
(* usePolling.                                                             *)

\* Mutant: the slot of a failed request is not given back.
SettledOnSuccess(h) ==
    [h EXCEPT !.inFlight = h.isStale]

\* The finally of run().
Settled(h) == [h EXCEPT !.inFlight = FALSE]

\* Mutant: requests overlap.
RunAlways(h, fetches, query) ==
    <<[h EXCEPT !.inFlight = TRUE],
      fetches \cup {[left |-> Timeout, query |-> query, answer |-> Null]}>>

\* run(): nothing while a request is in flight, whatever it asked for.  A
\* history page without a selection resolves to nothing, with no request.
Run(h, fetches, query) ==
    IF h.inFlight THEN <<h, fetches>>
    ELSE <<[h EXCEPT !.inFlight = TRUE],
           fetches \cup {[left |-> Timeout, query |-> query,
                          answer |-> IF query = NoService THEN Answer(query) ELSE Null]}>>

RunNow(h, query) ==
    LET r == Run(h, fetch, query) IN hook' = r[1] /\ fetch' = r[2]

\* The timer: one for the life of the hook, idle while the tab is hidden.
Poll ==
    /\ tab.mounted /\ hook.next = 0
    /\ LET h == [hook EXCEPT !.next = Interval[page]]
       IN IF tab.visible THEN RunNow(h, tab.filter) ELSE hook' = h /\ UNCHANGED fetch
    /\ UNCHANGED <<page, gateway, tab, series, calm>>

\* The routes throw on an invalid query of events, and on the history of a
\* service the detector has no report of: before the first requests of a
\* gateway process no service has one.
Throws(query) ==
    \/ page = "events" /\ ~ValidQuery(query)
    \/ page = "history" /\ query # NoService /\ gateway.totals.requestCount = 0

\* The gateway answers with what it holds then.
Serve(f) ==
    /\ f.answer = Null /\ ~Throws(f.query)
    /\ fetch' = (fetch \ {f}) \cup {[f EXCEPT !.answer = Answer(f.query)]}
    /\ UNCHANGED <<page, gateway, tab, hook, series, calm>>

-----------------------------------------------------------------------------
(* The provider's derived series.                                          *)

Delta(current, previous) == IF current > previous THEN current - previous ELSE 0

Point(totals, prev) ==
    [requests |-> Delta(totals.requestCount, prev.requestCount),
     retries |-> Delta(totals.retryCount, prev.retryCount)]

Capped(points) ==
    IF Len(points) > HistoryCap
    THEN SubSeq(points, Len(points) - HistoryCap + 1, Len(points)) ELSE points

\* Mutant: counters below the last ones are waited out.
ExtendedFromHighWater(s, totals) ==
    IF s.prev # Null /\ totals.requestCount < s.prev.requestCount THEN s
    ELSE IF s.prev = Null THEN [s EXCEPT !.prev = totals]
    ELSE [prev |-> totals,
          points |-> Capped(Append(s.points, Point(totals, s.prev))),
          credited |-> s.credited + Point(totals, s.prev).requests]

\* The effect on new metrics: the first totals, and those of a restarted
\* gateway, are a baseline; others give a point if anything was counted.
Extended(s, totals) ==
    IF \/ s.prev = Null
       \/ totals.requestCount < s.prev.requestCount
       \/ totals.requestCount = s.prev.requestCount /\ totals.retryCount = s.prev.retryCount
    THEN [s EXCEPT !.prev = totals]
    ELSE [prev |-> totals,
          points |-> Capped(Append(s.points, Point(totals, s.prev))),
          credited |-> s.credited + Point(totals, s.prev).requests]

-----------------------------------------------------------------------------
Deliver(f) ==
    /\ f.answer # Null
    /\ fetch' = fetch \ {f}
    /\ hook' = Settled([hook EXCEPT !.data = f.answer, !.status = "ready",
                                    !.isStale = FALSE])
    /\ series' = IF page = "metrics" THEN Extended(series, f.answer.totals) ELSE series
    /\ UNCHANGED <<page, gateway, tab, calm>>

\* The last data stay, marked stale.
Rejected(h) ==
    Settled([h EXCEPT !.isStale = TRUE, !.status = IF @ = "loading" THEN "error" ELSE @])

\* The error handler answers what a route has thrown with 400 or 404.
Refuse(f) ==
    /\ f.answer = Null /\ Throws(f.query)
    /\ fetch' = fetch \ {f}
    /\ hook' = Rejected(hook)
    /\ calm' = 0
    /\ UNCHANGED <<page, gateway, tab, series>>

\* The gateway is down, limits the rate (429), or is too slow, or its answer
\* is lost.
Fail(f) ==
    /\ f.query # NoService
    /\ fetch' = fetch \ {f}
    /\ hook' = Rejected(hook)
    /\ calm' = 0
    /\ UNCHANGED <<page, gateway, tab, series>>

-----------------------------------------------------------------------------
(* The operator.                                                           *)

\* The events page refreshes at once when its filter changes.
ChangeFilter(query) ==
    /\ page = "events" /\ tab.mounted /\ query # tab.filter
    /\ tab' = [tab EXCEPT !.filter = query]
    /\ RunNow(hook, query)
    /\ calm' = 0
    /\ UNCHANGED <<page, gateway, series>>

\* Another service is selected, by the operator or because the reports have
\* changed; its history waits for the timer.
SelectService(service) ==
    /\ page = "history" /\ tab.mounted /\ service # tab.filter
    /\ tab' = [tab EXCEPT !.filter = service]
    /\ calm' = 0
    /\ UNCHANGED <<page, gateway, hook, fetch, series>>

Hide ==
    /\ tab.visible
    /\ tab' = [tab EXCEPT !.visible = FALSE]
    /\ calm' = 0
    /\ UNCHANGED <<page, gateway, hook, fetch, series>>

Show ==
    /\ ~tab.visible
    /\ tab' = [tab EXCEPT !.visible = TRUE]
    /\ IF tab.mounted THEN RunNow(hook, tab.filter) ELSE UNCHANGED <<hook, fetch>>
    /\ UNCHANGED <<page, gateway, series, calm>>

\* The unmounted component's request, if any, is ignored when it settles.
Leave ==
    /\ tab.mounted /\ page # "metrics"
    /\ tab' = [tab EXCEPT !.mounted = FALSE]
    /\ hook' = Mounted /\ fetch' = {} /\ calm' = 0
    /\ UNCHANGED <<page, gateway, series>>

\* A new component with new refs asks at once.
Enter(query) ==
    /\ ~tab.mounted
    /\ tab' = [tab EXCEPT !.mounted = TRUE, !.filter = query]
    /\ LET r == Run(Mounted, {}, query) IN hook' = r[1] /\ fetch' = r[2]
    /\ UNCHANGED <<page, gateway, series, calm>>

-----------------------------------------------------------------------------
Older(x) ==
    IF x = Null \/ x.age > Patience THEN x ELSE [x EXCEPT !.age = @ + 1]

Tick ==
    /\ tab.mounted /\ hook.next > 0 /\ \A f \in fetch : f.left > 0
    /\ hook' = [hook EXCEPT !.next = @ - 1, !.data = Older(@)]
    /\ fetch' = {[f EXCEPT !.left = @ - 1, !.answer = Older(@)] : f \in fetch}
    /\ calm' = IF tab.visible /\ calm <= Patience THEN calm + 1 ELSE calm
    /\ UNCHANGED <<page, gateway, tab, series>>

Init ==
    /\ page \in Pages
    /\ gateway = [events |-> <<>>, totals |-> NoTotals,
                  version |-> 0, starts |-> 0, recorded |-> <<>>]
    /\ \E query \in Filters[page] :
         /\ tab = [visible |-> TRUE, mounted |-> TRUE, filter |-> query]
         /\ LET r == Run(Mounted, {}, query) IN hook = r[1] /\ fetch = r[2]
    /\ series = [prev |-> Null, points |-> <<>>, credited |-> 0]
    /\ calm = 0

Next ==
    \/ \E type \in EventTypes : Record(type)
    \/ Restart
    \/ Poll
    \/ \E f \in fetch : Serve(f) \/ Refuse(f) \/ Deliver(f) \/ Fail(f)
    \/ \E query \in Filters[page] : ChangeFilter(query) \/ SelectService(query) \/ Enter(query)
    \/ Hide
    \/ Show
    \/ Leave
    \/ Tick

Spec == Init /\ [][Next]_vars

-----------------------------------------------------------------------------
(* A visible page that has been left alone for Patience, none of whose     *)
(* requests failed meanwhile, shows the answer to the filter it now has,   *)
(* no older than Patience and not marked stale: a refresh dropped because  *)
(* another request was in flight is made up for by the timer.              *)
ShownWithin ==
    tab.mounted /\ tab.visible /\ calm > Patience =>
        /\ hook.data # Null
        /\ hook.data.query = tab.filter /\ hook.data.age <= Patience
        /\ hook.status = "ready" /\ ~hook.isStale

(* What a mounted page shows never goes back to an earlier state of the    *)
(* gateway, however its requests were delayed.                             *)
NeverBackInTime ==
    [][tab.mounted /\ tab'.mounted => hook'.data.version >= hook.data.version]_vars

\* How many events a limit asks for, also one the routes would not accept.
AskedFor(limit) == IF limit < 1 THEN 1 ELSE IF limit > Capacity THEN Capacity ELSE limit

\* The queries the routes accept, and two that list() cuts to its own bounds.
Queries ==
    {query \in Filters["events"] : ValidQuery(query)}
        \cup [type : {AnyType}, limit : {0, Capacity + 1}]

(* For every query the routes accept, and for one with a limit of 0 or     *)
(* above the ring's capacity, the list is the newest of the matching       *)
(* events among the last Capacity recorded since the gateway started: as   *)
(* many as there are up to the limit, but one at least and the ring's      *)
(* capacity at most, newest first.                                         *)
ListIsNewestMatching ==
    LET Stored == {e \in {gateway.recorded[i] : i \in DOMAIN gateway.recorded} :
                       Cardinality({i \in DOMAIN gateway.recorded :
                                        gateway.recorded[i].id > e.id}) < Capacity}
    IN  \A query \in Queries :
            LET Matching == {e \in Stored : Matches(e, query)}
                list == List(gateway.events, query)
                Listed == {list[i] : i \in DOMAIN list}
            IN  /\ Listed \subseteq Matching
                /\ Len(list) = (IF Cardinality(Matching) < AskedFor(query.limit)
                                THEN Cardinality(Matching) ELSE AskedFor(query.limit))
                /\ \A i, j \in DOMAIN list : i < j => list[i].id > list[j].id
                /\ \A e \in Matching \ Listed : \A l \in Listed : l.id > e.id

(* Between two snapshots of one gateway process the series gains exactly   *)
(* the requests the gateway counted between them, also after a restart has *)
(* reset the counters; across a restart it never credits more than the     *)
(* restarted gateway counted.                                              *)
SeriesFollowsTheGateway ==
    [][page = "metrics" /\ hook.data # Null /\ hook'.data # Null =>
        LET gained == series'.credited - series.credited
            before == hook.data.totals.requestCount
            now == hook'.data.totals.requestCount
        IN  IF hook'.data.starts = hook.data.starts
            THEN gained = now - before ELSE gained <= now]_vars
=============================================================================
