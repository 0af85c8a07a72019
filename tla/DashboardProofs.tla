---------------------------- MODULE DashboardProofs ----------------------------
(***************************************************************************)
(* Theorems about Dashboard for every interval, timeout, filter, capacity  *)
(* and length of run: a page left alone shows the answer to its filter in  *)
(* time, what it shows never goes back, the derived series gains what the  *)
(* gateway counted, and the list of events is the newest that match.       *)
(***************************************************************************)
EXTENDS Dashboard, ArraysProofs

Totals == [requestCount : Nat, retryCount : Nat]

Answers == [version : Nat \ {0}, starts : Nat, totals : Totals,
            query : Filters[page], age : Nat]

Fetches == [left : Nat, query : Filters[page], answer : Answers \cup {Null}]

Hooks == [data : Answers \cup {Null}, status : {"loading", "ready", "error"},
          isStale : BOOLEAN, inFlight : BOOLEAN, next : Nat]

Events == [id : Nat \ {0}, type : EventTypes]

Points == [requests : Nat, retries : Nat]

TypeOK ==
  /\ page \in Pages
  /\ gateway \in [events : Seq(Events), totals : Totals, version : Nat,
                  starts : Nat, recorded : Seq(Events)]
  /\ tab \in [visible : BOOLEAN, mounted : BOOLEAN, filter : Filters[page]]
  /\ hook \in Hooks
  /\ fetch \subseteq Fetches
  /\ series \in [prev : Totals \cup {Null}, points : Seq(Points), credited : Nat]
  /\ calm \in Nat

\* One request at a time, and none without a page; calm counts only while the
\* page is there to be seen.
OneRequest ==
  /\ hook.inFlight <=> fetch # {}
  /\ \A f, g \in fetch : f = g
  /\ ~tab.mounted => fetch = {} /\ hook.data = Null
  /\ ~tab.mounted \/ ~tab.visible => calm = 0
  /\ page = "metrics" => tab.mounted

\* What the gateway answered, it had counted.
Counts(x) ==
  x # Null =>
    /\ x.version <= gateway.version + 1
    /\ x.starts <= gateway.starts
    /\ x.starts = gateway.starts =>
         x.totals.requestCount <= gateway.totals.requestCount

\* x was answered no earlier than y.
Follows(x, y) ==
  x # Null /\ y # Null =>
    /\ y.version <= x.version
    /\ y.starts = x.starts => y.totals.requestCount <= x.totals.requestCount

InOrder ==
  /\ Counts(hook.data)
  /\ \A f \in fetch :
       /\ Counts(f.answer)
       /\ Follows(f.answer, hook.data)
       /\ f.answer # Null => f.answer.query = f.query

\* The series was last extended by what is shown.
SeriesFollows ==
  page = "metrics" =>
    series.prev = IF hook.data = Null THEN Null ELSE hook.data.totals

\* What is shown answers what is asked.
Fits ==
  /\ hook.data # Null /\ hook.data.query = tab.filter
  /\ hook.status = "ready" /\ ~hook.isStale

\* After another wait, either the page has not been left alone for more than
\* limit or it shows what it should, no older than limit.
Within(wait, limit) ==
  calm + wait <= limit \/ (Fits /\ hook.data.age + wait <= limit)

\* The timer, the request in flight and its answer are in time.  A request
\* that asked what is no longer asked is over within Timeout of the change,
\* the timer's next turn comes within Interval after it, and the answer to that
\* within another Timeout.
Timely ==
  /\ hook.next <= Interval[page]
  /\ \A f \in fetch :
       /\ f.left <= Timeout
       /\ f.answer # Null => f.answer.age + f.left <= Timeout

Punctual ==
  tab.mounted /\ tab.visible =>
    /\ fetch = {} => Within(hook.next, Timeout + Interval[page])
    /\ \A f \in fetch : IF f.query = tab.filter THEN Within(f.left, Patience)
                        ELSE calm + f.left <= Timeout

DInv == TypeOK /\ OneRequest /\ InOrder /\ SeriesFollows /\ Timely /\ Punctual

\* What there is to say of a page's interval.
LEMMA PageFacts ==
  ASSUME TypeOK
  PROVE  /\ Interval[page] \in Nat /\ Interval[page] >= 1
         /\ Timeout \in Nat /\ Timeout >= 1
         /\ Patience = 2 * Timeout + Interval[page] /\ Patience \in Nat
  BY DashboardAssumption DEF TypeOK, Patience

\* The sets of values depend on the page only, which never changes.
LEMMA SamePage ==
  ASSUME page' = page
  PROVE  Answers' = Answers /\ Fetches' = Fetches /\ Hooks' = Hooks /\ Patience' = Patience
  BY DEF Answers, Fetches, Hooks, Patience

\* Null is neither an answer nor totals.
LEMMA NullIsNothing ==
  /\ Null.version = 0 /\ Null \notin Answers /\ Null \notin Totals
<1>1. Null.version = 0 /\ Null \notin Answers
  BY DEF Null, Answers
<1>2. DOMAIN Null = {"version"}
  BY DEF Null
<1>3. \A t \in Totals : "requestCount" \in DOMAIN t
  BY DEF Totals
<1> QED
  BY <1>1, <1>2, <1>3

\* The end of a sequence is a sequence of the same things.
LEMMA TailFits ==
  ASSUME NEW S, NEW w \in Seq(S), NEW n \in Nat \ {0}, Len(w) > n
  PROVE  SubSeq(w, Len(w) - n + 1, Len(w)) \in Seq(S)
<1>1. Len(w) \in Nat /\ Len(w) - n + 1 \in Int /\ Len(w) - n + 1 >= 1
  OBVIOUS
<1>2. \A i \in (Len(w) - n + 1)..Len(w) : w[i] \in S
  BY <1>1
<1> QED
  BY <1>1, <1>2, SubSeqProperties

\* What the gateway answers now is later than whatever it answered before.
LEMMA AnswerIsLatest ==
  ASSUME TypeOK, NEW query \in Filters[page], NEW y \in Answers \cup {Null}, Counts(y)
  PROVE  /\ Answer(query) \in Answers /\ Answer(query) # Null
         /\ Answer(query).query = query /\ Answer(query).age = 0
         /\ Counts(Answer(query)) /\ Follows(Answer(query), y)
<1>1. /\ gateway.version \in Nat /\ gateway.starts \in Nat /\ gateway.totals \in Totals
      /\ gateway.totals.requestCount \in Nat
  BY DEF TypeOK, Totals
<1> DEFINE a == Answer(query)
<1>2. /\ a \in Answers
      /\ a.version = gateway.version + 1 /\ a.starts = gateway.starts
      /\ a.totals = gateway.totals /\ a.query = query /\ a.age = 0
  BY <1>1 DEF Answer, Answers
<1>3. a # Null
  BY <1>2, NullIsNothing
<1> HIDE DEF a
<1>4. Counts(a) /\ Follows(a, y)
  BY <1>1, <1>2 DEF Counts, Follows
<1> QED
  BY <1>2, <1>3, <1>4 DEF a

-----------------------------------------------------------------------------
(* The gateway's steps, which leave the page alone.                         *)

\* The gateway counts more, or starts anew: what it has answered stays right.
LEMMA GatewayMoves ==
  ASSUME DInv, UNCHANGED <<page, tab, hook, fetch, series, calm>>,
         gateway' \in [events : Seq(Events), totals : Totals, version : Nat,
                       starts : Nat, recorded : Seq(Events)],
         gateway'.version >= gateway.version,
         \/ gateway'.starts > gateway.starts
         \/ /\ gateway'.starts = gateway.starts
            /\ gateway'.totals.requestCount >= gateway.totals.requestCount
  PROVE  DInv'
<1>1. /\ page' = page /\ tab' = tab /\ hook' = hook /\ fetch' = fetch
      /\ series' = series /\ calm' = calm
  OBVIOUS
<1>2. TypeOK'
  BY <1>1, SamePage DEF DInv, TypeOK, Events, Totals, Points
<1>3. OneRequest' /\ SeriesFollows' /\ Timely'
  BY <1>1 DEF DInv, OneRequest, SeriesFollows, Timely
<1>4. \A x \in Answers \cup {Null} : Counts(x) => Counts(x)'
  <2> SUFFICES ASSUME NEW x \in Answers, Counts(x) PROVE Counts(x)'
    BY DEF Counts, Null
  <2>1. /\ x.version \in Nat /\ x.starts \in Nat /\ x.totals.requestCount \in Nat
        /\ gateway.version \in Nat /\ gateway.starts \in Nat
        /\ gateway.totals.requestCount \in Nat
        /\ gateway'.version \in Nat /\ gateway'.starts \in Nat
        /\ gateway'.totals.requestCount \in Nat
    BY DEF DInv, TypeOK, Answers, Totals
  <2> QED
    BY <2>1 DEF Counts
<1>5. InOrder'
  BY <1>1, <1>4 DEF DInv, TypeOK, Hooks, Fetches, InOrder, Counts, Follows
<1>6. Punctual'
  BY <1>1, SamePage DEF DInv, Punctual, Within, Fits
<1> QED
  BY <1>2, <1>3, <1>5, <1>6 DEF DInv
\* Counting an event makes the totals no smaller.
LEMMA CountedGrows ==
  ASSUME NEW t \in Totals, NEW type
  PROVE  Counted(t, type) \in Totals /\ Counted(t, type).requestCount >= t.requestCount
<1>1. t.requestCount \in Nat /\ t.retryCount \in Nat
  BY DEF Totals
<1>2. CASE type = "REQUEST_STARTED"
  <2>1. Counted(t, type) = [t EXCEPT !.requestCount = t.requestCount + 1]
    BY <1>2 DEF Counted
  <2> QED
    BY <1>1, <2>1 DEF Totals
<1>3. CASE type = "RETRY_ATTEMPT"
  <2>1. Counted(t, type) = [t EXCEPT !.retryCount = t.retryCount + 1]
    BY <1>3 DEF Counted
  <2> QED
    BY <1>1, <2>1 DEF Totals
<1>4. CASE type \notin {"REQUEST_STARTED", "RETRY_ATTEMPT"}
  BY <1>1, <1>4 DEF Counted
<1> QED
  BY <1>2, <1>3, <1>4

\* An event is recorded: the store stays a sequence of events.
LEMMA RecordKeeps ==
  ASSUME DInv, NEW type \in EventTypes, Record(type)
  PROVE  DInv'
<1> DEFINE e == [id |-> gateway.version + 1, type |-> type]
           g == [events |-> Appended(gateway.events, e),
                 totals |-> Counted(gateway.totals, type),
                 version |-> gateway.version + 1, starts |-> gateway.starts,
                 recorded |-> Append(gateway.recorded, e)]
<1>1. /\ gateway' = g /\ UNCHANGED <<page, tab, hook, fetch, series, calm>>
  BY DEF Record
<1>2. /\ gateway.version \in Nat /\ gateway.starts \in Nat /\ gateway.totals \in Totals
      /\ gateway.events \in Seq(Events) /\ gateway.recorded \in Seq(Events)
  BY DEF DInv, TypeOK
<1>3. e \in Events
  BY <1>2 DEF Events
<1> HIDE DEF e
<1>4. Appended(gateway.events, e) \in Seq(Events)
  <2> DEFINE w == Append(gateway.events, e)
  <2>1. w \in Seq(Events)
    BY <1>2, <1>3
  <2> HIDE DEF w
  <2>2. Retained(w) \in Seq(Events)
    BY <2>1, TailFits, EventStoreAssumption DEF Retained
  <2> QED
    BY <2>2 DEF Appended, w
<1>5. Append(gateway.recorded, e) \in Seq(Events)
  BY <1>2, <1>3
<1>6. /\ Counted(gateway.totals, type) \in Totals
      /\ Counted(gateway.totals, type).requestCount >= gateway.totals.requestCount
  BY <1>2, CountedGrows
<1>7. /\ g \in [events : Seq(Events), totals : Totals, version : Nat,
                starts : Nat, recorded : Seq(Events)]
      /\ g.version = gateway.version + 1 /\ g.starts = gateway.starts
      /\ g.totals = Counted(gateway.totals, type)
  BY <1>2, <1>4, <1>5, <1>6
<1> HIDE DEF g
<1>8. g.version >= gateway.version
  BY <1>2, <1>7
<1> QED
  BY <1>1, <1>6, <1>7, <1>8, GatewayMoves

\* A restart forgets what was counted, but not that there was a time before.
LEMMA RestartKeeps ==
  ASSUME DInv, Restart
  PROVE  DInv'
<1> DEFINE g == [events |-> <<>>, totals |-> NoTotals, version |-> gateway.version + 1,
                 starts |-> gateway.starts + 1, recorded |-> <<>>]
<1>1. /\ gateway' = g /\ UNCHANGED <<page, tab, hook, fetch, series, calm>>
  BY DEF Restart
<1>2. gateway.version \in Nat /\ gateway.starts \in Nat
  BY DEF DInv, TypeOK
<1>3. NoTotals \in Totals /\ <<>> \in Seq(Events)
  BY DEF NoTotals, Totals
<1>4. /\ g \in [events : Seq(Events), totals : Totals, version : Nat,
                starts : Nat, recorded : Seq(Events)]
      /\ g.version = gateway.version + 1 /\ g.starts = gateway.starts + 1
  BY <1>2, <1>3
<1> HIDE DEF g
<1>5. g.version >= gateway.version /\ g.starts > gateway.starts
  BY <1>2, <1>4
<1> QED
  BY <1>1, <1>4, <1>5, GatewayMoves

-----------------------------------------------------------------------------
(* The hook's requests.                                                     *)

\* The request run() makes; no selection, no request, and an answer at once.
Asked(query) ==
  [left |-> Timeout, query |-> query,
   answer |-> IF query = NoService THEN Answer(query) ELSE Null]

\* It asks what it is to ask, and begins with a whole timeout.
LEMMA AskedFits ==
  ASSUME TypeOK, NEW query \in Filters[page], NEW y \in Answers \cup {Null}, Counts(y)
  PROVE  /\ Asked(query) \in Fetches
         /\ Asked(query).left = Timeout /\ Asked(query).query = query
         /\ Counts(Asked(query).answer) /\ Follows(Asked(query).answer, y)
         /\ Asked(query).answer # Null =>
              Asked(query).answer.query = query /\ Asked(query).answer.age = 0
<1> DEFINE a == IF query = NoService THEN Answer(query) ELSE Null
<1>1. /\ a \in Answers \cup {Null}
      /\ Counts(a) /\ Follows(a, y)
      /\ a # Null => a.query = query /\ a.age = 0
  BY AnswerIsLatest DEF Counts, Follows
<1>2. Asked(query) = [left |-> Timeout, query |-> query, answer |-> a]
  BY DEF Asked
<1> HIDE DEF a
<1> QED
  BY <1>1, <1>2, PageFacts DEF Fetches

\* run() leaves a request in flight: the one there was, or a new one.
LEMMA RunAsks ==
  ASSUME TypeOK, NEW h \in Hooks, NEW fetches, NEW query
  PROVE  /\ Run(h, fetches, query)[1] \in Hooks
         /\ Run(h, fetches, query)[1].inFlight
         /\ Run(h, fetches, query)[1].data = h.data
         /\ Run(h, fetches, query)[1].status = h.status
         /\ Run(h, fetches, query)[1].isStale = h.isStale
         /\ Run(h, fetches, query)[1].next = h.next
         /\ Run(h, fetches, query)[2] =
              IF h.inFlight THEN fetches ELSE fetches \cup {Asked(query)}
<1>1. CASE h.inFlight
  BY <1>1 DEF Run
<1>2. CASE ~h.inFlight
  <2> DEFINE m == [h EXCEPT !.inFlight = TRUE]
  <2>1. Run(h, fetches, query) = <<m, fetches \cup {Asked(query)}>>
    BY <1>2 DEF Run, Asked
  <2>2. /\ m \in Hooks
        /\ m.inFlight /\ m.data = h.data /\ m.status = h.status
        /\ m.isStale = h.isStale /\ m.next = h.next
    BY DEF Hooks
  <2> HIDE DEF m
  <2>3. /\ Run(h, fetches, query)[1] = m
        /\ Run(h, fetches, query)[2] = fetches \cup {Asked(query)}
    BY <2>1
  <2> QED
    BY <1>2, <2>2, <2>3
<1> QED
  BY <1>1, <1>2

\* What every step that runs the hook keeps.
LEMMA RunningKeeps ==
  ASSUME DInv, NEW h \in Hooks, h.data = hook.data, h.inFlight = hook.inFlight,
         h.next <= Interval[page], NEW query \in Filters[page],
         hook' = Run(h, fetch, query)[1], fetch' = Run(h, fetch, query)[2],
         page' = page, gateway' = gateway, series' = series
  PROVE  /\ hook' \in Hooks /\ fetch' \subseteq Fetches
         /\ hook'.inFlight /\ hook'.data = h.data /\ hook'.status = h.status
         /\ hook'.isStale = h.isStale /\ hook'.next = h.next
         /\ fetch' = IF fetch = {} THEN {Asked(query)} ELSE fetch
         /\ Asked(query).left = Timeout /\ Asked(query).query = query
         /\ InOrder' /\ SeriesFollows' /\ Timely'
<1>1. /\ hook' \in Hooks
      /\ hook'.inFlight /\ hook'.data = h.data /\ hook'.status = h.status
      /\ hook'.isStale = h.isStale /\ hook'.next = h.next
      /\ fetch' = IF h.inFlight THEN fetch ELSE fetch \cup {Asked(query)}
  BY RunAsks DEF DInv
<1>2. /\ Asked(query) \in Fetches
      /\ Asked(query).left = Timeout /\ Asked(query).query = query
      /\ Counts(Asked(query).answer) /\ Follows(Asked(query).answer, hook.data)
      /\ Asked(query).answer # Null =>
           Asked(query).answer.query = query /\ Asked(query).answer.age = 0
  BY AskedFits DEF DInv, TypeOK, Hooks, InOrder
<1>3. fetch' = IF fetch = {} THEN {Asked(query)} ELSE fetch
  BY <1>1 DEF DInv, OneRequest
<1>4. fetch' \subseteq Fetches
  BY <1>2, <1>3 DEF DInv, TypeOK
<1>5. SeriesFollows'
  BY <1>1 DEF DInv, SeriesFollows
<1>6. \A f \in fetch' : f \in fetch \/ f = Asked(query)
  BY <1>3
<1>7. InOrder'
  BY <1>1, <1>2, <1>6 DEF DInv, InOrder, Counts, Follows
<1>8. Timely'
  <2>1. Asked(query).answer # Null =>
          Asked(query).answer.age + Asked(query).left <= Timeout
    BY <1>2, PageFacts DEF DInv
  <2> QED
    BY <1>1, <1>2, <1>6, <2>1, PageFacts DEF DInv, Timely
<1> QED
  BY <1>1, <1>2, <1>3, <1>4, <1>5, <1>7, <1>8

-----------------------------------------------------------------------------
(* The page's steps.                                                        *)

\* The timer: a request while one is in flight is made up for later.
LEMMA PollKeeps ==
  ASSUME DInv, Poll
  PROVE  DInv'
<1> DEFINE h == [hook EXCEPT !.next = Interval[page]]
<1>1. /\ tab.mounted /\ hook.next = 0
      /\ page' = page /\ gateway' = gateway /\ tab' = tab
      /\ series' = series /\ calm' = calm
      /\ IF tab.visible
         THEN hook' = Run(h, fetch, tab.filter)[1] /\ fetch' = Run(h, fetch, tab.filter)[2]
         ELSE hook' = h /\ fetch' = fetch
  BY DEF Poll, RunNow
<1>2. /\ Interval[page] \in Nat /\ Timeout \in Nat
      /\ Patience = 2 * Timeout + Interval[page] /\ Patience \in Nat
  BY PageFacts DEF DInv
<1>3. /\ h \in Hooks
      /\ h.data = hook.data /\ h.inFlight = hook.inFlight /\ h.status = hook.status
      /\ h.isStale = hook.isStale /\ h.next = Interval[page]
  BY <1>2 DEF DInv, TypeOK, Hooks
<1> HIDE DEF h
<1>4. tab.filter \in Filters[page] /\ h.next <= Interval[page] /\ calm \in Nat
  BY <1>2, <1>3 DEF DInv, TypeOK
<1>5. CASE tab.visible
  <2>1. /\ hook' \in Hooks /\ fetch' \subseteq Fetches
        /\ hook'.inFlight /\ hook'.data = hook.data /\ hook'.status = hook.status
        /\ hook'.isStale = hook.isStale
        /\ fetch' = IF fetch = {} THEN {Asked(tab.filter)} ELSE fetch
        /\ Asked(tab.filter).left = Timeout /\ Asked(tab.filter).query = tab.filter
        /\ InOrder' /\ SeriesFollows' /\ Timely'
    BY <1>1, <1>3, <1>4, <1>5, RunningKeeps
  <2>2. TypeOK'
    BY <1>1, <2>1, SamePage DEF DInv, TypeOK, Totals, Points, Events
  <2>3. OneRequest'
    BY <1>1, <1>5, <2>1 DEF DInv, OneRequest
  <2>4. Punctual'
    <3>1. Fits' <=> Fits
      BY <1>1, <2>1 DEF Fits
    <3>2. fetch = {} => Within(Timeout, Patience)
      <4> SUFFICES ASSUME fetch = {} PROVE Within(Timeout, Patience)
        OBVIOUS
      <4>1. Within(0, Timeout + Interval[page])
        BY <1>1, <1>5 DEF DInv, Punctual
      <4>2. Fits => hook.data.age \in Nat
        BY DEF DInv, TypeOK, Hooks, Answers, Fits
      <4> QED
        BY <1>2, <1>4, <4>1, <4>2 DEF Within
    <3>3. \A f \in fetch' : IF f.query = tab.filter THEN Within(f.left, Patience)
                            ELSE calm + f.left <= Timeout
      BY <1>1, <1>5, <2>1, <3>2 DEF DInv, Punctual
    <3> QED
      BY <1>1, <2>1, <3>1, <3>3, SamePage DEF Punctual, Within
  <2> QED
    BY <2>1, <2>2, <2>3, <2>4 DEF DInv
<1>6. CASE ~tab.visible
  <2>1. TypeOK'
    BY <1>1, <1>3, <1>6, SamePage DEF DInv, TypeOK, Totals, Points, Events
  <2>2. OneRequest' /\ InOrder' /\ SeriesFollows'
    BY <1>1, <1>3, <1>6 DEF DInv, OneRequest, InOrder, Counts, Follows, SeriesFollows
  <2>3. Timely' /\ Punctual'
    BY <1>1, <1>3, <1>4, <1>6 DEF DInv, Timely, Punctual
  <2> QED
    BY <2>1, <2>2, <2>3 DEF DInv
<1> QED
  BY <1>5, <1>6

\* The answer to the request in flight: the latest there is.
LEMMA ServeKeeps ==
  ASSUME DInv, NEW f \in fetch, Serve(f)
  PROVE  DInv'
<1> DEFINE a == Answer(f.query)
           g == [f EXCEPT !.answer = a]
<1>1. /\ f.answer = Null
      /\ fetch' = (fetch \ {f}) \cup {g}
      /\ page' = page /\ gateway' = gateway /\ tab' = tab /\ hook' = hook
      /\ series' = series /\ calm' = calm
  BY DEF Serve
<1>2. f \in Fetches /\ f.query \in Filters[page] /\ hook.data \in Answers \cup {Null}
  BY DEF DInv, TypeOK, Fetches, Hooks
<1>3. /\ a \in Answers /\ a # Null /\ a.query = f.query /\ a.age = 0
      /\ Counts(a) /\ Follows(a, hook.data)
  BY <1>2, AnswerIsLatest DEF DInv, InOrder
<1> HIDE DEF a
<1>4. g \in Fetches /\ g.left = f.left /\ g.query = f.query /\ g.answer = a
  BY <1>2, <1>3 DEF Fetches
<1> HIDE DEF g
<1>5. fetch = {f} /\ fetch' = {g}
  BY <1>1 DEF DInv, OneRequest
<1>6. TypeOK'
  BY <1>1, <1>4, <1>5, SamePage DEF DInv, TypeOK, Totals, Points, Events
<1>7. OneRequest' /\ SeriesFollows'
  BY <1>1, <1>5 DEF DInv, OneRequest, SeriesFollows
<1>8. InOrder'
  BY <1>1, <1>3, <1>4, <1>5 DEF DInv, InOrder, Counts, Follows
<1>9. Timely'
  <2>1. f.left \in Nat /\ f.left <= Timeout
    BY <1>2 DEF DInv, Timely, Fetches
  <2>2. g.answer.age + g.left <= Timeout
    BY <1>3, <1>4, <2>1
  <2> QED
    BY <1>1, <1>4, <1>5, <2>1, <2>2 DEF DInv, Timely
<1>10. Punctual'
  <2>1. tab.mounted /\ tab.visible =>
          IF g.query = tab.filter THEN Within(g.left, Patience)
          ELSE calm + g.left <= Timeout
    BY <1>4 DEF DInv, Punctual
  <2> QED
    BY <1>1, <1>5, <2>1, SamePage DEF Punctual, Within, Fits
<1> QED
  BY <1>6, <1>7, <1>8, <1>9, <1>10 DEF DInv

\* The derived series is extended by totals, whatever they are.
LEMMA ExtendedFits ==
  ASSUME NEW s \in [prev : Totals \cup {Null}, points : Seq(Points), credited : Nat],
         NEW t \in Totals
  PROVE  /\ Extended(s, t) \in [prev : Totals \cup {Null}, points : Seq(Points),
                                credited : Nat]
         /\ Extended(s, t).prev = t
         /\ Extended(s, t).credited = s.credited +
              (IF s.prev = Null THEN 0 ELSE Delta(t.requestCount, s.prev.requestCount))
<1>1. CASE \/ s.prev = Null
           \/ t.requestCount < s.prev.requestCount
           \/ /\ t.requestCount = s.prev.requestCount
              /\ t.retryCount = s.prev.retryCount
  <2>1. Extended(s, t) = [s EXCEPT !.prev = t]
    BY <1>1 DEF Extended
  <2>2. /\ Extended(s, t) \in [prev : Totals \cup {Null}, points : Seq(Points),
                                credited : Nat]
        /\ Extended(s, t).prev = t /\ Extended(s, t).credited = s.credited
    BY <2>1
  <2>3. s.prev # Null => Delta(t.requestCount, s.prev.requestCount) = 0
    BY <1>1 DEF Delta, Totals
  <2> QED
    BY <2>2, <2>3
<1>2. CASE ~(\/ s.prev = Null
             \/ t.requestCount < s.prev.requestCount
             \/ /\ t.requestCount = s.prev.requestCount
                /\ t.retryCount = s.prev.retryCount)
  <2> DEFINE p == Point(t, s.prev)
             w == Append(s.points, p)
  <2>1. Extended(s, t) = [prev |-> t, points |-> Capped(w),
                          credited |-> s.credited + p.requests]
    BY <1>2 DEF Extended
  <2>2. /\ t.requestCount \in Nat /\ t.retryCount \in Nat
        /\ s.prev.requestCount \in Nat /\ s.prev.retryCount \in Nat
    BY <1>2 DEF Totals
  <2>3. p \in Points /\ p.requests = Delta(t.requestCount, s.prev.requestCount)
        /\ p.requests \in Nat
    BY <2>2 DEF Point, Points, Delta
  <2> HIDE DEF p
  <2>4. w \in Seq(Points)
    BY <2>3
  <2> HIDE DEF w
  <2>5. Capped(w) \in Seq(Points)
    BY <2>4, TailFits, DashboardAssumption DEF Capped
  <2>6. s.credited + p.requests \in Nat
    BY <2>3
  <2> QED
    BY <1>2, <2>1, <2>3, <2>5, <2>6
<1> QED
  BY <1>1, <1>2

\* An answer arrives: what is shown is what was asked, and the next request
\* is an interval away at most.
LEMMA DeliverKeeps ==
  ASSUME DInv, NEW f \in fetch, Deliver(f)
  PROVE  DInv'
<1> DEFINE a == f.answer
           h == [hook EXCEPT !.data = a, !.status = "ready", !.isStale = FALSE]
           k == [h EXCEPT !.inFlight = FALSE]
<1>1. /\ a # Null
      /\ fetch' = fetch \ {f}
      /\ hook' = k
      /\ series' = IF page = "metrics" THEN Extended(series, a.totals) ELSE series
      /\ page' = page /\ gateway' = gateway /\ tab' = tab /\ calm' = calm
  BY DEF Deliver, Settled
<1>2. f \in Fetches /\ a \in Answers /\ f.left \in Nat
  BY <1>1 DEF DInv, TypeOK, Fetches
<1>3. Counts(a) /\ Follows(a, hook.data) /\ a.query = f.query
      /\ f.left <= Timeout /\ a.age + f.left <= Timeout
  BY <1>1 DEF DInv, InOrder, Timely
<1> HIDE DEF a
<1>4. h \in Hooks /\ h.data = a /\ h.status = "ready" /\ h.isStale = FALSE
      /\ h.next = hook.next
  BY <1>2 DEF DInv, TypeOK, Hooks
<1> HIDE DEF h
<1>5. k \in Hooks /\ k.data = a /\ k.status = "ready" /\ k.isStale = FALSE
      /\ k.next = hook.next /\ k.inFlight = FALSE
  BY <1>4 DEF Hooks
<1> HIDE DEF k
<1>6. fetch' = {} /\ tab.mounted
  BY <1>1 DEF DInv, OneRequest
<1>7. a.totals \in Totals
  BY <1>2 DEF Answers
<1>8. /\ series' \in [prev : Totals \cup {Null}, points : Seq(Points), credited : Nat]
      /\ page = "metrics" => series'.prev = a.totals
  BY <1>1, <1>7, ExtendedFits DEF DInv, TypeOK
<1>9. TypeOK'
  BY <1>1, <1>5, <1>6, <1>8, SamePage DEF DInv, TypeOK, Totals, Points, Events, Null
<1>10. OneRequest' /\ SeriesFollows'
  BY <1>1, <1>5, <1>6, <1>8 DEF DInv, OneRequest, SeriesFollows
<1>11. InOrder'
  BY <1>1, <1>3, <1>5, <1>6 DEF InOrder, Counts
<1>12. Timely'
  BY <1>1, <1>5, <1>6 DEF DInv, Timely
<1>13. Punctual'
  <2> SUFFICES ASSUME tab.mounted, tab.visible
               PROVE  \/ calm + hook.next <= Timeout + Interval[page]
                      \/ a.query = tab.filter /\ a.age + hook.next <= Timeout + Interval[page]
    BY <1>1, <1>5, <1>6 DEF Punctual, Within, Fits
  <2>1. /\ Interval[page] \in Nat /\ Timeout \in Nat /\ hook.next \in Nat /\ calm \in Nat
        /\ hook.next <= Interval[page] /\ a.age \in Nat
    BY <1>2, PageFacts DEF DInv, TypeOK, Timely, Hooks, Answers
  <2>2. CASE f.query = tab.filter
    BY <1>2, <1>3, <2>1, <2>2
  <2>3. CASE f.query # tab.filter
    <3>1. calm + f.left <= Timeout
      BY <2>3 DEF DInv, Punctual
    <3> QED
      BY <1>2, <2>1, <3>1
  <2> QED
    BY <2>2, <2>3
<1> QED
  BY <1>9, <1>10, <1>11, <1>12, <1>13 DEF DInv

\* A request that fails leaves what was shown, and the clock starts anew.
LEMMA RejectKeeps ==
  ASSUME DInv, NEW f \in fetch, fetch' = fetch \ {f}, hook' = Rejected(hook), calm' = 0,
         UNCHANGED <<page, gateway, tab, series>>
  PROVE  DInv'
<1> DEFINE h == [hook EXCEPT !.isStale = TRUE,
                             !.status = IF hook.status = "loading" THEN "error"
                                        ELSE hook.status]
           k == [h EXCEPT !.inFlight = FALSE]
<1>1. page' = page /\ gateway' = gateway /\ tab' = tab /\ series' = series
  OBVIOUS
<1>2. hook' = k
  BY DEF Rejected, Settled
<1>3. h \in Hooks /\ h.data = hook.data /\ h.next = hook.next
  BY DEF DInv, TypeOK, Hooks
<1> HIDE DEF h
<1>4. k \in Hooks /\ k.data = hook.data /\ k.next = hook.next /\ k.inFlight = FALSE
  BY <1>3 DEF Hooks
<1> HIDE DEF k
<1>5. fetch' = {} /\ tab.mounted
  BY DEF DInv, OneRequest
<1>6. TypeOK'
  BY <1>1, <1>2, <1>4, <1>5, SamePage DEF DInv, TypeOK, Totals, Points, Events, Null
<1>7. OneRequest' /\ SeriesFollows' /\ InOrder' /\ Timely'
  BY <1>1, <1>2, <1>4, <1>5 DEF DInv, OneRequest, SeriesFollows, InOrder, Counts, Timely
<1>8. Punctual'
  <2>1. /\ Interval[page] \in Nat /\ Timeout \in Nat /\ hook.next \in Nat
        /\ hook.next <= Interval[page]
    BY PageFacts DEF DInv, TypeOK, Timely, Hooks
  <2>2. calm' + hook'.next <= Timeout + Interval[page]
    BY <1>2, <1>4, <2>1
  <2> QED
    BY <1>1, <1>5, <2>2 DEF Punctual, Within
<1> QED
  BY <1>6, <1>7, <1>8 DEF DInv

\* Whatever is in flight when the clock starts anew ends in time.
LEMMA FreshStart ==
  ASSUME TypeOK, Timely
  PROVE  /\ 0 + hook.next <= Timeout + Interval[page]
         /\ \A f \in fetch : 0 + f.left <= Timeout /\ 0 + f.left <= Patience
         /\ 0 + Timeout <= Patience
<1>1. /\ Interval[page] \in Nat /\ Timeout \in Nat
      /\ Patience = 2 * Timeout + Interval[page]
  BY PageFacts
<1>2. hook.next \in Nat /\ hook.next <= Interval[page]
  BY DEF TypeOK, Timely, Hooks
<1>3. \A f \in fetch : f.left \in Nat /\ f.left <= Timeout
  BY DEF TypeOK, Timely, Fetches
<1> QED
  BY <1>1, <1>2, <1>3

\* A step that runs the hook where the clock is at nought: a new filter, a tab
\* shown again, a page entered.
LEMMA RunningAfresh ==
  ASSUME DInv, NEW h \in Hooks, h.data = hook.data, h.inFlight = hook.inFlight,
         h.next <= Interval[page], NEW query \in Filters[page],
         hook' = Run(h, fetch, query)[1], fetch' = Run(h, fetch, query)[2],
         page' = page, gateway' = gateway, series' = series, calm' = 0,
         tab' \in [visible : BOOLEAN, mounted : BOOLEAN, filter : Filters[page]],
         tab'.mounted, tab'.filter = query
  PROVE  DInv'
<1>1. /\ hook' \in Hooks /\ fetch' \subseteq Fetches
      /\ hook'.inFlight
      /\ fetch' = IF fetch = {} THEN {Asked(query)} ELSE fetch
      /\ Asked(query).left = Timeout /\ Asked(query).query = query
      /\ InOrder' /\ SeriesFollows' /\ Timely'
  BY RunningKeeps
<1>2. TypeOK'
  BY <1>1, SamePage DEF DInv, TypeOK, Totals, Points, Events
<1>3. OneRequest'
  BY <1>1 DEF DInv, OneRequest
<1>4. Punctual'
  <2>1. \A f \in fetch' : calm' + f.left <= Timeout /\ calm' + f.left <= Patience
    BY <1>1, FreshStart, PageFacts DEF DInv
  <2>2. fetch' # {}
    BY <1>1
  <2> QED
    BY <2>1, <2>2, SamePage DEF Punctual, Within
<1> QED
  BY <1>1, <1>2, <1>3, <1>4 DEF DInv

\* A step of the operator that leaves the hook alone, the clock at nought.
LEMMA ClockRestarts ==
  ASSUME DInv, page' = page, gateway' = gateway, hook' = hook, fetch' = fetch,
         series' = series, calm' = 0,
         tab' \in [visible : BOOLEAN, mounted : BOOLEAN, filter : Filters[page]],
         tab'.mounted = tab.mounted
  PROVE  DInv'
<1>1. TypeOK'
  BY SamePage DEF DInv, TypeOK, Totals, Points, Events
<1>2. OneRequest' /\ SeriesFollows' /\ InOrder' /\ Timely'
  BY DEF DInv, OneRequest, SeriesFollows, InOrder, Counts, Follows, Timely
<1>3. Punctual'
  <2>1. /\ calm' + hook.next <= Timeout + Interval[page]
        /\ \A f \in fetch : calm' + f.left <= Timeout /\ calm' + f.left <= Patience
    BY FreshStart DEF DInv
  <2> QED
    BY <2>1, SamePage DEF Punctual, Within
<1> QED
  BY <1>1, <1>2, <1>3 DEF DInv

\* A new filter asks at once, unless a request is in flight.
LEMMA ChangeFilterKeeps ==
  ASSUME DInv, NEW query \in Filters[page], ChangeFilter(query)
  PROVE  DInv'
<1>1. /\ tab.mounted /\ tab' = [tab EXCEPT !.filter = query]
      /\ hook' = Run(hook, fetch, query)[1] /\ fetch' = Run(hook, fetch, query)[2]
      /\ page' = page /\ gateway' = gateway /\ series' = series /\ calm' = 0
  BY DEF ChangeFilter, RunNow
<1>2. /\ tab' \in [visible : BOOLEAN, mounted : BOOLEAN, filter : Filters[page]]
      /\ tab'.mounted /\ tab'.filter = query
  BY <1>1 DEF DInv, TypeOK
<1>3. hook \in Hooks /\ hook.next <= Interval[page]
  BY DEF DInv, TypeOK, Timely
<1> QED
  BY <1>1, <1>2, <1>3, RunningAfresh

\* Another selection waits for the timer.
LEMMA SelectServiceKeeps ==
  ASSUME DInv, NEW query \in Filters[page], SelectService(query)
  PROVE  DInv'
<1>1. /\ tab' = [tab EXCEPT !.filter = query]
      /\ page' = page /\ gateway' = gateway /\ hook' = hook /\ fetch' = fetch
      /\ series' = series /\ calm' = 0
  BY DEF SelectService
<1>2. /\ tab' \in [visible : BOOLEAN, mounted : BOOLEAN, filter : Filters[page]]
      /\ tab'.mounted = tab.mounted
  BY <1>1 DEF DInv, TypeOK
<1> QED
  BY <1>1, <1>2, ClockRestarts

\* A hidden tab shows nothing.
LEMMA HideKeeps ==
  ASSUME DInv, Hide
  PROVE  DInv'
<1>1. /\ tab' = [tab EXCEPT !.visible = FALSE]
      /\ page' = page /\ gateway' = gateway /\ hook' = hook /\ fetch' = fetch
      /\ series' = series /\ calm' = 0
  BY DEF Hide
<1>2. /\ tab' \in [visible : BOOLEAN, mounted : BOOLEAN, filter : Filters[page]]
      /\ tab'.mounted = tab.mounted
  BY <1>1 DEF DInv, TypeOK
<1> QED
  BY <1>1, <1>2, ClockRestarts

\* A tab shown again asks at once, however old what it shows.
LEMMA ShowKeeps ==
  ASSUME DInv, Show
  PROVE  DInv'
<1>1. /\ ~tab.visible /\ tab' = [tab EXCEPT !.visible = TRUE]
      /\ page' = page /\ gateway' = gateway /\ series' = series /\ calm' = calm
  BY DEF Show
<1>2. /\ tab' \in [visible : BOOLEAN, mounted : BOOLEAN, filter : Filters[page]]
      /\ tab'.mounted = tab.mounted /\ tab'.filter = tab.filter
      /\ tab.filter \in Filters[page]
  BY <1>1 DEF DInv, TypeOK
<1>3. calm' = 0
  BY <1>1 DEF DInv, OneRequest
<1>4. hook \in Hooks /\ hook.next <= Interval[page]
  BY DEF DInv, TypeOK, Timely
<1>5. CASE tab.mounted
  <2>1. hook' = Run(hook, fetch, tab.filter)[1] /\ fetch' = Run(hook, fetch, tab.filter)[2]
    BY <1>5 DEF Show, RunNow
  <2> QED
    BY <1>1, <1>2, <1>3, <1>4, <1>5, <2>1, RunningAfresh
<1>6. CASE ~tab.mounted
  <2>1. hook' = hook /\ fetch' = fetch
    BY <1>6 DEF Show
  <2> QED
    BY <1>1, <1>2, <1>3, <2>1, ClockRestarts
<1> QED
  BY <1>5, <1>6

\* A fresh hook.
LEMMA MountedFits ==
  ASSUME TypeOK
  PROVE  /\ Mounted \in Hooks
         /\ Mounted.data = Null /\ Mounted.inFlight = FALSE
         /\ Mounted.next = Interval[page]
  BY PageFacts DEF Mounted, Hooks

\* A page that is left shows nothing and asks nothing.
LEMMA LeaveKeeps ==
  ASSUME DInv, Leave
  PROVE  DInv'
<1>1. /\ page # "metrics" /\ tab' = [tab EXCEPT !.mounted = FALSE]
      /\ hook' = Mounted /\ fetch' = {} /\ calm' = 0
      /\ page' = page /\ gateway' = gateway /\ series' = series
  BY DEF Leave
<1>2. /\ tab' \in [visible : BOOLEAN, mounted : BOOLEAN, filter : Filters[page]]
      /\ tab'.mounted = FALSE
  BY <1>1 DEF DInv, TypeOK
<1>3. TypeOK'
  BY <1>1, <1>2, MountedFits, SamePage DEF DInv, TypeOK, Totals, Points, Events, Null
<1>4. OneRequest' /\ SeriesFollows' /\ InOrder' /\ Timely' /\ Punctual'
  <2>1. Interval[page] <= Interval[page]
    BY PageFacts DEF DInv
  <2> QED
    BY <1>1, <1>2, <2>1, MountedFits
    DEF DInv, OneRequest, SeriesFollows, InOrder, Counts, Timely, Punctual, Null
<1> QED
  BY <1>3, <1>4 DEF DInv

\* A page that is entered asks at once.
LEMMA EnterKeeps ==
  ASSUME DInv, NEW query \in Filters[page], Enter(query)
  PROVE  DInv'
<1>1. /\ ~tab.mounted /\ tab' = [tab EXCEPT !.mounted = TRUE, !.filter = query]
      /\ hook' = Run(Mounted, {}, query)[1] /\ fetch' = Run(Mounted, {}, query)[2]
      /\ page' = page /\ gateway' = gateway /\ series' = series /\ calm' = calm
  BY DEF Enter
<1>2. /\ tab' \in [visible : BOOLEAN, mounted : BOOLEAN, filter : Filters[page]]
      /\ tab'.mounted /\ tab'.filter = query
  BY <1>1 DEF DInv, TypeOK
<1>3. fetch = {} /\ hook.data = Null /\ hook.inFlight = FALSE /\ calm = 0
  BY <1>1 DEF DInv, OneRequest, TypeOK, Hooks
<1>4. /\ Mounted \in Hooks /\ Mounted.data = hook.data /\ Mounted.inFlight = hook.inFlight
      /\ Mounted.next <= Interval[page]
  <2>1. TypeOK
    BY DEF DInv
  <2>2. Interval[page] <= Interval[page]
    BY <2>1, PageFacts
  <2>3. /\ Mounted \in Hooks
        /\ Mounted.data = Null /\ Mounted.inFlight = FALSE
        /\ Mounted.next = Interval[page]
    BY <2>1, MountedFits
  <2>4. Mounted.data = hook.data
    BY <1>3, <2>3
  <2>5. Mounted.inFlight = hook.inFlight
    BY <1>3, <2>3, Zenon
  <2> QED
    BY <2>2, <2>3, <2>4, <2>5
<1> QED
  BY <1>1, <1>2, <1>3, <1>4, RunningAfresh

-----------------------------------------------------------------------------
(* Time.                                                                    *)

\* What grows older stays what it is.
LEMMA OlderFits ==
  ASSUME TypeOK, NEW x \in Answers \cup {Null}
  PROVE  /\ Older(x) \in Answers \cup {Null}
         /\ Older(x) = Null <=> x = Null
         /\ x # Null => /\ Older(x).version = x.version /\ Older(x).starts = x.starts
                        /\ Older(x).totals = x.totals /\ Older(x).query = x.query
                        /\ Older(x).age \in Nat /\ Older(x).age <= x.age + 1
<1>1. CASE x = Null
  BY <1>1 DEF Older
<1>2. CASE x # Null
  <2>1. x \in Answers /\ x.age \in Nat
    BY <1>2 DEF Answers
  <2>2. x.age + 1 \in Nat
    BY <2>1
  <2>3. CASE x.age > Patience
    <3>1. Older(x) = x
      BY <2>3 DEF Older
    <3> QED
      BY <1>2, <2>1, <3>1
  <2>4. CASE ~(x.age > Patience)
    <3> DEFINE y == [x EXCEPT !.age = x.age + 1]
    <3>1. Older(x) = y
      BY <1>2, <2>4 DEF Older
    <3>2. /\ y \in Answers
          /\ y.version = x.version /\ y.starts = x.starts
          /\ y.totals = x.totals /\ y.query = x.query /\ y.age = x.age + 1
      BY <2>1, <2>2 DEF Answers
    <3> HIDE DEF y
    <3>3. y # Null
      BY <3>2, NullIsNothing
    <3> QED
      BY <1>2, <2>1, <3>1, <3>2, <3>3
  <2> QED
    BY <2>3, <2>4
<1> QED
  BY <1>1, <1>2

\* A request in flight, a tick later.
Aged(f) == [f EXCEPT !.left = f.left - 1, !.answer = Older(f.answer)]

\* It has an instant less to go, and asks what it asked.
LEMMA AgedFits ==
  ASSUME TypeOK, NEW f \in Fetches, f.left > 0
  PROVE  /\ Aged(f) \in Fetches
         /\ Aged(f).left = f.left - 1 /\ Aged(f).query = f.query
         /\ Aged(f).answer = Older(f.answer)
<1>1. f.left \in Nat /\ f.left - 1 \in Nat /\ f.answer \in Answers \cup {Null}
  BY DEF Fetches
<1>2. Older(f.answer) \in Answers \cup {Null}
  BY <1>1, OlderFits
<1> QED
  BY <1>1, <1>2 DEF Fetches, Aged

\* A tick brings the timer and the request in flight closer, and what is shown
\* further from the gateway.
LEMMA TickKeeps ==
  ASSUME DInv, Tick
  PROVE  DInv'
<1> DEFINE d == Older(hook.data)
           h == [hook EXCEPT !.next = hook.next - 1, !.data = d]
<1>1. /\ tab.mounted /\ hook.next > 0 /\ \A f \in fetch : f.left > 0
      /\ hook' = h
      /\ fetch' = {Aged(f) : f \in fetch}
      /\ calm' = IF tab.visible /\ calm <= Patience THEN calm + 1 ELSE calm
      /\ page' = page /\ gateway' = gateway /\ tab' = tab /\ series' = series
  BY DEF Tick, Aged
<1>2. /\ hook.data \in Answers \cup {Null} /\ hook.next \in Nat /\ hook.next - 1 \in Nat
      /\ calm \in Nat
  BY <1>1 DEF DInv, TypeOK, Hooks
<1>3. /\ d \in Answers \cup {Null}
      /\ d = Null <=> hook.data = Null
      /\ hook.data # Null =>
           /\ d.version = hook.data.version /\ d.starts = hook.data.starts
           /\ d.totals = hook.data.totals /\ d.query = hook.data.query
           /\ d.age \in Nat /\ d.age <= hook.data.age + 1
  BY <1>2, OlderFits DEF DInv
<1> HIDE DEF d
<1>4. /\ h \in Hooks
      /\ h.data = d /\ h.next = hook.next - 1 /\ h.status = hook.status
      /\ h.isStale = hook.isStale /\ h.inFlight = hook.inFlight
  BY <1>2, <1>3 DEF DInv, TypeOK, Hooks
<1> HIDE DEF h
<1>5. \A f \in fetch :
        /\ f \in Fetches /\ f.left \in Nat /\ f.left > 0
        /\ Aged(f) \in Fetches
        /\ Aged(f).left = f.left - 1 /\ Aged(f).query = f.query
        /\ Aged(f).answer = Null <=> f.answer = Null
        /\ f.answer # Null =>
             /\ Aged(f).answer.version = f.answer.version
             /\ Aged(f).answer.starts = f.answer.starts
             /\ Aged(f).answer.totals = f.answer.totals
             /\ Aged(f).answer.query = f.answer.query
             /\ f.answer.age \in Nat /\ Aged(f).answer.age \in Nat
             /\ Aged(f).answer.age <= f.answer.age + 1
  <2> SUFFICES ASSUME NEW f \in fetch
               PROVE  /\ f \in Fetches /\ f.left \in Nat /\ f.left > 0
                      /\ Aged(f) \in Fetches
                      /\ Aged(f).left = f.left - 1 /\ Aged(f).query = f.query
                      /\ Aged(f).answer = Null <=> f.answer = Null
                      /\ f.answer # Null =>
                           /\ Aged(f).answer.version = f.answer.version
                           /\ Aged(f).answer.starts = f.answer.starts
                           /\ Aged(f).answer.totals = f.answer.totals
                           /\ Aged(f).answer.query = f.answer.query
                           /\ f.answer.age \in Nat /\ Aged(f).answer.age \in Nat
                           /\ Aged(f).answer.age <= f.answer.age + 1
    OBVIOUS
  <2>1. f \in Fetches /\ f.left \in Nat /\ f.left > 0 /\ f.answer \in Answers \cup {Null}
    BY <1>1 DEF DInv, TypeOK, Fetches
  <2>2. f.answer # Null => f.answer.age \in Nat
    BY <2>1 DEF Answers
  <2>3. /\ Aged(f) \in Fetches
        /\ Aged(f).left = f.left - 1 /\ Aged(f).query = f.query
        /\ Aged(f).answer = Older(f.answer)
    BY <2>1, AgedFits DEF DInv
  <2> QED
    BY <2>1, <2>2, <2>3, OlderFits DEF DInv
<1>6. TypeOK'
  <2>1. calm' \in Nat
    BY <1>1, <1>2
  <2> QED
    BY <1>1, <1>4, <1>5, <2>1, SamePage DEF DInv, TypeOK, Totals, Points, Events, Null
<1>7. OneRequest' /\ SeriesFollows'
  BY <1>1, <1>3, <1>4, <1>5 DEF DInv, OneRequest, SeriesFollows
<1>8. InOrder'
  <2>1. Counts(hook.data) /\ \A f \in fetch : /\ Counts(f.answer) /\ Follows(f.answer, hook.data)
                                              /\ f.answer # Null => f.answer.query = f.query
    BY DEF DInv, InOrder
  <2>2. Counts(d)
    BY <1>3, <2>1 DEF Counts
  <2>3. \A f \in fetch : /\ Counts(Aged(f).answer) /\ Follows(Aged(f).answer, d)
                         /\ Aged(f).answer # Null => Aged(f).answer.query = Aged(f).query
    BY <1>3, <1>5, <2>1 DEF Counts, Follows
  <2> QED
    BY <1>1, <1>4, <2>2, <2>3 DEF InOrder, Counts, Follows
<1>9. Timely'
  <2>1. h.next <= Interval[page]
    BY <1>2, <1>4, PageFacts DEF DInv, Timely
  <2>2. \A f \in fetch : /\ Aged(f).left <= Timeout
                         /\ Aged(f).answer # Null =>
                              Aged(f).answer.age + Aged(f).left <= Timeout
    BY <1>5, PageFacts DEF DInv, Timely
  <2> QED
    BY <1>1, <2>1, <2>2 DEF Timely
<1>10. Punctual'
  <2> SUFFICES ASSUME tab.visible PROVE Punctual'
    BY <1>1 DEF Punctual
  <2>1. /\ Interval[page] \in Nat /\ Timeout \in Nat
        /\ Patience = 2 * Timeout + Interval[page] /\ Patience \in Nat
    BY PageFacts DEF DInv
  <2>2. calm <= Patience => calm' = calm + 1
    BY <1>1
  <2>3. Fits => Fits' /\ hook.data.age \in Nat
                /\ hook'.data.age \in Nat /\ hook'.data.age <= hook.data.age + 1
    BY <1>1, <1>2, <1>3, <1>4 DEF Fits, Answers
  <2>4. ASSUME NEW wait \in Nat, wait > 0, NEW limit \in Nat, limit <= Patience,
               Within(wait, limit)
        PROVE  \/ calm' + (wait - 1) <= limit
               \/ Fits' /\ hook'.data.age + (wait - 1) <= limit
    <3>1. CASE calm + wait <= limit
      BY <1>2, <2>1, <2>2, <2>4, <3>1
    <3>2. CASE Fits /\ hook.data.age + wait <= limit
      BY <2>3, <2>4, <3>2
    <3> QED
      BY <2>4, <3>1, <3>2 DEF Within
  <2>5. fetch = {} => \/ calm' + hook'.next <= Timeout + Interval[page]
                      \/ Fits' /\ hook'.data.age + hook'.next <= Timeout + Interval[page]
    <3> SUFFICES ASSUME fetch = {}
                 PROVE  \/ calm' + hook'.next <= Timeout + Interval[page]
                        \/ Fits' /\ hook'.data.age + hook'.next <= Timeout + Interval[page]
      OBVIOUS
    <3>1. Within(hook.next, Timeout + Interval[page])
      BY <1>1 DEF DInv, Punctual
    <3>2. Timeout + Interval[page] \in Nat /\ Timeout + Interval[page] <= Patience
      BY <2>1
    <3>3. hook'.next = hook.next - 1
      BY <1>1, <1>4
    <3> QED
      BY <1>1, <1>2, <2>4, <3>1, <3>2, <3>3
  <2>6. ASSUME NEW f \in fetch
        PROVE  IF Aged(f).query = tab.filter
               THEN \/ calm' + Aged(f).left <= Patience
                    \/ Fits' /\ hook'.data.age + Aged(f).left <= Patience
               ELSE calm' + Aged(f).left <= Timeout
    <3>1. f.left \in Nat /\ f.left > 0 /\ Aged(f).left = f.left - 1
          /\ Aged(f).query = f.query
      BY <1>5
    <3>2. IF f.query = tab.filter THEN Within(f.left, Patience)
          ELSE calm + f.left <= Timeout
      BY <1>1 DEF DInv, Punctual
    <3>3. CASE f.query = tab.filter
      <4>1. Within(f.left, Patience) /\ Patience <= Patience
        BY <2>1, <3>2, <3>3
      <4>2. \/ calm' + (f.left - 1) <= Patience
            \/ Fits' /\ hook'.data.age + (f.left - 1) <= Patience
        BY <2>1, <2>4, <3>1, <4>1
      <4> QED
        BY <3>1, <3>3, <4>2
    <3>4. CASE f.query # tab.filter
      BY <1>2, <2>1, <2>2, <3>1, <3>2, <3>4
    <3> QED
      BY <3>3, <3>4
  <2>7. fetch' = {} => fetch = {}
    BY <1>1
  <2>8. \A g \in fetch' : \E f \in fetch : g = Aged(f)
    BY <1>1
  <2> QED
    BY <1>1, <2>5, <2>6, <2>7, <2>8, SamePage DEF Punctual, Within
<1> QED
  BY <1>6, <1>7, <1>8, <1>9, <1>10 DEF DInv

-----------------------------------------------------------------------------
(* The invariant, and the properties.                                       *)

\* A page starts by asking, with nothing shown.
LEMMA InitEstablishesDInv == Init => DInv
<1> SUFFICES ASSUME Init PROVE DInv
  OBVIOUS
<1>1. PICK query \in Filters[page] :
        /\ tab = [visible |-> TRUE, mounted |-> TRUE, filter |-> query]
        /\ hook = Run(Mounted, {}, query)[1] /\ fetch = Run(Mounted, {}, query)[2]
  BY DEF Init
<1>2. /\ page \in Pages
      /\ gateway = [events |-> <<>>, totals |-> NoTotals,
                    version |-> 0, starts |-> 0, recorded |-> <<>>]
      /\ series = [prev |-> Null, points |-> <<>>, credited |-> 0]
      /\ calm = 0
  BY DEF Init
<1>3. /\ Interval[page] \in Nat /\ Timeout \in Nat
      /\ Patience = 2 * Timeout + Interval[page]
  BY <1>2, DashboardAssumption DEF Patience
<1> DEFINE a == IF query = NoService THEN Answer(query) ELSE Null
           f == [left |-> Timeout, query |-> query, answer |-> a]
           h == [Mounted EXCEPT !.inFlight = TRUE]
<1>4. Run(Mounted, {}, query) = <<h, {f}>>
  BY DEF Run, Mounted
<1>5. NoTotals \in Totals
  BY DEF NoTotals, Totals
<1>6. Answer(query) = [version |-> 1, starts |-> 0, totals |-> NoTotals,
                       query |-> query, age |-> 0]
  BY <1>2 DEF Answer
<1>7. /\ a \in Answers \cup {Null}
      /\ a # Null => /\ a.version = 1 /\ a.starts = 0 /\ a.totals = NoTotals
                     /\ a.query = query /\ a.age = 0
  BY <1>5, <1>6 DEF Answers
<1> HIDE DEF a
<1>8. /\ f \in Fetches /\ f.left = Timeout /\ f.query = query /\ f.answer = a
  BY <1>3, <1>7 DEF Fetches
<1> HIDE DEF f
<1>9. /\ h \in Hooks /\ h.data = Null /\ h.inFlight /\ h.next = Interval[page]
  BY <1>3 DEF Mounted, Hooks
<1> HIDE DEF h
<1>10. hook = h /\ fetch = {f}
  BY <1>1, <1>4
<1>11. TypeOK
  <2>1. gateway \in [events : Seq(Events), totals : Totals, version : Nat,
                     starts : Nat, recorded : Seq(Events)]
    BY <1>2, <1>5
  <2>2. series \in [prev : Totals \cup {Null}, points : Seq(Points), credited : Nat]
    BY <1>2
  <2>3. tab \in [visible : BOOLEAN, mounted : BOOLEAN, filter : Filters[page]]
    BY <1>1
  <2> QED
    BY <1>2, <1>8, <1>9, <1>10, <2>1, <2>2, <2>3 DEF TypeOK
<1>12. OneRequest /\ SeriesFollows
  BY <1>1, <1>2, <1>9, <1>10 DEF OneRequest, SeriesFollows
<1>13. InOrder
  <2>1. a # Null => a.totals.requestCount <= gateway.totals.requestCount
    BY <1>2, <1>7 DEF NoTotals
  <2> QED
    BY <1>2, <1>7, <1>8, <1>9, <1>10, <2>1 DEF InOrder, Counts, Follows
<1>14. Timely /\ Punctual
  BY <1>1, <1>2, <1>3, <1>7, <1>8, <1>9, <1>10 DEF Timely, Punctual, Within
<1> QED
  BY <1>11, <1>12, <1>13, <1>14 DEF DInv

\* Every step keeps the invariant.
LEMMA NextKeepsDInv == DInv /\ [Next]_vars => DInv'
<1> SUFFICES ASSUME DInv, [Next]_vars PROVE DInv'
  OBVIOUS
<1>1. CASE UNCHANGED vars
  <2>1. /\ gateway' = gateway /\ UNCHANGED <<page, tab, hook, fetch, series, calm>>
    BY <1>1 DEF vars
  <2>2. /\ gateway \in [events : Seq(Events), totals : Totals, version : Nat,
                        starts : Nat, recorded : Seq(Events)]
        /\ gateway.version >= gateway.version
        /\ gateway.totals.requestCount >= gateway.totals.requestCount
    BY DEF DInv, TypeOK, Totals
  <2> QED
    BY <2>1, <2>2, GatewayMoves
<1>2. ASSUME NEW type \in EventTypes, Record(type) PROVE DInv'
  BY <1>2, RecordKeeps
<1>3. ASSUME NEW f \in fetch, Serve(f) PROVE DInv'
  BY <1>3, ServeKeeps
<1>4. ASSUME NEW f \in fetch, Refuse(f) \/ Fail(f) PROVE DInv'
  <2>1. /\ fetch' = fetch \ {f} /\ hook' = Rejected(hook) /\ calm' = 0
        /\ UNCHANGED <<page, gateway, tab, series>>
    BY <1>4 DEF Refuse, Fail
  <2> QED
    BY <2>1, RejectKeeps
<1>5. ASSUME NEW f \in fetch, Deliver(f) PROVE DInv'
  BY <1>5, DeliverKeeps
<1>6. ASSUME NEW query \in Filters[page], ChangeFilter(query) PROVE DInv'
  BY <1>6, ChangeFilterKeeps
<1>7. ASSUME NEW query \in Filters[page], SelectService(query) PROVE DInv'
  BY <1>7, SelectServiceKeeps
<1>8. ASSUME NEW query \in Filters[page], Enter(query) PROVE DInv'
  BY <1>8, EnterKeeps
<1> QED
  BY <1>1, <1>2, <1>3, <1>4, <1>5, <1>6, <1>7, <1>8,
     RestartKeeps, PollKeeps, HideKeeps, ShowKeeps, LeaveKeeps, TickKeeps DEF Next

\* The invariant holds in every reachable state.
LEMMA DInvHolds == Spec => []DInv
  BY InitEstablishesDInv, NextKeepsDInv, PTL DEF Spec

\* A page left alone for two timeouts and an interval shows the answer to its
\* filter, no older than that and not marked stale, for any interval and
\* timeout, even where the interval is the shorter.
THEOREM ShownWithinHolds == Spec => []ShownWithin
<1>1. ASSUME DInv PROVE ShownWithin
  <2> SUFFICES ASSUME tab.mounted, tab.visible, calm > Patience
               PROVE  Fits /\ hook.data.age <= Patience
    BY DEF ShownWithin, Fits
  <2>1. /\ Interval[page] \in Nat /\ Timeout \in Nat
        /\ Patience = 2 * Timeout + Interval[page] /\ calm \in Nat
        /\ hook.next \in Nat /\ \A f \in fetch : f.left \in Nat
        /\ Fits => hook.data.age \in Nat
    BY <1>1, PageFacts DEF DInv, TypeOK, Hooks, Fetches, Fits, Answers
  <2>2. CASE fetch = {}
    <3>1. Within(hook.next, Timeout + Interval[page])
      BY <1>1, <2>2 DEF DInv, Punctual
    <3> QED
      BY <2>1, <3>1 DEF Within
  <2>3. ASSUME NEW f \in fetch PROVE Fits /\ hook.data.age <= Patience
    <3>1. IF f.query = tab.filter THEN Within(f.left, Patience)
          ELSE calm + f.left <= Timeout
      BY <1>1 DEF DInv, Punctual
    <3> QED
      BY <2>1, <3>1 DEF Within
  <2> QED
    BY <2>2, <2>3
<1> QED
  BY <1>1, DInvHolds, PTL

\* To ask does not change what is shown.
LEMMA RunKeepsData ==
  ASSUME TypeOK
  PROVE  \A h \in Hooks : \A query : Run(h, fetch, query)[1].data = h.data
<1> SUFFICES ASSUME NEW h \in Hooks, NEW query
             PROVE  Run(h, fetch, query)[1].data = h.data
  OBVIOUS
<1> DEFINE r == Run(h, fetch, query)
<1>1. /\ r[1] \in Hooks /\ r[1].inFlight /\ r[1].data = h.data
      /\ r[1].status = h.status /\ r[1].isStale = h.isStale /\ r[1].next = h.next
      /\ r[2] = IF h.inFlight THEN fetch ELSE fetch \cup {Asked(query)}
  BY RunAsks
<1> QED
  BY <1>1

\* What changes in a step of what is shown, if not by age alone.
LEMMA ShownChanges ==
  ASSUME DInv, [Next]_vars
  PROVE  \/ hook'.data = hook.data /\ series' = series
         \/ hook'.data = Older(hook.data) /\ series' = series
         \/ ~(tab.mounted /\ tab'.mounted) /\ page # "metrics"
         \/ \E f \in fetch : Deliver(f)
<1>1. CASE UNCHANGED vars
  BY <1>1 DEF vars
<1>2. ASSUME NEW type \in EventTypes, Record(type)
      PROVE  hook'.data = hook.data /\ series' = series
  BY <1>2 DEF Record
<1>3. CASE Restart \/ Hide
  BY <1>3 DEF Restart, Hide
<1>4. \A h \in Hooks : \A query : Run(h, fetch, query)[1].data = h.data
  BY RunKeepsData DEF DInv
<1>5. CASE Poll
  <2> DEFINE h == [hook EXCEPT !.next = Interval[page]]
  <2>1. h \in Hooks /\ h.data = hook.data
    BY PageFacts DEF DInv, TypeOK, Hooks
  <2>2. hook' = h \/ hook' = Run(h, fetch, tab.filter)[1]
    BY <1>5 DEF Poll, RunNow
  <2>3. series' = series
    BY <1>5 DEF Poll
  <2> HIDE DEF h
  <2> QED
    BY <1>4, <2>1, <2>2, <2>3
<1>6. ASSUME NEW f \in fetch, Serve(f)
      PROVE  hook'.data = hook.data /\ series' = series
  BY <1>6 DEF Serve
<1>7. ASSUME NEW f \in fetch, Refuse(f) \/ Fail(f)
      PROVE  hook'.data = hook.data /\ series' = series
  <2>1. hook' = Rejected(hook) /\ series' = series
    BY <1>7 DEF Refuse, Fail
  <2>2. Rejected(hook).data = hook.data
    BY DEF Rejected, Settled, DInv, TypeOK, Hooks
  <2> QED
    BY <2>1, <2>2
<1>8. hook \in Hooks
  BY DEF DInv, TypeOK
<1>9. ASSUME NEW query \in Filters[page], ChangeFilter(query) \/ SelectService(query)
      PROVE  hook'.data = hook.data /\ series' = series
  <2>1. hook' = hook \/ hook' = Run(hook, fetch, query)[1]
    BY <1>9 DEF ChangeFilter, SelectService, RunNow
  <2>2. series' = series
    BY <1>9 DEF ChangeFilter, SelectService
  <2> QED
    BY <1>4, <1>8, <2>1, <2>2
<1>10. CASE Show
  <2>1. hook' = hook \/ hook' = Run(hook, fetch, tab.filter)[1]
    BY <1>10 DEF Show, RunNow
  <2>2. series' = series
    BY <1>10 DEF Show
  <2> QED
    BY <1>4, <1>8, <2>1, <2>2
<1>11. ASSUME NEW query \in Filters[page], Enter(query)
       PROVE  ~(tab.mounted /\ tab'.mounted) /\ page # "metrics"
  BY <1>11 DEF Enter, DInv, OneRequest
<1>12. CASE Leave
  BY <1>12 DEF Leave, DInv, TypeOK
<1>13. CASE Tick
  <2>1. hook' = [hook EXCEPT !.next = hook.next - 1, !.data = Older(hook.data)]
        /\ series' = series
    BY <1>13 DEF Tick
  <2> QED
    BY <1>8, <2>1 DEF Hooks
<1> QED
  BY <1>1, <1>2, <1>3, <1>5, <1>6, <1>7, <1>9, <1>10, <1>11, <1>12, <1>13 DEF Next

\* What a delivery shows, and what it adds to the series.
LEMMA Delivers ==
  ASSUME DInv, NEW f \in fetch, Deliver(f)
  PROVE  /\ f.answer \in Answers /\ hook'.data = f.answer
         /\ Follows(f.answer, hook.data)
         /\ series' = IF page = "metrics" THEN Extended(series, f.answer.totals)
                      ELSE series
<1> DEFINE h == [hook EXCEPT !.data = f.answer, !.status = "ready", !.isStale = FALSE]
<1>1. f.answer \in Answers
  BY DEF Deliver, DInv, TypeOK, Fetches
<1>2. h \in Hooks /\ h.data = f.answer
  BY <1>1 DEF DInv, TypeOK, Hooks
<1>3. hook' = [h EXCEPT !.inFlight = FALSE]
  BY DEF Deliver, Settled
<1> HIDE DEF h
<1>4. hook'.data = f.answer
  BY <1>2, <1>3 DEF Hooks
<1> QED
  BY <1>1, <1>4 DEF Deliver, DInv, InOrder

\* No answer overtakes another: what a page shows never goes back in time,
\* however long requests take and whatever fails between.
THEOREM NeverBackInTimeHolds == Spec => NeverBackInTime
<1>1. ASSUME DInv, [Next]_vars, tab.mounted, tab'.mounted
      PROVE  hook'.data.version >= hook.data.version
  <2>1. hook.data \in Answers \cup {Null} /\ hook.data.version \in Nat
    BY <1>1, NullIsNothing DEF DInv, TypeOK, Hooks, Answers
  <2>2. CASE hook'.data = hook.data
    BY <2>1, <2>2
  <2>3. CASE hook'.data = Older(hook.data)
    <3>1. hook'.data.version = hook.data.version
      BY <1>1, <2>1, <2>3, OlderFits DEF DInv, Null
    <3> QED
      BY <2>1, <3>1
  <2>4. ASSUME NEW f \in fetch, Deliver(f)
        PROVE  hook'.data.version >= hook.data.version
    <3>1. f.answer \in Answers /\ hook'.data = f.answer /\ Follows(f.answer, hook.data)
      BY <1>1, <2>4, Delivers
    <3>2. f.answer # Null /\ f.answer.version \in Nat
      BY <3>1, NullIsNothing DEF Answers
    <3>3. CASE hook.data = Null
      BY <2>1, <3>1, <3>2, <3>3, NullIsNothing
    <3>4. CASE hook.data # Null
      BY <2>1, <3>1, <3>2, <3>4 DEF Follows
    <3> QED
      BY <3>3, <3>4
  <2> QED
    BY <1>1, <2>2, <2>3, <2>4, ShownChanges
<1>2. DInv /\ [Next]_vars =>
        [tab.mounted /\ tab'.mounted => hook'.data.version >= hook.data.version]_vars
  BY <1>1
<1> QED
  BY <1>2, DInvHolds, PTL DEF Spec, NeverBackInTime

\* The series gains what the gateway counted between two snapshots, and
\* across a restart no more than the restarted gateway counted.
THEOREM SeriesFollowsTheGatewayHolds == Spec => SeriesFollowsTheGateway
<1> DEFINE Gains ==
      page = "metrics" /\ hook.data # Null /\ hook'.data # Null =>
        LET gained == series'.credited - series.credited
            before == hook.data.totals.requestCount
            now == hook'.data.totals.requestCount
        IN  IF hook'.data.starts = hook.data.starts
            THEN gained = now - before ELSE gained <= now
<1>1. ASSUME DInv, [Next]_vars, page = "metrics", hook.data # Null, hook'.data # Null
      PROVE  IF hook'.data.starts = hook.data.starts
             THEN series'.credited - series.credited =
                    hook'.data.totals.requestCount - hook.data.totals.requestCount
             ELSE series'.credited - series.credited <= hook'.data.totals.requestCount
  <2>1. /\ hook.data \in Answers /\ hook.data.totals \in Totals
        /\ hook.data.totals.requestCount \in Nat
        /\ series \in [prev : Totals \cup {Null}, points : Seq(Points), credited : Nat]
        /\ series.credited \in Nat
    BY <1>1 DEF DInv, TypeOK, Hooks, Answers, Totals
  <2>2. CASE hook'.data = hook.data /\ series' = series
    BY <2>1, <2>2
  <2>3. CASE hook'.data = Older(hook.data) /\ series' = series
    <3>1. /\ hook'.data.starts = hook.data.starts
          /\ hook'.data.totals = hook.data.totals
      BY <1>1, <2>1, <2>3, OlderFits DEF DInv
    <3> QED
      BY <2>1, <2>3, <3>1
  <2>4. ASSUME NEW f \in fetch, Deliver(f)
        PROVE  IF hook'.data.starts = hook.data.starts
               THEN series'.credited - series.credited =
                      hook'.data.totals.requestCount - hook.data.totals.requestCount
               ELSE series'.credited - series.credited <= hook'.data.totals.requestCount
    <3> DEFINE t == f.answer.totals
               now == t.requestCount
               before == hook.data.totals.requestCount
    <3>1. /\ f.answer \in Answers /\ hook'.data = f.answer
          /\ Follows(f.answer, hook.data) /\ series' = Extended(series, t)
      BY <1>1, <2>4, Delivers
    <3>2. f.answer # Null /\ t \in Totals /\ now \in Nat /\ before \in Nat
      BY <2>1, <3>1, NullIsNothing DEF Answers, Totals
    <3>3. series.prev = hook.data.totals /\ series.prev # Null
      BY <1>1, <2>1, NullIsNothing DEF DInv, SeriesFollows
    <3>4. series'.credited = series.credited + Delta(now, before)
      BY <2>1, <3>1, <3>2, <3>3, ExtendedFits
    <3>5. hook'.data.starts = hook.data.starts => before <= now
      BY <1>1, <3>1, <3>2 DEF Follows
    <3>6. hook'.data.totals.requestCount = now
      BY <3>1
    <3> HIDE DEF now, before, t
    <3>7. /\ before <= now => Delta(now, before) = now - before
          /\ Delta(now, before) \in Nat /\ Delta(now, before) <= now
      BY <3>2 DEF Delta
    <3> QED
      BY <2>1, <3>2, <3>4, <3>5, <3>6, <3>7 DEF before
  <2>5. page = "metrics" => tab.mounted /\ tab'.mounted
    <3>1. DInv'
      BY <1>1, NextKeepsDInv
    <3>2. page' = page
      BY <1>1 DEF Next, vars, Record, Restart, Poll, Serve, Refuse, Deliver, Fail,
         ChangeFilter, SelectService, Enter, Hide, Show, Leave, Tick
    <3> QED
      BY <1>1, <3>1, <3>2 DEF DInv, OneRequest
  <2> QED
    BY <1>1, <2>2, <2>3, <2>4, ShownChanges
<1>2. DInv /\ [Next]_vars => [Gains]_vars
  BY <1>1
<1> QED
  BY <1>2, DInvHolds, PTL DEF Spec, SeriesFollowsTheGateway

-----------------------------------------------------------------------------
(* The store and its list.                                                  *)

\* Where the last n elements of s begin.
EndsFrom(s, n) == IF Len(s) > n THEN Len(s) - n + 1 ELSE 1

\* The last n elements of s, or all.
Ending(s, n) == IF Len(s) > n THEN SubSeq(s, Len(s) - n + 1, Len(s)) ELSE s

\* What a suffix has, and where.
LEMMA SuffixHas ==
  ASSUME NEW S, NEW s \in Seq(S), NEW from \in Nat \ {0}, from <= Len(s)
  PROVE  /\ Len(SubSeq(s, from, Len(s))) = Len(s) - from + 1
         /\ \A i \in 1..Len(SubSeq(s, from, Len(s))) :
              SubSeq(s, from, Len(s))[i] = s[from + i - 1]
<1>1. from \in Int /\ Len(s) \in Int
  OBVIOUS
<1>2. \A i \in from..Len(s) : s[i] \in S
  BY <1>1
<1>3. /\ Len(SubSeq(s, from, Len(s))) = IF from <= Len(s) THEN Len(s) - from + 1 ELSE 0
      /\ \A i \in 1..Len(s) - from + 1 : SubSeq(s, from, Len(s))[i] = s[from + i - 1]
  BY <1>1, <1>2, SubSeqProperties
<1> QED
  BY <1>1, <1>3

\* What it has, and where.
LEMMA EndingHas ==
  ASSUME NEW S, NEW s \in Seq(S), NEW n \in Nat \ {0}
  PROVE  /\ Ending(s, n) \in Seq(S)
         /\ EndsFrom(s, n) \in Nat \ {0}
         /\ Len(Ending(s, n)) = Len(s) - EndsFrom(s, n) + 1
         /\ \A i \in 1..Len(Ending(s, n)) :
              /\ i + EndsFrom(s, n) - 1 \in 1..Len(s)
              /\ Ending(s, n)[i] = s[i + EndsFrom(s, n) - 1]
<1>1. CASE Len(s) > n
  <2> DEFINE from == Len(s) - n + 1
             u == SubSeq(s, from, Len(s))
  <2>1. Len(s) \in Nat /\ from \in Nat \ {0} /\ from <= Len(s)
    BY <1>1
  <2>2. u \in Seq(S)
    BY <1>1, TailFits
  <2>3. Len(u) = Len(s) - from + 1 /\ \A i \in 1..Len(u) : u[i] = s[from + i - 1]
    <3> HIDE DEF from
    <3> QED
      BY <2>1, SuffixHas
  <2>4. \A i \in 1..Len(u) : i + from - 1 \in 1..Len(s) /\ i + from - 1 = from + i - 1
    BY <2>1, <2>3
  <2>5. Ending(s, n) = u /\ EndsFrom(s, n) = from
    BY <1>1 DEF Ending, EndsFrom
  <2> HIDE DEF u, from
  <2> QED
    BY <2>1, <2>2, <2>3, <2>4, <2>5
<1>2. CASE ~(Len(s) > n)
  <2>1. Ending(s, n) = s /\ EndsFrom(s, n) = 1
    BY <1>2 DEF Ending, EndsFrom
  <2>2. \A i \in 1..Len(s) : i + 1 - 1 = i
    OBVIOUS
  <2> QED
    BY <2>1, <2>2
<1> QED
  BY <1>1, <1>2

\* Cutting before and after something is added, and only after, is the same.
LEMMA RetainedTwice ==
  ASSUME NEW S, NEW s \in Seq(S), NEW e \in S
  PROVE  Retained(Append(Retained(s), e)) = Retained(Append(s, e))
<1> DEFINE C == Capacity
           full == Append(s, e)
           short == Append(Ending(s, C), e)
<1>1. C \in Nat \ {0} /\ full \in Seq(S) /\ Len(full) = Len(s) + 1 /\ Len(s) \in Nat
  BY EventStoreAssumption
<1>2. \A w : Retained(w) = Ending(w, C)
  BY DEF Retained, Ending
<1>3. CASE ~(Len(s) > C)
  BY <1>2, <1>3 DEF Ending
<1>4. CASE Len(s) > C
  <2> DEFINE u == Ending(s, C)
  <2>1. /\ u \in Seq(S) /\ Len(u) = C
        /\ \A i \in 1..C : i + (Len(s) - C) \in 1..Len(s) /\ u[i] = s[i + (Len(s) - C)]
    <3>1. /\ u \in Seq(S) /\ Len(u) = Len(s) - (Len(s) - C + 1) + 1
          /\ \A i \in 1..Len(u) : /\ i + (Len(s) - C + 1) - 1 \in 1..Len(s)
                                  /\ u[i] = s[i + (Len(s) - C + 1) - 1]
      BY <1>1, <1>4, EndingHas DEF EndsFrom
    <3> HIDE DEF u
    <3>2. Len(u) = C
      BY <1>1, <3>1
    <3>3. \A i \in 1..C : i + (Len(s) - C + 1) - 1 = i + (Len(s) - C)
      BY <1>1
    <3> QED
      BY <3>1, <3>2, <3>3
  <2> HIDE DEF u
  <2>2. /\ short = Append(u, e) /\ short \in Seq(S) /\ Len(short) = C + 1
        /\ \A i \in 1..C : short[i] = u[i]
        /\ short[C + 1] = e
    BY <1>1, <2>1 DEF u
  <2> HIDE DEF short
  <2>3. /\ \A i \in 1..Len(s) : full[i] = s[i]
        /\ full[Len(s) + 1] = e
    BY <1>1
  <2> HIDE DEF full
  <2> DEFINE a == Ending(short, C)
             b == Ending(full, C)
  <2>4. /\ a \in Seq(S) /\ Len(a) = C
        /\ \A i \in 1..C : a[i] = short[i + 1]
    <3>1. Len(short) > C /\ Len(short) - C + 1 = 2
      BY <1>1, <2>2
    <3>2. /\ a \in Seq(S) /\ Len(a) = Len(short) - (Len(short) - C + 1) + 1
          /\ \A i \in 1..Len(a) : a[i] = short[i + (Len(short) - C + 1) - 1]
      BY <1>1, <2>2, <3>1, EndingHas DEF EndsFrom
    <3> HIDE DEF a
    <3>3. Len(a) = C
      BY <1>1, <2>2, <3>2
    <3>4. \A i \in 1..C : i + (Len(short) - C + 1) - 1 = i + 1
      BY <1>1, <3>1
    <3> QED
      BY <3>2, <3>3, <3>4
  <2>5. /\ b \in Seq(S) /\ Len(b) = C
        /\ \A i \in 1..C : b[i] = full[i + (Len(s) - C) + 1]
    <3>1. Len(full) > C /\ Len(full) - C + 1 = Len(s) - C + 2
      BY <1>1, <1>4
    <3>2. /\ b \in Seq(S) /\ Len(b) = Len(full) - (Len(full) - C + 1) + 1
          /\ \A i \in 1..Len(b) : b[i] = full[i + (Len(full) - C + 1) - 1]
      BY <1>1, <3>1, EndingHas DEF EndsFrom
    <3> HIDE DEF b
    <3>3. Len(b) = C
      BY <1>1, <3>2
    <3>4. \A i \in 1..C : i + (Len(full) - C + 1) - 1 = i + (Len(s) - C) + 1
      BY <1>1, <3>1
    <3> QED
      BY <3>2, <3>3, <3>4
  <2>6. \A i \in 1..C : a[i] = b[i]
    <3> SUFFICES ASSUME NEW i \in 1..C PROVE a[i] = b[i]
      OBVIOUS
    <3>1. a[i] = short[i + 1] /\ b[i] = full[i + (Len(s) - C) + 1]
      BY <2>4, <2>5
    <3>2. CASE i = C
      <4>1. i + (Len(s) - C) + 1 = Len(s) + 1
        BY <1>1, <3>2
      <4> QED
        BY <2>2, <2>3, <3>1, <3>2, <4>1
    <3>3. CASE i # C
      <4>1. i + 1 \in 1..C /\ i + (Len(s) - C) + 1 = (i + 1) + (Len(s) - C)
        BY <1>1, <3>3
      <4>2. short[i + 1] = s[(i + 1) + (Len(s) - C)] /\ (i + 1) + (Len(s) - C) \in 1..Len(s)
        BY <2>1, <2>2, <4>1
      <4> QED
        BY <2>3, <3>1, <4>1, <4>2
    <3> QED
      BY <3>2, <3>3
  <2> HIDE DEF a, b
  <2>7. a = b
    BY <2>4, <2>5, <2>6, SeqEqual
  <2> QED
    BY <1>2, <2>7 DEF a, b, short, full
<1> QED
  BY <1>3, <1>4

\* Later events have greater ids.
Rising(s) == \A i, j \in 1..Len(s) : i < j => s[i].id < s[j].id

Among(s) == {s[i] : i \in DOMAIN s}

\* What list() takes its answer from.
Matched(s, query) == Kept(s, {i \in DOMAIN s : Matches(s[i], query)})

\* It has the matching events, in their order.
LEMMA Selected ==
  ASSUME NEW s \in Seq(Events), Rising(s), NEW query
  PROVE  /\ Matched(s, query) \in Seq(Events) /\ Rising(Matched(s, query))
         /\ Among(Matched(s, query)) = {e \in Among(s) : Matches(e, query)}
<1> DEFINE P == {i \in DOMAIN s : Matches(s[i], query)}
           t == Kept(s, P)
<1>1. DOMAIN s = 1..Len(s) /\ Len(s) \in Nat /\ P \subseteq 1..Len(s)
  OBVIOUS
<1>2. t \in Seq(Events) /\ \E h : Picks(h, t, s, P, Len(s))
  <2> HIDE DEF P
  <2> QED
    BY <1>1, KeptIsSelection
<1>3. PICK h : Picks(h, t, s, P, Len(s))
  BY <1>2
<1>4. P = {i \in 1..Len(s) : Matches(s[i], query)}
  BY <1>1
<1> HIDE DEF P, t
<1>5. /\ h \in [1..Len(t) -> P] /\ DOMAIN t = 1..Len(t)
      /\ \A i \in 1..Len(t) : t[i] = s[h[i]]
      /\ \A i, j \in 1..Len(t) : i < j => h[i] < h[j]
      /\ \A k \in P : \E i \in 1..Len(t) : h[i] = k
  <2>1. P \cap (1..Len(s)) = P
    BY <1>1
  <2>2. DOMAIN t = 1..Len(t)
    BY <1>2
  <2> QED
    BY <1>3, <2>1, <2>2 DEF Picks
<1>6. Rising(t)
  <2> SUFFICES ASSUME NEW i \in 1..Len(t), NEW j \in 1..Len(t), i < j
               PROVE  t[i].id < t[j].id
    BY DEF Rising
  <2>1. h[i] \in 1..Len(s) /\ h[j] \in 1..Len(s) /\ h[i] < h[j]
    BY <1>1, <1>5
  <2> QED
    BY <1>5, <2>1 DEF Rising
<1>7. Among(t) = {e \in Among(s) : Matches(e, query)}
  <2>1. ASSUME NEW e \in Among(t) PROVE e \in Among(s) /\ Matches(e, query)
    <3>1. PICK i \in 1..Len(t) : e = t[i]
      BY <1>5 DEF Among
    <3>2. h[i] \in P /\ e = s[h[i]]
      BY <1>5, <3>1
    <3> QED
      BY <1>1, <1>4, <3>2 DEF Among
  <2>2. ASSUME NEW e \in Among(s), Matches(e, query) PROVE e \in Among(t)
    <3>1. PICK k \in 1..Len(s) : e = s[k]
      BY <1>1 DEF Among
    <3>2. k \in P
      BY <1>4, <2>2, <3>1
    <3>3. PICK i \in 1..Len(t) : h[i] = k
      BY <1>5, <3>2
    <3> QED
      BY <1>5, <3>1, <3>3 DEF Among
  <2> QED
    BY <2>1, <2>2
<1> QED
  BY <1>2, <1>6, <1>7 DEF t, P, Matched

\* The list is the end of those, read backwards.
LEMMA ListReadsBackwards ==
  ASSUME NEW s, NEW query, query.limit \in Int, NEW t \in Seq(Events), t = Matched(s, query)
  PROVE  /\ AskedFor(query.limit) \in Nat \ {0}
         /\ Len(List(s, query)) = Len(t) - EndsFrom(t, AskedFor(query.limit)) + 1
         /\ DOMAIN List(s, query) = 1..Len(List(s, query))
         /\ \A i \in 1..Len(List(s, query)) :
              /\ Len(t) - i + 1 \in EndsFrom(t, AskedFor(query.limit))..Len(t)
              /\ List(s, query)[i] = t[Len(t) - i + 1]
<1> DEFINE L == AskedFor(query.limit)
           u == Ending(t, L)
<1>1. L \in Nat \ {0}
  BY EventStoreAssumption DEF AskedFor
<1>2. List(s, query) = Reverse(SubSeq(t, EndsFrom(t, L), Len(t)))
  BY <1>1, EventStoreAssumption DEF List, EndsFrom, Matched, AskedFor
<1> HIDE DEF L
<1>3. SubSeq(t, EndsFrom(t, L), Len(t)) = u
  <2>1. CASE Len(t) > L
    BY <2>1 DEF EndsFrom, Ending
  <2>2. CASE ~(Len(t) > L)
    <3>1. SubSeq(t, 1, Len(t)) = t
      OBVIOUS
    <3> QED
      BY <2>2, <3>1 DEF EndsFrom, Ending
  <2> QED
    BY <2>1, <2>2
<1>4. /\ u \in Seq(Events) /\ EndsFrom(t, L) \in Nat \ {0}
      /\ Len(u) = Len(t) - EndsFrom(t, L) + 1
      /\ \A i \in 1..Len(u) : u[i] = t[i + EndsFrom(t, L) - 1]
  BY <1>1, EndingHas
<1> HIDE DEF u
<1>5. /\ Len(u) \in Nat /\ Len(t) \in Nat
      /\ List(s, query) = [i \in 1..Len(u) |-> u[Len(u) - i + 1]]
  BY <1>2, <1>3, <1>4 DEF Reverse
<1> DEFINE l == List(s, query)
<1>6. Len(l) = Len(u) /\ DOMAIN l = 1..Len(u)
  BY <1>5
<1>7. ASSUME NEW i \in 1..Len(l)
      PROVE  /\ Len(t) - i + 1 \in EndsFrom(t, L)..Len(t)
             /\ l[i] = t[Len(t) - i + 1]
  <2>1. l[i] = u[Len(u) - i + 1] /\ Len(u) - i + 1 \in 1..Len(u) /\ i \in 1..Len(u)
    BY <1>5, <1>6
  <2> HIDE DEF l
  <2>2. l[i] = t[(Len(u) - i + 1) + EndsFrom(t, L) - 1]
    BY <1>4, <2>1
  <2>3. (Len(u) - i + 1) + EndsFrom(t, L) - 1 = Len(t) - i + 1
    <3>1. /\ i \in Int /\ Len(u) \in Int /\ Len(t) \in Int /\ EndsFrom(t, L) \in Int
          /\ Len(u) = Len(t) - EndsFrom(t, L) + 1
      BY <1>4, <1>5, <2>1
    <3>2. \A a, b, c, k \in Int : a = b - c + 1 => (a - k + 1) + c - 1 = b - k + 1
      OBVIOUS
    <3> QED
      BY <3>1, <3>2
  <2>4. Len(t) - i + 1 \in EndsFrom(t, L)..Len(t)
    BY <1>4, <1>5, <2>1
  <2> QED
    BY <2>2, <2>3, <2>4
<1> QED
  BY <1>1, <1>4, <1>6, <1>7 DEF L

\* A rising sequence has as many elements as positions.
LEMMA AmongCounts ==
  ASSUME NEW t \in Seq(Events), Rising(t)
  PROVE  Cardinality(Among(t)) = Len(t)
<1>1. DOMAIN t = 1..Len(t) /\ Len(t) \in Nat /\ t \in [1..Len(t) -> Among(t)]
  BY DEF Among
<1>2. \A i, j \in 1..Len(t) : t[i] = t[j] => i = j
  <2> SUFFICES ASSUME NEW i \in 1..Len(t), NEW j \in 1..Len(t), i < j PROVE t[i] # t[j]
    OBVIOUS
  <2>1. t[i].id < t[j].id /\ t[i] \in Events /\ t[j] \in Events
    BY DEF Rising
  <2> QED
    BY <2>1 DEF Events
<1>3. t \in Bijection(1..Len(t), Among(t))
  BY <1>1, <1>2 DEF Bijection, Injection, Surjection, IsInjective, Among
<1>4. \A n \in Nat : IsFiniteSet(1..n) /\ Cardinality(1..n) = n
  BY FS_Interval
<1> QED
  BY <1>1, <1>3, <1>4, FS_Bijection DEF ExistsBijection

\* What fewer than n others are later than is the end of a rising sequence.
LEMMA LatestAreEnding ==
  ASSUME NEW s \in Seq(Events), Rising(s), NEW n \in Nat \ {0}
  PROVE  {e \in Among(s) : Cardinality({i \in DOMAIN s : s[i].id > e.id}) < n}
           = Among(Ending(s, n))
<1> DEFINE from == EndsFrom(s, n)
           u == Ending(s, n)
           later(k) == {i \in DOMAIN s : s[i].id > s[k].id}
<1>1. DOMAIN s = 1..Len(s) /\ Len(s) \in Nat
  OBVIOUS
<1>2. /\ u \in Seq(Events) /\ from \in Nat \ {0} /\ Len(u) = Len(s) - from + 1
      /\ \A i \in 1..Len(u) : i + from - 1 \in 1..Len(s) /\ u[i] = s[i + from - 1]
  BY EndingHas
<1>3. DOMAIN u = 1..Len(u)
  BY <1>2
<1>4. \A k \in 1..Len(s) : k >= from <=> Len(s) - k < n
  BY <1>1 DEF EndsFrom
<1>5. ASSUME NEW k \in 1..Len(s) PROVE Cardinality(later(k)) = Len(s) - k
  <2>1. \A i \in 1..Len(s) : s[i].id > s[k].id <=> i > k
    <3> SUFFICES ASSUME NEW i \in 1..Len(s) PROVE s[i].id > s[k].id <=> i > k
      OBVIOUS
    <3>1. s[i].id \in Nat /\ s[k].id \in Nat
      <4>1. s[i] \in Events /\ s[k] \in Events
        OBVIOUS
      <4> QED
        BY <4>1 DEF Events
    <3>2. i > k => s[i].id > s[k].id
      BY <3>1 DEF Rising
    <3>3. i < k => s[i].id < s[k].id
      BY DEF Rising
    <3> QED
      BY <3>1, <3>2, <3>3
  <2>2. later(k) = (k + 1)..Len(s)
    BY <1>1, <2>1
  <2>3. \A a, b \in Int : Cardinality(a..b) = IF a > b THEN 0 ELSE b - a + 1
    BY FS_Interval
  <2>4. k + 1 \in Int /\ Len(s) \in Int
    BY <1>1
  <2>5. Cardinality(later(k)) = IF k + 1 > Len(s) THEN 0 ELSE Len(s) - (k + 1) + 1
    BY <2>2, <2>3, <2>4
  <2> QED
    BY <1>1, <2>5
<1>6. ASSUME NEW e \in Among(s), Cardinality({i \in DOMAIN s : s[i].id > e.id}) < n
      PROVE  e \in Among(u)
  <2>1. PICK k \in 1..Len(s) : e = s[k]
    BY <1>1 DEF Among
  <2>2. k >= from
    BY <1>4, <1>5, <1>6, <2>1
  <2>3. k - from + 1 \in 1..Len(u) /\ (k - from + 1) + from - 1 = k
    BY <1>1, <1>2, <2>2
  <2>4. u[k - from + 1] = e
    BY <1>2, <2>1, <2>3
  <2> QED
    BY <1>3, <2>3, <2>4 DEF Among
<1>7. ASSUME NEW e \in Among(u)
      PROVE  e \in Among(s) /\ Cardinality({i \in DOMAIN s : s[i].id > e.id}) < n
  <2>1. PICK i \in 1..Len(u) : e = u[i]
    BY <1>3 DEF Among
  <2> DEFINE k == i + from - 1
  <2>2. k \in 1..Len(s) /\ e = s[k] /\ k >= from
    BY <1>2, <2>1
  <2> HIDE DEF k
  <2>3. Cardinality(later(k)) < n
    BY <1>4, <1>5, <2>2
  <2> QED
    BY <1>1, <2>2, <2>3 DEF Among
<1> QED
  BY <1>6, <1>7

\* The store is the end of what was recorded, which has rising ids.
StoreIsEnd ==
  /\ gateway.events = Retained(gateway.recorded)
  /\ Rising(gateway.recorded)
  /\ \A i \in 1..Len(gateway.recorded) : gateway.recorded[i].id <= gateway.version

\* Recording keeps it so, and restarting starts it anew.
LEMMA StoreStays == DInv /\ StoreIsEnd /\ [Next]_vars => StoreIsEnd'
<1> SUFFICES ASSUME DInv, StoreIsEnd, [Next]_vars PROVE StoreIsEnd'
  OBVIOUS
<1>1. /\ gateway.version \in Nat
      /\ gateway.events \in Seq(Events) /\ gateway.recorded \in Seq(Events)
  BY DEF DInv, TypeOK
<1>2. ASSUME NEW type \in EventTypes, Record(type) PROVE StoreIsEnd'
  <2> DEFINE e == [id |-> gateway.version + 1, type |-> type]
             r == gateway.recorded
             w == Append(r, e)
  <2>1. /\ gateway'.events = Retained(Append(gateway.events, e))
        /\ gateway'.recorded = w /\ gateway'.version = gateway.version + 1
    BY <1>2 DEF Record, Appended
  <2>2. e \in Events /\ e.id = gateway.version + 1
    BY <1>1 DEF Events
  <2> HIDE DEF e
  <2>3. gateway'.events = Retained(w)
    <3>1. gateway.events = Retained(r)
      BY DEF StoreIsEnd
    <3> QED
      BY <1>1, <2>1, <2>2, <3>1, RetainedTwice
  <2>4. /\ Len(w) = Len(r) + 1 /\ Len(r) \in Nat
        /\ \A i \in 1..Len(r) : w[i] = r[i]
        /\ w[Len(r) + 1] = e
    BY <1>1
  <2>5. \A i \in 1..Len(r) : r[i].id <= gateway.version /\ r[i].id \in Nat
    <3> SUFFICES ASSUME NEW i \in 1..Len(r) PROVE r[i].id <= gateway.version /\ r[i].id \in Nat
      OBVIOUS
    <3>1. r[i] \in Events
      BY <1>1
    <3> QED
      BY <3>1 DEF StoreIsEnd, Events
  <2> HIDE DEF w
  <2>6. Rising(w)
    <3> SUFFICES ASSUME NEW i \in 1..Len(w), NEW j \in 1..Len(w), i < j
                 PROVE  w[i].id < w[j].id
      BY DEF Rising
    <3>1. i \in 1..Len(r)
      BY <2>4
    <3>2. CASE j = Len(r) + 1
      <4>1. r[i].id <= gateway.version /\ r[i].id \in Nat
        BY <2>5, <3>1
      <4>2. w[i].id = r[i].id /\ w[j].id = gateway.version + 1
        BY <2>2, <2>4, <3>1, <3>2
      <4> QED
        BY <1>1, <4>1, <4>2
    <3>3. CASE j # Len(r) + 1
      <4>1. j \in 1..Len(r)
        BY <2>4, <3>3
      <4>2. r[i].id < r[j].id
        BY <3>1, <4>1 DEF StoreIsEnd, Rising
      <4> QED
        BY <2>4, <3>1, <4>1, <4>2
    <3> QED
      BY <3>2, <3>3
  <2>7. \A i \in 1..Len(w) : w[i].id <= gateway.version + 1
    <3> SUFFICES ASSUME NEW i \in 1..Len(w) PROVE w[i].id <= gateway.version + 1
      OBVIOUS
    <3>1. CASE i = Len(r) + 1
      BY <1>1, <2>2, <2>4, <3>1
    <3>2. CASE i # Len(r) + 1
      <4>1. i \in 1..Len(r)
        BY <2>4, <3>2
      <4> QED
        BY <1>1, <2>4, <2>5, <4>1
    <3> QED
      BY <3>1, <3>2
  <2> QED
    BY <2>1, <2>3, <2>6, <2>7 DEF StoreIsEnd, Rising, Retained
<1>3. CASE Restart
  <2>1. gateway'.events = <<>> /\ gateway'.recorded = <<>>
    BY <1>3 DEF Restart
  <2>2. Retained(gateway'.recorded) = gateway'.events
    BY <2>1, EventStoreAssumption DEF Retained
  <2>3. Rising(gateway'.recorded) /\ Len(gateway'.recorded) = 0
    BY <2>1 DEF Rising
  <2>4. \A i \in 1..Len(gateway'.recorded) : gateway'.recorded[i].id <= gateway'.version
    BY <2>3
  <2> QED
    BY <2>2, <2>3, <2>4 DEF StoreIsEnd, Rising, Retained
<1>4. CASE UNCHANGED gateway
  BY <1>4 DEF StoreIsEnd, Rising, Retained
<1> QED
  BY <1>2, <1>3, <1>4
  DEF Next, Poll, Serve, Refuse, Deliver, Fail, ChangeFilter, SelectService, Enter,
      Hide, Show, Leave, Tick, vars

\* For every query that is accepted, and for one with a limit of 0 or above the
\* ring's capacity, the list has the newest of the matching events that the
\* gateway has kept since it started, newest first, as many as there are up to
\* the limit, cut to what the ring can hold: list of eventStore.service.ts.
THEOREM ListIsNewestMatchingHolds == Spec => []ListIsNewestMatching
<1>1. Init => StoreIsEnd
  BY EventStoreAssumption DEF Init, StoreIsEnd, Rising, Retained
<1>2. ASSUME DInv, StoreIsEnd PROVE ListIsNewestMatching
  <2> SUFFICES ASSUME NEW query \in Queries
               PROVE
        LET Stored == {e \in {gateway.recorded[i] : i \in DOMAIN gateway.recorded} :
                           Cardinality({i \in DOMAIN gateway.recorded :
                                            gateway.recorded[i].id > e.id}) < Capacity}
            Matching == {e \in Stored : Matches(e, query)}
            list == List(gateway.events, query)
            Listed == {list[i] : i \in DOMAIN list}
        IN  /\ Listed \subseteq Matching
            /\ Len(list) = (IF Cardinality(Matching) < AskedFor(query.limit)
                            THEN Cardinality(Matching) ELSE AskedFor(query.limit))
            /\ \A i, j \in DOMAIN list : i < j => list[i].id > list[j].id
            /\ \A e \in Matching \ Listed : \A l \in Listed : l.id > e.id
    BY DEF ListIsNewestMatching
  <2> DEFINE r == gateway.recorded
             s == gateway.events
             Stored == {e \in Among(r) : Cardinality({i \in DOMAIN r : r[i].id > e.id}) < Capacity}
             Matching == {e \in Stored : Matches(e, query)}
             list == List(s, query)
             Listed == Among(list)
             t == Matched(s, query)
             n == AskedFor(query.limit)
             from == EndsFrom(t, n)
  <2>0. query.limit \in Int
    BY EventStoreAssumption DEF Queries, ValidQuery
  <2>1. /\ r \in Seq(Events) /\ s \in Seq(Events) /\ Rising(r) /\ s = Retained(r)
    BY <1>2 DEF DInv, TypeOK, StoreIsEnd
  <2>2. s = Ending(r, Capacity) /\ Capacity \in Nat \ {0}
    BY <2>1, EventStoreAssumption DEF Ending, Retained
  <2>3. Stored = Among(s)
    <3> HIDE DEF r
    <3> QED
      BY <2>1, <2>2, LatestAreEnding
  <2>4. Rising(s)
    <3> HIDE DEF r
    <3>1. /\ EndsFrom(r, Capacity) \in Nat \ {0}
          /\ \A i \in 1..Len(s) : /\ i + EndsFrom(r, Capacity) - 1 \in 1..Len(r)
                                  /\ s[i] = r[i + EndsFrom(r, Capacity) - 1]
      BY <2>1, <2>2, EndingHas
    <3> HIDE DEF s
    <3> SUFFICES ASSUME NEW i \in 1..Len(s), NEW j \in 1..Len(s), i < j
                 PROVE  s[i].id < s[j].id
      BY DEF Rising
    <3>2. i + EndsFrom(r, Capacity) - 1 < j + EndsFrom(r, Capacity) - 1
      BY <3>1
    <3> QED
      BY <2>1, <3>1, <3>2 DEF Rising
  <2> HIDE DEF r, s
  <2>5. t \in Seq(Events) /\ Rising(t) /\ Among(t) = {e \in Among(s) : Matches(e, query)}
    BY <2>1, <2>4, Selected
  <2>6. Matching = Among(t)
    BY <2>3, <2>5
  <2>7. /\ n \in Nat \ {0}
        /\ Len(list) = Len(t) - from + 1 /\ DOMAIN list = 1..Len(list)
        /\ \A i \in 1..Len(list) : /\ Len(t) - i + 1 \in from..Len(t)
                                   /\ list[i] = t[Len(t) - i + 1]
    <3> HIDE DEF list, from, n
    <3>1. t = Matched(s, query)
      OBVIOUS
    <3> HIDE DEF t
    <3> QED
      BY <2>0, <2>5, <3>1, ListReadsBackwards DEF list, from, n
  <2> HIDE DEF Stored, Matching, t, list, n
  <2>8. /\ Len(t) \in Nat /\ from \in Nat \ {0} /\ from <= Len(t) + 1
        /\ DOMAIN t = 1..Len(t) /\ Len(list) \in Nat
    BY <2>5, <2>7 DEF EndsFrom
  <2> HIDE DEF from
  <2>9. Listed \subseteq Matching
    <3> SUFFICES ASSUME NEW i \in 1..Len(list) PROVE list[i] \in Among(t)
      BY <2>6, <2>7 DEF Among
    <3>1. Len(t) - i + 1 \in 1..Len(t)
      BY <2>7, <2>8
    <3> QED
      BY <2>7, <2>8, <3>1 DEF Among
  <2>10. Len(list) = IF Cardinality(Matching) < n THEN Cardinality(Matching) ELSE n
    <3>1. Cardinality(Matching) = Len(t)
      BY <2>5, <2>6, AmongCounts
    <3>2. Len(list) = Len(t) - from + 1 /\ n \in Nat \ {0} /\ Len(t) \in Nat
      BY <2>7, <2>8
    <3>3. from = IF Len(t) > n THEN Len(t) - n + 1 ELSE 1
      BY DEF from, EndsFrom
    <3>4. Len(list) \in Int /\ from \in Int
      BY <2>8
    <3>5. Len(list) = IF Len(t) < n THEN Len(t) ELSE n
      <4>1. CASE Len(t) > n
        <5>1. from = Len(t) - n + 1
          BY <3>3, <4>1
        <5> QED
          BY <3>2, <3>4, <4>1, <5>1
      <4>2. CASE ~(Len(t) > n)
        <5>1. from = 1
          BY <3>3, <4>2
        <5> QED
          BY <3>2, <3>4, <4>2, <5>1
      <4> QED
        BY <4>1, <4>2
    <3> QED
      BY <3>1, <3>5
  <2>11. \A i, j \in DOMAIN list : i < j => list[i].id > list[j].id
    <3> SUFFICES ASSUME NEW i \in 1..Len(list), NEW j \in 1..Len(list), i < j
                 PROVE  list[i].id > list[j].id
      BY <2>7
    <3>1. /\ Len(t) - i + 1 \in 1..Len(t) /\ Len(t) - j + 1 \in 1..Len(t)
          /\ Len(t) - j + 1 < Len(t) - i + 1
      BY <2>7, <2>8
    <3>2. t[Len(t) - j + 1].id < t[Len(t) - i + 1].id
      BY <2>5, <3>1 DEF Rising
    <3> QED
      BY <2>7, <3>2
  <2>12. \A e \in Matching \ Listed : \A l \in Listed : l.id > e.id
    <3> SUFFICES ASSUME NEW e \in Among(t), e \notin Listed,
                        NEW i \in 1..Len(list)
                 PROVE  list[i].id > e.id
      BY <2>6, <2>7 DEF Among
    <3>1. PICK k \in 1..Len(t) : e = t[k]
      BY <2>8 DEF Among
    <3>2. ~(k >= from)
      <4> SUFFICES ASSUME k >= from PROVE FALSE
        OBVIOUS
      <4>1. Len(t) - k + 1 \in 1..Len(list) /\ Len(t) - (Len(t) - k + 1) + 1 = k
        BY <2>7, <2>8
      <4>2. list[Len(t) - k + 1] = e
        BY <2>7, <3>1, <4>1
      <4> QED
        BY <2>7, <4>1, <4>2 DEF Among
    <3>3. Len(t) - i + 1 \in 1..Len(t) /\ k < Len(t) - i + 1
      BY <2>7, <2>8, <3>2
    <3>4. t[k].id < t[Len(t) - i + 1].id
      BY <2>5, <3>3 DEF Rising
    <3> QED
      BY <2>7, <3>1, <3>4
  <2> QED
    BY <2>9, <2>10, <2>11, <2>12 DEF Among, Matching, Stored, list, r, s, n
<1> QED
  BY <1>1, <1>2, DInvHolds, StoreStays, PTL DEF Spec

=============================================================================
