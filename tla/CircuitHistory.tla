---------------------------- MODULE CircuitHistory ----------------------------
(***************************************************************************)
(* CircuitBreaker with history variables: who took which probe slot, which *)
(* calls in flight were admitted as probes, and how many failures have     *)
(* been reported in a row.  The code keeps none of this; the variables     *)
(* only watch, every step is a step of CircuitBreaker.                     *)
(***************************************************************************)
EXTENDS CircuitBreaker, FiniteSets

VARIABLES
  holder,     \* holder[s]: calls whose slot is part of the current half-open period
  leaked,     \* leaked[s]: slots of this period whose call ended without a verdict
  probing,    \* calls in flight that were admitted as probes (isProbe)
  streak      \* streak[s]: circuit failures recorded since the last success

hvars == <<circuit, serving, holder, leaked, probing, streak>>

\* The counters stay in their ranges: no probe slot is reserved or released more
\* often than the limit allows.  circuitBreaker.service.ts:17, 99-107, 116-131.
HTypeOK ==
  /\ TypeOK
  /\ holder \in [Services -> SUBSET Calls]
  /\ leaked \in [Services -> 0..HalfOpenMax]
  /\ probing \in SUBSET Calls
  /\ streak \in [Services -> 0..CountBound]

HInit ==
  /\ Init
  /\ holder = [s \in Services |-> {}]
  /\ leaked = [s \in Services |-> 0]
  /\ probing = {}
  /\ streak = [s \in Services |-> 0]

-----------------------------------------------------------------------------

\* The slot ledger after a step of call k: a period's entries are dropped when
\* the circuit leaves HALF_OPEN; within a period k's arrival takes a slot, and
\* its departure leaves the slot it held with nobody.
Ledger(k) ==
  LET arrives(s) == serving[k] # s /\ serving'[k] = s
      departs(s) == serving[k] = s /\ serving'[k] # s
      halfOpen(s) == circuit'[s].state = "HALF_OPEN"
  IN
  /\ holder' = [s \in Services |->
       IF ~halfOpen(s) THEN {}
       ELSE IF arrives(s) THEN holder[s] \cup {k}
       ELSE IF departs(s) THEN holder[s] \ {k}
       ELSE holder[s]]
  /\ leaked' = [s \in Services |->
       IF ~halfOpen(s) THEN 0
       ELSE IF departs(s) /\ k \in holder[s] THEN leaked[s] + 1
       ELSE leaked[s]]
  /\ probing' = IF \E s \in Services : arrives(s) /\ halfOpen(s)
                THEN probing \cup {k}
                ELSE IF serving'[k] # serving[k] THEN probing \ {k}
                ELSE probing

HCanRequest(k, s) == CanRequest(k, s) /\ Ledger(k) /\ UNCHANGED streak

HRecordSuccess(k) ==
  /\ RecordSuccess(k)
  /\ Ledger(k)
  /\ streak' = [streak EXCEPT ![serving[k]] = 0]

HRecordFailure(k) ==
  /\ RecordFailure(k)
  /\ Ledger(k)
  /\ streak' = [streak EXCEPT ![serving[k]] = Counted(@)]

HFailOver(k, t) ==
  /\ FailOver(k, t)
  /\ Ledger(k)
  /\ streak' = [streak EXCEPT ![serving[k]] = Counted(@)]

HEndUncounted(k) == EndUncounted(k) /\ Ledger(k) /\ UNCHANGED streak

HTick == Tick /\ UNCHANGED <<holder, leaked, probing, streak>>

HNext ==
  \/ \E k \in Calls :
       \/ \E s \in Services : HCanRequest(k, s) \/ HFailOver(k, s)
       \/ HRecordSuccess(k)
       \/ HRecordFailure(k)
       \/ HEndUncounted(k)
  \/ HTick

\* Only the clock is fair: requests need not arrive, and nothing in the breaker
\* waits for them.
HSpec == HInit /\ [][HNext]_hvars /\ WF_hvars(HTick)

-----------------------------------------------------------------------------

ProbesInFlight(s) == {k \in probing : serving[k] = s}

\* The reserved slots are accounted for one by one: each belongs to a probe of
\* this half-open period that is still in flight on the service, or to one that
\* ended without a verdict.  Nothing else can make a HALF_OPEN circuit reject.
\* circuitBreaker.service.ts:17, 99-107, 116-131.
SlotAccounting ==
  \A s \in Services :
    /\ circuit[s].activeProbes = Cardinality(holder[s]) + leaked[s]
    /\ holder[s] \subseteq ProbesInFlight(s)

\* A closed circuit has counted exactly the failures recorded in a row since
\* the last success: it neither trips early, on failures a success separates,
\* nor forgets any, although outcomes arrive in any order and while the
\* circuit was open some were ignored.  circuitBreaker.service.ts:13, 120, 133-140.
StreakCounted ==
  \A s \in Services :
    /\ circuit[s].state = "CLOSED" => circuit[s].failureCount = streak[s]
    /\ circuit[s].failureCount <= streak[s]

-----------------------------------------------------------------------------
(* What the documents say and the code does not keep.                       *)

\* "Callers MUST eventually pair an allowed request with exactly one
\* recordSuccess()/recordFailure() so admitted probe slots are released"
\* (circuitBreaker.service.ts:79-81): with no call in flight on a service, none
\* of its probe slots is taken.
ProbeSlotsReleased ==
  \A s \in Services :
    (\A k \in Calls : serving[k] # s) => circuit[s].activeProbes = 0

=============================================================================
