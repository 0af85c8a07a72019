---------------------------- MODULE CircuitBreaker ----------------------------
(***************************************************************************)
(* The per-service circuit breaker together with the calls it admits.      *)
(*                                                                         *)
(* A call is one provider execution of executeWithFailover: canRequest()   *)
(* before it, the proxy's retry loop (an await, during which every other   *)
(* call may run), then the recording of its final outcome.  An outcome     *)
(* that is neither a success nor a circuit failure (HTTP 4xx, 500 and the  *)
(* other non-gateway 5xx, a malformed body) records nothing.               *)
(***************************************************************************)
EXTENDS CircuitOps

CONSTANTS
  Services,     \* providers, one circuit each
  Calls,        \* calls that may be in flight together
  NoService     \* a call that runs nowhere

ASSUME CallAssumption == NoService \notin Services

VARIABLES
  circuit,      \* CircuitBreaker.circuits: the runtime of every service
  serving       \* the service a call is being executed on, or NoService

vars == <<circuit, serving>>

\* Every service has a circuit and every call runs on one service or nowhere.
\* circuitBreaker.service.ts:11-19, 66.
TypeOK ==
  /\ circuit \in [Services -> Circuit]
  /\ serving \in [Calls -> Services \cup {NoService}]

Init ==
  /\ circuit = [s \in Services |-> NewCircuit]
  /\ serving = [k \in Calls |-> NoService]

-----------------------------------------------------------------------------

\* A call asks for admission to s; a rejected call stays out.
CanRequest(k, s) ==
  /\ serving[k] = NoService
  /\ circuit' = [circuit EXCEPT ![s] = AfterCanRequest(@)]
  /\ serving' = IF Admits(circuit[s]) THEN [serving EXCEPT ![k] = s] ELSE serving

\* The call's final outcome is a success.
RecordSuccess(k) ==
  /\ serving[k] \in Services
  /\ circuit' = [circuit EXCEPT ![serving[k]] = AfterSuccess(@)]
  /\ serving' = [serving EXCEPT ![k] = NoService]

\* The call's final outcome is a timeout, unreachable, 502, 503 or 504, or the
\* executor threw.
RecordFailure(k) ==
  /\ serving[k] \in Services
  /\ circuit' = [circuit EXCEPT ![serving[k]] = AfterFailure(@)]
  /\ serving' = [serving EXCEPT ![k] = NoService]

\* The same, and in the same turn of the event loop the request moves on to
\* the fallback t of its group and asks for admission there.
FailOver(k, t) ==
  /\ serving[k] \in Services \ {t}
  /\ circuit' = [circuit EXCEPT ![serving[k]] = AfterFailure(@),
                                ![t] = AfterCanRequest(@)]
  /\ serving' = [serving EXCEPT ![k] = IF Admits(circuit[t]) THEN t ELSE NoService]

\* The call's final outcome is one the breaker does not hear of.
EndUncounted(k) ==
  /\ serving[k] \in Services
  /\ serving' = [serving EXCEPT ![k] = NoService]
  /\ UNCHANGED circuit

\* The clock moves: every circuit's openedAtMs is one tick further in the past.
Tick ==
  /\ circuit' = [s \in Services |-> Aged(circuit[s])]
  /\ UNCHANGED serving

Next ==
  \/ \E k \in Calls :
       \/ \E s \in Services : CanRequest(k, s) \/ FailOver(k, s)
       \/ RecordSuccess(k)
       \/ RecordFailure(k)
       \/ EndUncounted(k)
  \/ Tick

Spec == Init /\ [][Next]_vars

-----------------------------------------------------------------------------
(* What the breaker promises by itself.                                     *)

\* The fields of a circuit agree with its state, whatever the order in which
\* outcomes of old and new calls arrive: no probe slot is held outside
\* HALF_OPEN and never more than halfOpenMaxRequests, openedAtMs is null
\* exactly while CLOSED, and a CLOSED circuit is below its threshold (a trip
\* is never missed).  circuitBreaker.service.ts:11-19, 133-140, 183-192.
CircuitConsistent == \A s \in Services : Consistent(circuit[s])

\* An OPEN circuit leaves OPEN only towards HALF_OPEN and only when its
\* cool-off is over, and nothing that happens meanwhile (a straggler's outcome,
\* a rejected request) sets the cool-off back.
\* circuitBreaker.service.ts:86-97, 133-135.
CoolOffRespected ==
  [][\A s \in Services :
       circuit[s].state = "OPEN" =>
         \/ /\ circuit'[s].state = "OPEN"
            /\ circuit'[s].openAge >= circuit[s].openAge
         \/ /\ circuit'[s].state = "HALF_OPEN"
            /\ circuit[s].openAge = OpenDuration]_vars

\* Every trip is answered: an OPEN circuit comes to a state in which the next
\* request is admitted, however many requests it rejects in the meantime.
CoolOffEnds ==
  \A s \in Services : circuit[s].state = "OPEN" ~> Admits(circuit[s])

=============================================================================
