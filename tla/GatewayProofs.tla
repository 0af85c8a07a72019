----------------------------- MODULE GatewayProofs -----------------------------
(***************************************************************************)
(* Theorems about Gateway for every set of services, groups and slots and  *)
(* every retry, failover and breaker configuration: type correctness, the  *)
(* soundness of every circuit, that the gateway implements the breaker's   *)
(* specification, one provider execution being one call, and what the      *)
(* trail, the reason, the answer and the events of a request tell.         *)
(* The last parts are about GatewayMetrics: the collector's totals account *)
(* for every request, and its readings are those of the newest answers.    *)
(***************************************************************************)
EXTENDS GatewayMetrics, ArraysProofs

\* What the gateway has to know of a circuit: its type, and that probes are
\* counted in a half-open circuit only.
Sound(c) == c \in Circuit /\ (c.state # "HALF_OPEN" => c.activeProbes = 0)

\* A request inside executeWithFailover.
Running(q) ==
  /\ q \in Request
  /\ q.group \in Groups
  /\ q.selected \in 0..Len(q.group)

\* A request suspended on a provider of its group.
Placed(q) ==
  /\ Running(q)
  /\ q.at \in 1..Len(q.group)
  /\ q.phase = "backoff" => q.attempt < MaxAttempts

IInv ==
  /\ circuit \in [Services -> Circuit]
  /\ \A s \in Services : Sound(circuit[s])
  /\ healthy \in [Services -> BOOLEAN]
  /\ req \in [Requests -> Request]
  /\ \A r \in Requests : Active(req[r]) => Placed(req[r])

-----------------------------------------------------------------------------
(* The helpers that build request records.                                  *)

\* The providers of a group are services.
LEMMA ProviderIsService ==
  ASSUME NEW q, q.group \in Groups, NEW i \in 1..Len(q.group)
  PROVE  Provider(q, i) \in Services
  BY GatewayAssumption DEF Provider

\* A new circuit is sound.
LEMMA NewIsSound == Sound(NewCircuit)
  BY CircuitAssumption DEF Sound, Circuit, NewCircuit

\* Asking a circuit and reporting to it keep it sound, and so does the clock.
LEMMA OperationsKeepSound ==
  ASSUME NEW c, Sound(c)
  PROVE  /\ Sound(AfterCanRequest(c)) /\ Sound(AfterSuccess(c))
         /\ Sound(AfterFailure(c)) /\ Sound(Aged(c))
<1>1. Sound(AfterCanRequest(c))
  BY CircuitAssumption
  DEF Sound, Circuit, AfterCanRequest, HasFreeProbe, Woken, CoolOffElapsed, Transition
<1>2. Sound(AfterSuccess(c))
  BY CircuitAssumption, NewIsSound
  DEF Sound, Circuit, AfterSuccess, Transition, NewCircuit, Released
<1>3. Counted(c.failureCount) \in 0..CountBound /\ 0 \in 0..OpenDuration
  BY CircuitAssumption DEF Sound, Circuit, Counted
<1>4. Sound(AfterFailure(c))
  BY <1>3, CircuitAssumption DEF Sound, Circuit, AfterFailure, Transition, Released
<1>5. Sound(Aged(c))
  BY CircuitAssumption DEF Sound, Circuit, Aged
<1> QED
  BY <1>1, <1>2, <1>4, <1>5

\* A circuit that does not admit is the same afterwards: one that wakes has a
\* probe free for whoever wakes it.
LEMMA RejectionKeeps ==
  ASSUME NEW c, Sound(c), ~Admits(c)
  PROVE  AfterCanRequest(c) = c
<1>1. ~CoolOffElapsed(c)
  BY CircuitAssumption DEF Sound, Circuit, Admits, HasFreeProbe, Woken, Transition, CoolOffElapsed
<1> QED
  BY <1>1 DEF Admits, AfterCanRequest, Woken, HasFreeProbe

\* Recording an event changes nothing but the log.
LEMMA EmitKeeps ==
  ASSUME NEW q, Running(q), NEW i \in 1..Len(q.group), NEW type \in EventTypes
  PROVE  /\ Running(Emit(q, type, i))
         /\ \A f \in {"group", "phase", "at", "attempt", "used", "reason",
                      "selected", "outcome", "trail", "response"} :
              Emit(q, type, i)[f] = q[f]
<1>1. q \in Request
  BY DEF Running
<1>2. <<type, Provider(q, i)>> \in EventTypes \X Services
  BY ProviderIsService DEF Running
<1>3. q.log \in Seq(EventTypes \X Services)
  BY <1>1 DEF Request
<1>4. Append(q.log, <<type, Provider(q, i)>>) \in Seq(EventTypes \X Services)
  BY <1>2, <1>3, AppendProperties
<1>5. Emit(q, type, i) \in Request
  BY <1>1, <1>4 DEF Emit, Request
<1>6. \A f \in {"group", "phase", "at", "attempt", "used", "reason",
                "selected", "outcome", "trail", "response"} :
        Emit(q, type, i)[f] = q[f]
  BY <1>1 DEF Emit, Request
<1> QED
  BY <1>5, <1>6 DEF Running

\* The trail grows by one entry, whether the provider was skipped or ran.
LEMMA SkippedKeeps ==
  ASSUME NEW q, Running(q), NEW i \in 1..Len(q.group),
         NEW why \in {"CIRCUIT_OPEN", "UNHEALTHY", "BUDGET_EXHAUSTED"}
  PROVE  Running(Skipped(q, i, why)) /\ Skipped(q, i, why).group = q.group
<1>1. q \in Request /\ i \in Nat
  BY DEF Running
<1>2. [at |-> i, ran |-> FALSE, result |-> why] \in TrailEntry
  BY <1>1 DEF TrailEntry
<1>3. q.trail \in Seq(TrailEntry)
  BY <1>1 DEF Request
<1>4. Append(q.trail, [at |-> i, ran |-> FALSE, result |-> why]) \in Seq(TrailEntry)
  BY <1>2, <1>3, AppendProperties
<1>5. Skipped(q, i, why) \in Request
  BY <1>1, <1>4 DEF Skipped, Request
<1>6. Skipped(q, i, why).group = q.group /\ Skipped(q, i, why).selected = q.selected
  BY <1>1 DEF Skipped, Request
<1> QED
  BY <1>5, <1>6 DEF Running

\* A provider that ran also becomes the selected one.
LEMMA RanKeeps ==
  ASSUME NEW q, Running(q), NEW i \in 1..Len(q.group), NEW o \in Outcomes
  PROVE  Running(Ran(q, i, o)) /\ Ran(q, i, o).group = q.group
<1>1. q \in Request /\ i \in Nat
  BY DEF Running
<1>2. [at |-> i, ran |-> TRUE, result |-> o] \in TrailEntry
  BY <1>1 DEF TrailEntry
<1>3. q.trail \in Seq(TrailEntry)
  BY <1>1 DEF Request
<1>4. Append(q.trail, [at |-> i, ran |-> TRUE, result |-> o]) \in Seq(TrailEntry)
  BY <1>2, <1>3, AppendProperties
<1>5. Ran(q, i, o) \in Request
  BY <1>1, <1>4 DEF Ran, Request
<1>6. Ran(q, i, o).group = q.group /\ Ran(q, i, o).selected = i
  BY <1>1 DEF Ran, Request
<1>7. i \in 0..Len(q.group)
  OBVIOUS
<1> QED
  BY <1>5, <1>6, <1>7 DEF Running

\* Leaving a provider keeps the request inside the loop.
LEMMA LeftKeeps ==
  ASSUME NEW q, Running(q), NEW i \in 1..Len(q.group), NEW why \in Reasons
  PROVE  Running(Left(q, i, why)) /\ Left(q, i, why).group = q.group
<1> DEFINE noted == [q EXCEPT !.reason = IF q.reason = None THEN why ELSE q.reason,
                              !.used = q.used + 1]
<1>1. q \in Request
  BY DEF Running
<1>2. noted \in Request /\ noted.group = q.group /\ noted.selected = q.selected
  <2>1. q.used + 1 \in Nat
    BY <1>1 DEF Request
  <2>2. (IF q.reason = None THEN why ELSE q.reason) \in Reasons \cup {None}
    BY <1>1 DEF Request
  <2> QED
    BY <1>1, <2>1, <2>2 DEF Request
<1>3. Running(noted)
  BY <1>2 DEF Running
<1>4. Left(q, i, why) = IF i = 1 THEN Emit(noted, "FAILOVER_STARTED", 1) ELSE noted
  BY DEF Left
<1> HIDE DEF noted
<1>5. CASE i = 1
  <2>1. 1 \in 1..Len(noted.group) /\ "FAILOVER_STARTED" \in EventTypes
    BY <1>2, <1>5 DEF EventTypes
  <2>2. Running(Emit(noted, "FAILOVER_STARTED", 1))
        /\ Emit(noted, "FAILOVER_STARTED", 1).group = noted.group
    BY <1>3, <2>1, EmitKeeps
  <2> QED
    BY <1>2, <1>4, <1>5, <2>2
<1>6. CASE i # 1
  BY <1>2, <1>3, <1>4, <1>6
<1> QED
  BY <1>5, <1>6

\* A finished request is out of the loop.
LEMMA FinishedEnds ==
  ASSUME NEW q, Running(q)
  PROVE  Finished(q) \in Request /\ ~Active(Finished(q)) /\ Serving(Finished(q)) = NoService
<1> DEFINE told == IF q.selected > 1 THEN Emit(q, "FAILOVER_COMPLETED", 1) ELSE q
           answer == IF q.selected = 0 THEN "CIRCUIT_OPEN" ELSE ResponseTo(q.outcome)
           done == [told EXCEPT !.phase = "done", !.response = answer]
<1>1. 1 \in 1..Len(q.group)
  BY GatewayAssumption DEF Running
<1>2. /\ Running(told)
      /\ told.group = q.group /\ told.selected = q.selected /\ told.outcome = q.outcome
  <2>1. "FAILOVER_COMPLETED" \in EventTypes
    BY DEF EventTypes
  <2> QED
    BY <1>1, <2>1, EmitKeeps
<1>3. told \in Request
  BY <1>2 DEF Running
<1>4. answer \in Responses
  BY DEF Responses, ResponseTo
<1>5. Finished(q) = IF q.selected = 0 THEN Emit(done, "REQUEST_FAILED", 1)
                    ELSE IF q.outcome = "success" THEN Emit(done, "REQUEST_COMPLETED", q.selected)
                    ELSE Emit(done, "REQUEST_FAILED", q.selected)
  BY DEF Finished, Concluded
<1> HIDE DEF told, answer
<1>6. /\ done \in Request
      /\ done.group = told.group /\ done.selected = told.selected /\ done.phase = "done"
  BY <1>3, <1>4 DEF Request
<1>7. Running(done)
  BY <1>2, <1>6 DEF Running
<1> HIDE DEF done
<1>8. \A i \in 1..Len(q.group) : \A t \in {"REQUEST_FAILED", "REQUEST_COMPLETED"} :
        Emit(done, t, i) \in Request /\ Emit(done, t, i).phase = "done"
  <2> SUFFICES ASSUME NEW i \in 1..Len(q.group),
                      NEW t \in {"REQUEST_FAILED", "REQUEST_COMPLETED"}
               PROVE  Emit(done, t, i) \in Request /\ Emit(done, t, i).phase = "done"
    OBVIOUS
  <2>1. t \in EventTypes
    BY DEF EventTypes
  <2>2. i \in 1..Len(done.group)
    BY <1>2, <1>6
  <2> QED
    BY <1>6, <1>7, <2>1, <2>2, EmitKeeps DEF Running
<1>9. q.selected # 0 => q.selected \in 1..Len(q.group)
  BY DEF Running
<1>10. Finished(q) \in Request /\ Finished(q).phase = "done"
  BY <1>1, <1>5, <1>8, <1>9
<1> QED
  BY <1>10 DEF Active, Serving

\* Entering a provider.
LEMMA ExecutingPlaces ==
  ASSUME NEW q, Running(q), NEW i \in 1..Len(q.group)
  PROVE  /\ Placed(Executing(q, i))
         /\ Active(Executing(q, i))
         /\ Serving(Executing(q, i)) = Provider(q, i)
<1>1. q \in Request
  BY DEF Running
<1>2. Executing(q, i) \in Request
  <2>1. 1 \in 0..MaxAttempts /\ i \in Nat
    BY GatewayAssumption
  <2> QED
    BY <1>1, <2>1 DEF Executing, Request
<1>3. /\ Executing(q, i).group = q.group
      /\ Executing(q, i).selected = q.selected
      /\ Executing(q, i).at = i
      /\ Executing(q, i).phase = "attempting"
  BY <1>1 DEF Executing, Request
<1> QED
  BY <1>2, <1>3 DEF Running, Placed, Active, Serving, Provider

\* The loop's turn to a fallback ends on that fallback, exactly if every gate
\* lets the request through, or with the end of the request.
LEMMA OnwardEnds ==
  ASSUME NEW q, Running(q), NEW i \in Nat, i > 0
  PROVE  /\ Onward(q, i) \in Request
         /\ Active(Onward(q, i)) => Placed(Onward(q, i))
         /\ Serving(Onward(q, i)) =
              IF Asks(q, i) /\ Admits(circuit[Provider(q, i)])
              THEN Provider(q, i) ELSE NoService
<1>0. q.used \in Nat /\ MaxFailovers \in Nat /\ Len(q.group) \in Nat
  BY GatewayAssumption DEF Running, Request
<1>1. CASE i > Len(q.group)
  <2>1. Onward(q, i) = Finished(q) /\ ~Asks(q, i)
    BY <1>0, <1>1 DEF Onward, Asks
  <2> QED
    BY <2>1, FinishedEnds
<1>2. CASE i \in 1..Len(q.group)
  <2>1. \A why \in {"CIRCUIT_OPEN", "UNHEALTHY", "BUDGET_EXHAUSTED"} :
          /\ Finished(Skipped(q, i, why)) \in Request
          /\ ~Active(Finished(Skipped(q, i, why)))
          /\ Serving(Finished(Skipped(q, i, why))) = NoService
    BY <1>2, SkippedKeeps, FinishedEnds
  <2>2. ~(i > Len(q.group))
    BY <1>0, <1>2
  <2>3. CASE ~Asks(q, i)
    <3>1. Onward(q, i) = Finished(Skipped(q, i, "BUDGET_EXHAUSTED"))
          \/ Onward(q, i) = Finished(Skipped(q, i, "UNHEALTHY"))
      BY <2>2, <2>3 DEF Onward
    <3> QED
      BY <2>1, <2>3, <3>1
  <2>4. CASE Asks(q, i) /\ ~Admits(circuit[Provider(q, i)])
    <3>1. ~(q.used > MaxFailovers)
      BY <1>0, <2>4 DEF Asks
    <3>2. Onward(q, i) = Finished(Skipped(q, i, "CIRCUIT_OPEN"))
      BY <2>2, <2>4, <3>1 DEF Onward
    <3> QED
      BY <2>1, <2>4, <3>2
  <2>5. CASE Asks(q, i) /\ Admits(circuit[Provider(q, i)])
    <3>1. ~(q.used > MaxFailovers)
      BY <1>0, <2>5 DEF Asks
    <3>2. Onward(q, i) = Executing(q, i)
      BY <2>2, <2>5, <3>1 DEF Onward
    <3> QED
      BY <1>2, <2>5, <3>2, ExecutingPlaces DEF Placed, Running
  <2> QED
    BY <2>3, <2>4, <2>5
<1> QED
  BY <1>0, <1>1, <1>2

\* A request as it arrives.
LEMMA StartedIsPlaced ==
  ASSUME NEW g \in Groups
  PROVE  /\ Placed(Started(g)) /\ Active(Started(g))
         /\ Started(g).group = g
         /\ Serving(Started(g)) = g[1]
<1> DEFINE fresh == [group |-> g, phase |-> "attempting", at |-> 1, attempt |-> 1,
                     used |-> 0, reason |-> None, selected |-> 0, outcome |-> None,
                     trail |-> <<>>, log |-> <<>>, response |-> None]
<1>1. 1 \in 1..Len(g) /\ 0 \in 0..Len(g)
  BY GatewayAssumption
<1>2. fresh \in Request
  <2>1. <<>> \in Seq(TrailEntry) /\ <<>> \in Seq(EventTypes \X Services)
    OBVIOUS
  <2>2. 1 \in 0..MaxAttempts
    BY GatewayAssumption
  <2> QED
    BY <2>1, <2>2 DEF Request
<1>3. Running(fresh)
  BY <1>1, <1>2 DEF Running
<1>4. /\ fresh.group = g /\ fresh.phase = "attempting" /\ fresh.at = 1
  OBVIOUS
<1>5. Started(g) = Emit(fresh, "REQUEST_STARTED", 1)
  BY DEF Started
<1> HIDE DEF fresh
<1>6. "REQUEST_STARTED" \in EventTypes /\ 1 \in 1..Len(fresh.group)
  BY <1>1, <1>4 DEF EventTypes
<1>7. /\ Running(Started(g))
      /\ Started(g).group = g /\ Started(g).phase = "attempting" /\ Started(g).at = 1
  BY <1>3, <1>4, <1>5, <1>6, EmitKeeps
<1> QED
  BY <1>1, <1>7 DEF Placed, Active, Serving, Provider

\* What the event stream hears of an attempt leaves the request where it is.
LEMMA ObservedKeeps ==
  ASSUME NEW q, Placed(q), NEW o, NEW retried \in BOOLEAN
  PROVE  /\ Running(Observed(q, o, retried))
         /\ \A f \in {"group", "at", "attempt"} : Observed(q, o, retried)[f] = q[f]
<1> DEFINE told == IF retried THEN Emit(q, "RETRY_ATTEMPT", q.at) ELSE q
<1>1. Running(q) /\ q.at \in 1..Len(q.group)
  BY DEF Placed
<1>2. "RETRY_ATTEMPT" \in EventTypes /\ "UPSTREAM_TIMEOUT" \in EventTypes
  BY DEF EventTypes
<1>3. /\ Running(told)
      /\ told.group = q.group /\ told.at = q.at /\ told.attempt = q.attempt
  BY <1>1, <1>2, EmitKeeps
<1>4. Observed(q, o, retried) = IF o = "timeout" THEN Emit(told, "UPSTREAM_TIMEOUT", q.at) ELSE told
  BY DEF Observed
<1> HIDE DEF told
<1>5. /\ Running(Emit(told, "UPSTREAM_TIMEOUT", q.at))
      /\ Emit(told, "UPSTREAM_TIMEOUT", q.at).group = told.group
      /\ Emit(told, "UPSTREAM_TIMEOUT", q.at).at = told.at
      /\ Emit(told, "UPSTREAM_TIMEOUT", q.at).attempt = told.attempt
  BY <1>1, <1>2, <1>3, EmitKeeps
<1> QED
  BY <1>3, <1>4, <1>5

-----------------------------------------------------------------------------
(* The steps.                                                               *)

\* What the loop's turn to a provider does to the circuits.
LEMMA AskedIsSound ==
  ASSUME NEW circuits \in [Services -> Circuit],
         \A s \in Services : Sound(circuits[s]),
         NEW q, Running(q), NEW i \in Nat
  PROVE  /\ Asked(circuits, q, i) \in [Services -> Circuit]
         /\ \A s \in Services : Sound(Asked(circuits, q, i)[s])
<1>1. CASE Asks(q, i)
  <2>1. Provider(q, i) \in Services
    BY <1>1, ProviderIsService DEF Asks, Running
  <2>2. Sound(AfterCanRequest(circuits[Provider(q, i)]))
    BY <2>1, OperationsKeepSound
  <2>3. Asked(circuits, q, i) =
          [circuits EXCEPT ![Provider(q, i)] = AfterCanRequest(circuits[Provider(q, i)])]
    BY <1>1 DEF Asked
  <2>4. AfterCanRequest(circuits[Provider(q, i)]) \in Circuit
    BY <2>2 DEF Sound
  <2> QED
    BY <2>1, <2>2, <2>3, <2>4
<1>2. CASE ~Asks(q, i)
  BY <1>2 DEF Asked
<1> QED
  BY <1>1, <1>2

\* Recording a provider's outcome keeps the circuits sound.
LEMMA RecordedIsSound ==
  ASSUME circuit \in [Services -> Circuit],
         \A s \in Services : Sound(circuit[s]),
         NEW t \in Services, NEW o
  PROVE  /\ Recorded(t, o) \in [Services -> Circuit]
         /\ \A s \in Services : Sound(Recorded(t, o)[s])
<1>1. Sound(AfterFailure(circuit[t])) /\ Sound(AfterSuccess(circuit[t]))
  BY OperationsKeepSound
<1>2. AfterFailure(circuit[t]) \in Circuit /\ AfterSuccess(circuit[t]) \in Circuit
  BY <1>1 DEF Sound
<1>3. \/ Recorded(t, o) = [circuit EXCEPT ![t] = AfterFailure(circuit[t])]
      \/ Recorded(t, o) = [circuit EXCEPT ![t] = AfterSuccess(circuit[t])]
      \/ Recorded(t, o) = circuit
  BY DEF Recorded
<1> QED
  BY <1>1, <1>2, <1>3

\* The reason a failed over request notes is one of the reasons.
LEMMA ReasonIsReason ==
  ASSUME NEW o, FailoverEligible(o)
  PROVE  FailoverReason(o) \in Reasons
  BY DEF FailoverEligible, Transient, FailoverReason, Reasons

\* The initial state.
LEMMA InitEstablishesIInv == Init => IInv
<1> SUFFICES ASSUME Init PROVE IInv
  OBVIOUS
<1>1. Unused \in Request /\ ~Active(Unused)
  <2>1. <<>> \in Seq(TrailEntry) /\ <<>> \in Seq(EventTypes \X Services)
    OBVIOUS
  <2>2. 0 \in 0..MaxAttempts
    BY GatewayAssumption
  <2> QED
    BY <2>1, <2>2 DEF Unused, Request, Active
<1>2. NewCircuit \in Circuit
  BY NewIsSound DEF Sound
<1> QED
  BY <1>1, <1>2, NewIsSound DEF Init, IInv

\* A step of one request, which changes its record and the circuits only.
RequestStep(r, q) ==
  /\ req' = [req EXCEPT ![r] = q]
  /\ q \in Request
  /\ Active(q) => Placed(q)
  /\ circuit' \in [Services -> Circuit]
  /\ \A s \in Services : Sound(circuit'[s])
  /\ UNCHANGED healthy

\* Such a step keeps the invariant.
LEMMA RequestStepPreserves ==
  ASSUME IInv, NEW r \in Requests, NEW q, RequestStep(r, q)
  PROVE  IInv'
<1>1. \A x \in Requests : req'[x] = IF x = r THEN q ELSE req[x]
  BY DEF IInv, RequestStep
<1>2. req' \in [Requests -> Request]
  BY DEF IInv, RequestStep
<1>3. \A x \in Requests : Active(req'[x]) => Placed(req'[x])
  BY <1>1 DEF IInv, RequestStep
<1> QED
  BY <1>2, <1>3 DEF IInv, RequestStep

\* An arrival puts a new request on its primary.
LEMMA ArriveStep ==
  ASSUME IInv, NEW r \in Requests, NEW g \in Groups, Arrive(r, g)
  PROVE  RequestStep(r, Started(g))
<1>1. g[1] \in Services
  BY GatewayAssumption
<1>2. Sound(AfterCanRequest(circuit[g[1]]))
  BY <1>1, OperationsKeepSound DEF IInv
<1>3. AfterCanRequest(circuit[g[1]]) \in Circuit
  BY <1>2 DEF Sound
<1> QED
  BY <1>1, <1>2, <1>3, StartedIsPlaced DEF IInv, Arrive, RequestStep, Placed, Running

\* A rejected arrival, and the request record it continues with.
RejectedStart(g) == Left(Skipped(Started(g), 1, "CIRCUIT_OPEN"), 1, "CIRCUIT_OPEN")

\* Leaving a primary that rejected the request leaves a request in progress.
LEMMA RejectedStartRuns ==
  ASSUME NEW g \in Groups
  PROVE  Running(RejectedStart(g)) /\ RejectedStart(g).group = g
<1>1. Running(Started(g)) /\ Started(g).group = g /\ 1 \in 1..Len(g)
  BY StartedIsPlaced, GatewayAssumption DEF Placed
<1>2. /\ Running(Skipped(Started(g), 1, "CIRCUIT_OPEN"))
      /\ Skipped(Started(g), 1, "CIRCUIT_OPEN").group = g
  BY <1>1, SkippedKeeps
<1> QED
  BY <1>1, <1>2, LeftKeeps DEF RejectedStart, Reasons

\* A circuit that rejects is not changed by being asked.
LEMMA RejectionIsNoChange ==
  ASSUME IInv, NEW s \in Services, ~Admits(circuit[s])
  PROVE  [circuit EXCEPT ![s] = AfterCanRequest(circuit[s])] = circuit
  BY RejectionKeeps DEF IInv

\* A rejected arrival is what the loop's turn to the first fallback makes of it.
LEMMA ArriveRejectedStep ==
  ASSUME IInv, NEW r \in Requests, NEW g \in Groups, ArriveRejected(r, g)
  PROVE  /\ RequestStep(r, Onward(RejectedStart(g), 2))
         /\ circuit' = Asked(circuit, RejectedStart(g), 2)
<1>1. g[1] \in Services /\ ~Admits(circuit[g[1]])
  BY GatewayAssumption DEF ArriveRejected
<1>2. circuit' = Asked(circuit, RejectedStart(g), 2)
  BY <1>1, RejectionIsNoChange DEF ArriveRejected, RejectedStart
<1>3. /\ circuit' \in [Services -> Circuit]
      /\ \A s \in Services : Sound(circuit'[s])
  BY <1>2, RejectedStartRuns, AskedIsSound DEF IInv
<1>4. /\ Onward(RejectedStart(g), 2) \in Request
      /\ Active(Onward(RejectedStart(g), 2)) => Placed(Onward(RejectedStart(g), 2))
  BY RejectedStartRuns, OnwardEnds
<1> QED
  BY <1>2, <1>3, <1>4 DEF ArriveRejected, RejectedStart, RequestStep

\* A request that is retried stays on its provider.
LEMMA AttemptFailsStep ==
  ASSUME IInv, NEW r \in Requests, AttemptFails(r)
  PROVE  \E q : /\ RequestStep(r, q)
                /\ Serving(q) = Serving(req[r])
                /\ UNCHANGED circuit
<1>1. PICK o \in Outcomes, late \in BOOLEAN :
        /\ req[r].phase = "attempting"
        /\ WillRetry(req[r], o, late)
        /\ req' = [req EXCEPT ![r] = [Observed(req[r], o, TRUE) EXCEPT !.phase = "backoff"]]
        /\ UNCHANGED <<circuit, healthy>>
  BY DEF AttemptFails
<1> DEFINE seen == Observed(req[r], o, TRUE)
           q == [seen EXCEPT !.phase = "backoff"]
<1>2. Placed(req[r]) /\ Active(req[r])
  BY <1>1 DEF IInv, Active
<1>3. /\ Running(seen)
      /\ seen.group = req[r].group /\ seen.at = req[r].at /\ seen.attempt = req[r].attempt
  BY <1>2, ObservedKeeps
<1>4. req' = [req EXCEPT ![r] = q]
  BY <1>1
<1> HIDE DEF seen
<1>5. /\ q \in Request
      /\ q.phase = "backoff" /\ q.group = seen.group /\ q.at = seen.at
      /\ q.attempt = seen.attempt /\ q.selected = seen.selected
  BY <1>3 DEF Running, Request
<1>6. Placed(q) /\ Active(q)
  BY <1>1, <1>2, <1>3, <1>5 DEF Placed, Running, WillRetry, Active
<1>7. Serving(q) = Serving(req[r])
  BY <1>2, <1>3, <1>5, <1>6 DEF Serving, Provider
<1>8. RequestStep(r, q)
  BY <1>1, <1>4, <1>5, <1>6 DEF RequestStep, IInv
<1> QED
  BY <1>1, <1>7, <1>8

\* A retry stays on its provider and touches no circuit.
LEMMA BackoffOverStep ==
  ASSUME IInv, NEW r \in Requests, BackoffOver(r)
  PROVE  \E q : /\ RequestStep(r, q)
                /\ Serving(q) = Serving(req[r])
                /\ UNCHANGED circuit
<1> DEFINE q == [req[r] EXCEPT !.phase = "attempting", !.attempt = req[r].attempt + 1]
<1>1. Placed(req[r]) /\ Active(req[r]) /\ req[r].phase = "backoff" /\ req[r] \in Request
  BY DEF IInv, Active, BackoffOver
<1>2. req' = [req EXCEPT ![r] = q]
  BY <1>1 DEF BackoffOver, IInv
<1>3. req[r].attempt + 1 \in 0..MaxAttempts
  BY <1>1, GatewayAssumption DEF Placed, Request
<1>4. /\ q \in Request
      /\ q.phase = "attempting" /\ q.group = req[r].group /\ q.at = req[r].at
      /\ q.selected = req[r].selected
  BY <1>1, <1>3 DEF Request
<1> HIDE DEF q
<1>5. Placed(q) /\ Active(q)
  BY <1>1, <1>4 DEF Placed, Running, Active
<1>6. Serving(q) = Serving(req[r])
  BY <1>1, <1>4, <1>5 DEF Serving, Provider
<1>7. RequestStep(r, q) /\ UNCHANGED circuit
  BY <1>2, <1>4, <1>5 DEF RequestStep, IInv, BackoffOver
<1> QED
  BY <1>6, <1>7

\* A request under way on a provider: the service that is charged.
LEMMA UnderWay ==
  ASSUME IInv, NEW r \in Requests, Active(req[r])
  PROVE  /\ Placed(req[r])
         /\ Serving(req[r]) = Provider(req[r], req[r].at)
         /\ Serving(req[r]) \in Services
<1>1. Placed(req[r])
  BY DEF IInv
<1> QED
  BY <1>1, ProviderIsService DEF Serving, Placed, Running

\* A request that settles ends, and at most its own circuit hears of it.
LEMMA SettleStep ==
  ASSUME IInv, NEW r \in Requests, Settle(r)
  PROVE  \E q, o : /\ Active(req[r])
                   /\ RequestStep(r, q)
                   /\ Serving(q) = NoService
                   /\ ~CountsAsCircuitFailure(o)
                   /\ circuit' = Recorded(Serving(req[r]), o)
<1>1. PICK o \in Outcomes, late \in BOOLEAN :
        /\ req[r].phase = "attempting"
        /\ ~FailoverEligible(o)
        /\ circuit' = Recorded(Serving(req[r]), o)
        /\ req' = [req EXCEPT ![r] =
                     Finished(Ran(Observed(req[r], o, FALSE), req[r].at, o))]
        /\ UNCHANGED healthy
  BY DEF Settle
<1> DEFINE seen == Observed(req[r], o, FALSE)
           ran == Ran(seen, req[r].at, o)
<1>2. Active(req[r]) /\ Placed(req[r]) /\ Serving(req[r]) \in Services
  BY <1>1, UnderWay DEF Active
<1>3. Running(seen) /\ seen.group = req[r].group
  BY <1>2, ObservedKeeps
<1>4. Running(ran)
  BY <1>2, <1>3, RanKeeps DEF Placed
<1>5. Finished(ran) \in Request /\ ~Active(Finished(ran)) /\ Serving(Finished(ran)) = NoService
  BY <1>4, FinishedEnds
<1>6. /\ circuit' \in [Services -> Circuit]
      /\ \A s \in Services : Sound(circuit'[s])
  BY <1>1, <1>2, RecordedIsSound DEF IInv
<1>7. RequestStep(r, Finished(ran))
  BY <1>1, <1>5, <1>6 DEF RequestStep
<1>8. ~CountsAsCircuitFailure(o)
  BY <1>1 DEF FailoverEligible, CountsAsCircuitFailure
<1> QED
  BY <1>1, <1>2, <1>5, <1>7, <1>8

\* A request that fails over: its provider is charged with a failure, and the
\* next one is asked if the gates before its circuit let the request through.
LEMMA FailOverStep ==
  ASSUME IInv, NEW r \in Requests, FailOver(r)
  PROVE  \E q, i : /\ Active(req[r])
                   /\ Running(q) /\ q.group = req[r].group
                   /\ i = req[r].at + 1
                   /\ RequestStep(r, Onward(q, i))
                   /\ circuit' = Asked([circuit EXCEPT ![Serving(req[r])] =
                                          AfterFailure(circuit[Serving(req[r])])], q, i)
<1>1. PICK o \in Outcomes, late \in BOOLEAN :
        LET i == req[r].at
            q == Left(Ran(Observed(req[r], o, FALSE), i, o), i, FailoverReason(o))
        IN
        /\ req[r].phase = "attempting"
        /\ FailoverEligible(o)
        /\ circuit' = Asked(Recorded(Serving(req[r]), o), q, i + 1)
        /\ req' = [req EXCEPT ![r] = Onward(q, i + 1)]
        /\ UNCHANGED healthy
  BY DEF FailOver
<1> DEFINE i == req[r].at
           seen == Observed(req[r], o, FALSE)
           ran == Ran(seen, i, o)
           q == Left(ran, i, FailoverReason(o))
<1>2. Active(req[r]) /\ Placed(req[r]) /\ Serving(req[r]) \in Services
  BY <1>1, UnderWay DEF Active
<1>3. i \in 1..Len(req[r].group) /\ i + 1 \in Nat /\ i + 1 > 0
  BY <1>2 DEF Placed
<1>4. Running(seen) /\ seen.group = req[r].group
  BY <1>2, ObservedKeeps
<1>5. Running(ran) /\ ran.group = req[r].group
  BY <1>3, <1>4, RanKeeps
<1>6. Running(q) /\ q.group = req[r].group
  <2>1. FailoverReason(o) \in Reasons
    BY <1>1, ReasonIsReason
  <2> HIDE DEF ran
  <2>2. i \in 1..Len(ran.group)
    BY <1>3, <1>5
  <2> QED
    BY <1>5, <2>1, <2>2, LeftKeeps
<1>7. /\ req' = [req EXCEPT ![r] = Onward(q, i + 1)]
      /\ circuit' = Asked(Recorded(Serving(req[r]), o), q, i + 1)
      /\ UNCHANGED healthy
      /\ FailoverEligible(o)
  BY <1>1
<1> HIDE DEF q
<1>8. /\ Onward(q, i + 1) \in Request
      /\ Active(Onward(q, i + 1)) => Placed(Onward(q, i + 1))
  BY <1>3, <1>6, OnwardEnds
<1>9. /\ circuit' \in [Services -> Circuit]
      /\ \A s \in Services : Sound(circuit'[s])
  BY <1>2, <1>3, <1>6, <1>7, RecordedIsSound, AskedIsSound DEF IInv
<1>10. RequestStep(r, Onward(q, i + 1))
  BY <1>7, <1>8, <1>9 DEF RequestStep
<1>11. Recorded(Serving(req[r]), o) =
         [circuit EXCEPT ![Serving(req[r])] = AfterFailure(circuit[Serving(req[r])])]
  BY <1>7 DEF Recorded, FailoverEligible, CountsAsCircuitFailure
<1> QED
  BY <1>2, <1>6, <1>7, <1>10, <1>11

\* A crash ends the request and charges its provider with one failure.
LEMMA CrashStep ==
  ASSUME IInv, NEW r \in Requests, Crash(r)
  PROVE  \E q : /\ Active(req[r])
                /\ RequestStep(r, q)
                /\ Serving(q) = NoService
                /\ circuit' = [circuit EXCEPT ![Serving(req[r])] =
                                 AfterFailure(circuit[Serving(req[r])])]
<1> DEFINE q == [req[r] EXCEPT !.phase = "done", !.response = "INTERNAL_ERROR"]
<1>1. Active(req[r]) /\ Placed(req[r]) /\ Serving(req[r]) \in Services /\ req[r] \in Request
  BY UnderWay DEF IInv, Active, Crash
<1>2. req' = [req EXCEPT ![r] = q]
  BY <1>1 DEF Crash, IInv
<1>3. q \in Request /\ q.phase = "done"
  BY <1>1 DEF Request, Responses
<1>4. circuit' = [circuit EXCEPT ![Serving(req[r])] = AfterFailure(circuit[Serving(req[r])])]
  BY DEF Crash
<1>5. Sound(AfterFailure(circuit[Serving(req[r])]))
  BY <1>1, OperationsKeepSound DEF IInv
<1>6. /\ circuit' \in [Services -> Circuit]
      /\ \A s \in Services : Sound(circuit'[s])
  BY <1>1, <1>4, <1>5 DEF IInv, Sound
<1> HIDE DEF q
<1>7. ~Active(q) /\ Serving(q) = NoService
  BY <1>3 DEF Active, Serving
<1>8. RequestStep(r, q)
  BY <1>2, <1>3, <1>6, <1>7 DEF RequestStep, Crash
<1> QED
  BY <1>1, <1>4, <1>7, <1>8

\* Every step keeps the invariant.
LEMMA NextPreservesIInv == IInv /\ [Next]_gvars => IInv'
<1> SUFFICES ASSUME IInv, [Next]_gvars PROVE IInv'
  OBVIOUS
<1>1. ASSUME NEW r \in Requests, NEW g \in Groups, Arrive(r, g) PROVE IInv'
  BY <1>1, ArriveStep, RequestStepPreserves
<1>2. ASSUME NEW r \in Requests, NEW g \in Groups, ArriveRejected(r, g) PROVE IInv'
  BY <1>2, ArriveRejectedStep, RequestStepPreserves
<1>3. ASSUME NEW r \in Requests, AttemptFails(r) PROVE IInv'
  BY <1>3, AttemptFailsStep, RequestStepPreserves
<1>4. ASSUME NEW r \in Requests, BackoffOver(r) PROVE IInv'
  BY <1>4, BackoffOverStep, RequestStepPreserves
<1>5. ASSUME NEW r \in Requests, Settle(r) PROVE IInv'
  BY <1>5, SettleStep, RequestStepPreserves
<1>6. ASSUME NEW r \in Requests, FailOver(r) PROVE IInv'
  BY <1>6, FailOverStep, RequestStepPreserves
<1>7. ASSUME NEW r \in Requests, Crash(r) PROVE IInv'
  BY <1>7, CrashStep, RequestStepPreserves
<1>8. ASSUME NEW s \in Services, HealthChanges(s) PROVE IInv'
  BY <1>8 DEF HealthChanges, IInv, Placed, Running
<1>9. ASSUME Tick PROVE IInv'
  <2>1. \A s \in Services : Sound(Aged(circuit[s]))
    BY OperationsKeepSound DEF IInv
  <2>2. /\ circuit' \in [Services -> Circuit]
        /\ \A s \in Services : Sound(circuit'[s])
    BY <1>9, <2>1 DEF Tick, Sound
  <2> QED
    BY <1>9, <2>2 DEF Tick, IInv
<1>10. CASE UNCHANGED gvars
  BY <1>10 DEF gvars, IInv
<1> QED
  BY <1>1, <1>2, <1>3, <1>4, <1>5, <1>6, <1>7, <1>8, <1>9, <1>10 DEF Next, AttemptEnds

\* Type correctness of the gateway, for any groups, limits and interleaving.
THEOREM TypeCorrect == Spec => []TypeOK
<1>1. IInv => TypeOK
  BY DEF IInv, TypeOK, Placed, Running
<1> QED
  BY <1>1, InitEstablishesIInv, NextPreservesIInv, PTL DEF Spec

-----------------------------------------------------------------------------
(* The gateway implements the breaker.                                      *)

\* The instance's operators on one circuit are this module's.
LEMMA SameOperations ==
  ASSUME NEW c
  PROVE  /\ Breaker!NewCircuit = NewCircuit
         /\ Breaker!Admits(c) = Admits(c)
         /\ Breaker!AfterCanRequest(c) = AfterCanRequest(c)
         /\ Breaker!AfterSuccess(c) = AfterSuccess(c)
         /\ Breaker!AfterFailure(c) = AfterFailure(c)
         /\ Breaker!Aged(c) = Aged(c)
<1>1. Breaker!NewCircuit = NewCircuit
  BY DEF Breaker!NewCircuit, NewCircuit
<1>2. \A d, n : Breaker!Transition(d, n) = Transition(d, n)
  BY <1>1 DEF Breaker!Transition, Transition
<1>3. \A d : Breaker!CoolOffElapsed(d) = CoolOffElapsed(d)
  BY DEF Breaker!CoolOffElapsed, CoolOffElapsed
<1>4. \A d : Breaker!Woken(d) = Woken(d)
  BY <1>2, <1>3 DEF Breaker!Woken, Woken
<1>5. \A d : Breaker!HasFreeProbe(d) = HasFreeProbe(d)
  BY DEF Breaker!HasFreeProbe, HasFreeProbe
<1>6. \A n : Breaker!Counted(n) = Counted(n) /\ Breaker!Released(n) = Released(n)
  BY DEF Breaker!Counted, Counted, Breaker!Released, Released
<1>7. Breaker!Admits(c) = Admits(c)
  BY <1>4, <1>5 DEF Breaker!Admits, Admits
<1>8. Breaker!AfterCanRequest(c) = AfterCanRequest(c)
  BY <1>4, <1>5 DEF Breaker!AfterCanRequest, AfterCanRequest
<1>9. Breaker!AfterSuccess(c) = AfterSuccess(c)
  BY <1>2, <1>6 DEF Breaker!AfterSuccess, AfterSuccess
<1>10. Breaker!AfterFailure(c) = AfterFailure(c)
  BY <1>1 DEF Breaker!AfterFailure, AfterFailure, Breaker!Transition, Transition,
              Breaker!Counted, Counted, Breaker!Released, Released
<1>11. Breaker!Aged(c) = Aged(c)
  BY DEF Breaker!Aged, Aged
<1> QED
  BY <1>1, <1>7, <1>8, <1>9, <1>10, <1>11

\* The breaker's view of who is being executed where.
Abs == [r \in Requests |-> Serving(req[r])]

\* A step of one request moves that request alone.
LEMMA AbsStep ==
  ASSUME IInv, NEW r \in Requests, NEW q, RequestStep(r, q)
  PROVE  Abs' = [Abs EXCEPT ![r] = Serving(q)]
<1>1. \A x \in Requests : req'[x] = IF x = r THEN q ELSE req[x]
  BY DEF IInv, RequestStep
<1> QED
  BY <1>1 DEF Abs

\* A slot that is free is a call that is not under way.
LEMMA FreeSlot ==
  ASSUME NEW r \in Requests, ~Active(req[r])
  PROVE  Abs[r] = NoService
  BY DEF Abs, Serving

BreakerStep == Breaker!Next \/ UNCHANGED <<circuit, Abs>>

\* An admitted arrival is a CanRequest of the breaker.
LEMMA ArriveRefines ==
  ASSUME IInv, NEW r \in Requests, NEW g \in Groups, Arrive(r, g)
  PROVE  BreakerStep
<1>1. g[1] \in Services
  BY GatewayAssumption
<1>2. Abs' = [Abs EXCEPT ![r] = g[1]] /\ Abs[r] = NoService
  <2>1. Abs' = [Abs EXCEPT ![r] = Serving(Started(g))]
    BY ArriveStep, AbsStep
  <2>2. Abs[r] = NoService
    BY FreeSlot DEF Arrive
  <2> QED
    BY <2>1, <2>2, StartedIsPlaced
<1>3. /\ Admits(circuit[g[1]])
      /\ circuit' = [circuit EXCEPT ![g[1]] = AfterCanRequest(circuit[g[1]])]
  BY DEF Arrive
<1>4. Breaker!CanRequest(r, g[1])
  BY <1>2, <1>3, SameOperations DEF Breaker!CanRequest, Abs
<1> QED
  BY <1>1, <1>4 DEF BreakerStep, Breaker!Next

\* A rejected arrival is a CanRequest on the fallback, or nothing if a gate stops it.
LEMMA ArriveRejectedRefines ==
  ASSUME IInv, NEW r \in Requests, NEW g \in Groups, ArriveRejected(r, g)
  PROVE  BreakerStep
<1> DEFINE q == RejectedStart(g)
           s == Provider(q, 2)
<1>1. /\ RequestStep(r, Onward(q, 2))
      /\ circuit' = Asked(circuit, q, 2)
  BY ArriveRejectedStep
<1>2. /\ Running(q)
      /\ Serving(Onward(q, 2)) = IF Asks(q, 2) /\ Admits(circuit[s]) THEN s ELSE NoService
  BY RejectedStartRuns, OnwardEnds
<1>3. Abs' = [Abs EXCEPT ![r] = Serving(Onward(q, 2))] /\ Abs[r] = NoService
  BY <1>1, AbsStep, FreeSlot DEF ArriveRejected
<1> HIDE DEF q
<1>4. CASE Asks(q, 2)
  <2>1. s \in Services
    BY <1>2, <1>4, ProviderIsService DEF Asks, Running
  <2>2. circuit' = [circuit EXCEPT ![s] = AfterCanRequest(circuit[s])]
    BY <1>1, <1>4 DEF Asked
  <2>3. Abs' = IF Admits(circuit[s]) THEN [Abs EXCEPT ![r] = s] ELSE Abs
    BY <1>2, <1>3, <1>4 DEF Abs
  <2> HIDE DEF s
  <2>4. Breaker!CanRequest(r, s)
    BY <1>3, <2>2, <2>3, SameOperations DEF Breaker!CanRequest, Abs
  <2> QED
    BY <2>1, <2>4 DEF BreakerStep, Breaker!Next
<1>5. CASE ~Asks(q, 2)
  <2>1. UNCHANGED circuit
    BY <1>1, <1>5 DEF Asked
  <2>2. Abs' = Abs
    BY <1>2, <1>3, <1>5 DEF Abs
  <2> QED
    BY <2>1, <2>2 DEF BreakerStep
<1> QED
  BY <1>4, <1>5

\* Retries are invisible to the breaker.
LEMMA RetryRefines ==
  ASSUME IInv, NEW r \in Requests, AttemptFails(r) \/ BackoffOver(r)
  PROVE  BreakerStep
<1>1. PICK q : RequestStep(r, q) /\ Serving(q) = Serving(req[r]) /\ UNCHANGED circuit
  BY AttemptFailsStep, BackoffOverStep
<1>2. Abs' = [Abs EXCEPT ![r] = Serving(req[r])]
  BY <1>1, AbsStep
<1>3. Abs' = Abs
  BY <1>2 DEF Abs
<1> QED
  BY <1>1, <1>3 DEF BreakerStep

\* A settled request is one RecordSuccess or one EndUncounted.
LEMMA SettleRefines ==
  ASSUME IInv, NEW r \in Requests, Settle(r)
  PROVE  BreakerStep
<1>1. PICK q, o : /\ Active(req[r])
                  /\ RequestStep(r, q)
                  /\ Serving(q) = NoService
                  /\ ~CountsAsCircuitFailure(o)
                  /\ circuit' = Recorded(Serving(req[r]), o)
  BY SettleStep
<1>2. Abs' = [Abs EXCEPT ![r] = NoService]
  BY <1>1, AbsStep
<1>3. Abs[r] = Serving(req[r]) /\ Abs[r] \in Services
  BY <1>1, UnderWay DEF Abs
<1>4. CASE o = "success"
  <2>1. circuit' = [circuit EXCEPT ![Abs[r]] = AfterSuccess(circuit[Abs[r]])]
    BY <1>1, <1>3, <1>4 DEF Recorded
  <2>2. Breaker!RecordSuccess(r)
    BY <1>2, <1>3, <2>1, SameOperations DEF Breaker!RecordSuccess, Abs
  <2> QED
    BY <2>2 DEF BreakerStep, Breaker!Next
<1>5. CASE o # "success"
  <2>1. circuit' = circuit
    BY <1>1, <1>5 DEF Recorded
  <2>2. Breaker!EndUncounted(r)
    BY <1>2, <1>3, <2>1 DEF Breaker!EndUncounted, Abs
  <2> QED
    BY <2>2 DEF BreakerStep, Breaker!Next
<1> QED
  BY <1>4, <1>5

\* A crash is one RecordFailure.
LEMMA CrashRefines ==
  ASSUME IInv, NEW r \in Requests, Crash(r)
  PROVE  BreakerStep
<1>1. PICK q : /\ Active(req[r])
               /\ RequestStep(r, q)
               /\ Serving(q) = NoService
               /\ circuit' = [circuit EXCEPT ![Serving(req[r])] =
                                AfterFailure(circuit[Serving(req[r])])]
  BY CrashStep
<1>2. Abs' = [Abs EXCEPT ![r] = NoService]
  BY <1>1, AbsStep
<1>3. Abs[r] = Serving(req[r]) /\ Abs[r] \in Services
  BY <1>1, UnderWay DEF Abs
<1>4. Breaker!RecordFailure(r)
  BY <1>1, <1>2, <1>3, SameOperations DEF Breaker!RecordFailure, Abs
<1> QED
  BY <1>4 DEF BreakerStep, Breaker!Next

\* A failover is one RecordFailure or one FailOver of the breaker, as its gates decide.
LEMMA FailOverRefines ==
  ASSUME IInv, NEW r \in Requests, FailOver(r)
  PROVE  BreakerStep
<1>1. PICK q, i : /\ Active(req[r])
                  /\ Running(q) /\ q.group = req[r].group
                  /\ i = req[r].at + 1
                  /\ RequestStep(r, Onward(q, i))
                  /\ circuit' = Asked([circuit EXCEPT ![Serving(req[r])] =
                                         AfterFailure(circuit[Serving(req[r])])], q, i)
  BY FailOverStep
<1> DEFINE s == Serving(req[r])
           t == Provider(q, i)
<1>2. Abs[r] = s /\ s \in Services /\ s = Provider(req[r], req[r].at) /\ Placed(req[r])
  BY <1>1, UnderWay DEF Abs
<1>3. i \in Nat /\ i > 0
  BY <1>1, <1>2 DEF Placed
<1>4. Abs' = [Abs EXCEPT ![r] = IF Asks(q, i) /\ Admits(circuit[t]) THEN t ELSE NoService]
  BY <1>1, <1>3, AbsStep, OnwardEnds
<1>5. CASE Asks(q, i)
  <2>1. t \in Services
    BY <1>1, <1>5, ProviderIsService DEF Asks, Running
  <2>2. s # t
    <3>1. i \in 1..Len(q.group) /\ req[r].at \in 1..Len(q.group) /\ i # req[r].at
      BY <1>1, <1>2, <1>5 DEF Asks, Placed
    <3>2. s = q.group[req[r].at] /\ t = q.group[i] /\ q.group \in Groups
      BY <1>1, <1>2 DEF Provider, Running
    <3> QED
      BY <3>1, <3>2, GatewayAssumption
  <2>3. circuit' = [circuit EXCEPT ![s] = AfterFailure(circuit[s]),
                                   ![t] = AfterCanRequest(circuit[t])]
    BY <1>1, <1>2, <1>5, <2>1, <2>2 DEF Asked, IInv
  <2>4. Abs' = [Abs EXCEPT ![r] = IF Admits(circuit[t]) THEN t ELSE NoService]
    BY <1>4, <1>5
  <2> HIDE DEF s, t
  <2>5. Breaker!FailOver(r, t)
    BY <1>2, <2>2, <2>3, <2>4, SameOperations DEF Breaker!FailOver, Abs
  <2> QED
    BY <2>1, <2>5 DEF BreakerStep, Breaker!Next
<1>6. CASE ~Asks(q, i)
  <2>1. circuit' = [circuit EXCEPT ![Abs[r]] = AfterFailure(circuit[Abs[r]])]
    BY <1>1, <1>2, <1>6 DEF Asked
  <2>2. Abs' = [Abs EXCEPT ![r] = NoService]
    BY <1>4, <1>6
  <2> HIDE DEF s
  <2>3. Breaker!RecordFailure(r)
    BY <1>2, <2>1, <2>2, SameOperations DEF Breaker!RecordFailure, Abs
  <2> QED
    BY <2>3 DEF BreakerStep, Breaker!Next
<1> QED
  BY <1>5, <1>6

\* Every step of the gateway is a step of the breaker, or none.
LEMMA NextRefines == IInv /\ [Next]_gvars => [Breaker!Next]_(Breaker!vars)
<1> SUFFICES ASSUME IInv, [Next]_gvars PROVE BreakerStep
  BY DEF BreakerStep, Breaker!vars, Abs
<1>1. ASSUME NEW s \in Services, HealthChanges(s) PROVE BreakerStep
  BY <1>1 DEF HealthChanges, BreakerStep, Abs
<1>2. ASSUME Tick PROVE BreakerStep
  <2>1. Breaker!Tick
    BY <1>2, SameOperations DEF Tick, Breaker!Tick
  <2> QED
    BY <2>1 DEF BreakerStep, Breaker!Next
<1>3. CASE UNCHANGED gvars
  BY <1>3 DEF gvars, BreakerStep, Abs
<1> QED
  BY <1>1, <1>2, <1>3, ArriveRefines, ArriveRejectedRefines, RetryRefines,
     SettleRefines, CrashRefines, FailOverRefines
  DEF Next, AttemptEnds

\* The gateway implements the breaker's specification: each provider execution
\* is one call, admitted once and ended with at most one recorded outcome,
\* whatever the retries and failovers around it.
THEOREM GatewayImplementsBreaker == Spec => ImplementsBreaker
<1>1. Init => Breaker!Init
  BY SameOperations DEF Init, Breaker!Init, Serving, Active, Unused
<1> QED
  BY <1>1, InitEstablishesIInv, NextPreservesIInv, NextRefines, PTL
  DEF Spec, ImplementsBreaker, Breaker!Spec

-----------------------------------------------------------------------------
(* The story of one request: what its trail, its reason and its events say  *)
(* at each of its stages.                                                   *)

\* Why the primary was left, read off the trail.
PrimarysReason(q) ==
  IF q.trail[1].ran THEN FailoverReason(q.trail[1].result) ELSE "CIRCUIT_OPEN"

\* The trail goes forward, stops at the first fallback that was kept out, and
\* nothing beyond the budget ran.
Forward(q) ==
  \A j \in 1..Len(q.trail) :
    /\ q.trail[j].at = j
    /\ ~q.trail[j].ran /\ j > 1 => j = Len(q.trail)
    /\ q.trail[j].ran => j <= MaxFailovers + 1

\* The selected provider is the last that ran, and the outcome is its own.
ServedByLast(q) ==
  IF RanEntries(q) = {} THEN q.selected = 0
  ELSE /\ q.selected \in RanEntries(q)
       /\ \A j \in RanEntries(q) : j <= q.selected
       /\ q.outcome = q.trail[q.selected].result

\* The reason is noted exactly when the primary's departure was announced.
Announced(q) ==
  LET started == PositionsOf(q, {"FAILOVER_STARTED"}) IN
  /\ started = {} <=> q.reason = None
  /\ \A i, j \in started : i = j

\* Nothing was said yet about how the request ended.
Open(q) ==
  PositionsOf(q, {"FAILOVER_COMPLETED", "REQUEST_COMPLETED", "REQUEST_FAILED"}) = {}

\* A request inside the loop, told in full.
Trailed(q) ==
  /\ Running(q)
  /\ Forward(q)
  /\ ServedByLast(q)
  /\ q.reason # None => q.trail # <<>> /\ q.reason = PrimarysReason(q)
  /\ Announced(q)
  /\ Open(q)

\* Entry j of the trail is a provider the loop may leave behind.
LeftBehind(q, j) ==
  IF q.trail[j].ran THEN FailoverEligible(q.trail[j].result)
  ELSE j = 1 /\ q.trail[j].result = "CIRCUIT_OPEN"

\* The first n providers were left behind, and nothing more.
Behind(q, n) ==
  /\ Trailed(q)
  /\ Len(q.trail) = n
  /\ q.used = n
  /\ q.reason = None <=> n = 0
  /\ \A j \in 1..n : LeftBehind(q, j)

\* A provider the request is about to leave: the last of its trail.
Leaving(q, n) ==
  /\ Trailed(q)
  /\ n \in 1..Len(q.group)
  /\ Len(q.trail) = n
  /\ q.used = n - 1
  /\ q.reason = None <=> n = 1
  /\ \A j \in 1..n : LeftBehind(q, j)

\* No further provider, or one the gates kept out, or an outcome that settles.
Exhausted(q) ==
  LET last == q.trail[Len(q.trail)] IN
  \/ Len(q.trail) = Len(q.group)
  \/ ~last.ran
  \/ ~FailoverEligible(last.result)

\* An answered request: its trail, its answer and its events agree.
Told(q) ==
  LET started == PositionsOf(q, {"FAILOVER_STARTED"})
      completed == PositionsOf(q, {"FAILOVER_COMPLETED"})
  IN
  /\ Answered(q)
  /\ Forward(q)
  /\ ServedByLast(q)
  /\ q.reason # None => q.reason = PrimarysReason(q)
  /\ Announced(q)
  /\ PositionsOf(q, {"REQUEST_COMPLETED", "REQUEST_FAILED"}) = {Len(q.log)}
  /\ q.log[Len(q.log)][2] = Provider(q, IF q.selected = 0 THEN 1 ELSE q.selected)
  /\ completed # {} <=> q.selected > 1
  /\ \A i, j \in completed : i = j
  /\ \A i \in started, j \in completed : i < j
  /\ q.response = IF q.selected = 0 THEN "CIRCUIT_OPEN" ELSE ResponseTo(q.outcome)
  /\ Exhausted(q)

\* A request in progress has left the providers before its own behind; so has
\* one whose executor threw.
Underway(q) ==
  /\ Active(q) \/ (q.phase = "done" /\ q.response = "INTERNAL_ERROR")
  /\ q.at \in 1..(MaxFailovers + 1)
  /\ Behind(q, q.at - 1)

Story(q) == q = Unused \/ Underway(q) \/ Told(q)

\* The inductive invariant of the request properties.
StoryInv == \A r \in Requests : Story(req[r])

-----------------------------------------------------------------------------
(* Where an event lands in the log.                                         *)

\* Recording an event adds one position, the last, and moves no other event.
LEMMA EmitPositions ==
  ASSUME NEW q, Running(q), NEW i \in 1..Len(q.group), NEW type \in EventTypes
  PROVE  LET e == Emit(q, type, i) IN
         /\ Len(q.log) \in Nat
         /\ Len(e.log) = Len(q.log) + 1
         /\ e.log[Len(e.log)] = <<type, Provider(q, i)>>
         /\ \A types : PositionsOf(e, types) =
              PositionsOf(q, types) \cup (IF type \in types THEN {Len(e.log)} ELSE {})
<1> DEFINE e == Emit(q, type, i)
           entry == <<type, Provider(q, i)>>
<1>1. q.log \in Seq(EventTypes \X Services)
  BY DEF Running, Request
<1>2. entry \in EventTypes \X Services
  BY ProviderIsService DEF Running
<1>3. e.log = Append(q.log, entry)
  BY DEF Emit, Running, Request
<1> HIDE DEF e
<1>4. entry[1] = type
  OBVIOUS
<1> HIDE DEF entry
<1>5. /\ Len(e.log) = Len(q.log) + 1
      /\ \A k \in 1..Len(q.log) : e.log[k] = q.log[k]
      /\ e.log[Len(q.log) + 1] = entry
  BY <1>1, <1>2, <1>3, AppendProperties
<1>6. Len(q.log) \in Nat
  BY <1>1
<1>7. \A types : PositionsOf(e, types) =
        PositionsOf(q, types) \cup (IF type \in types THEN {Len(e.log)} ELSE {})
  <2> TAKE types
  <2>1. \A k : k \in 1..Len(e.log) <=> (k \in 1..Len(q.log) \/ k = Len(q.log) + 1)
    BY <1>5, <1>6
  <2> QED
    BY <1>4, <1>5, <1>6, <2>1 DEF PositionsOf
<1> QED
  BY <1>5, <1>6, <1>7 DEF e, entry

\* A position is one of the log.
LEMMA PositionsAreNumbers ==
  ASSUME NEW q, Running(q), NEW types, NEW k \in PositionsOf(q, types)
  PROVE  k \in Nat /\ k >= 1 /\ k <= Len(q.log) /\ Len(q.log) \in Nat
<1>1. q.log \in Seq(EventTypes \X Services)
  BY DEF Running, Request
<1> QED
  BY <1>1 DEF PositionsOf

\* The story does not depend on where the request is or how often it tried.
LEMMA SameStory ==
  ASSUME NEW q, NEW n, Behind(q, n), NEW p, Running(p),
         \A f \in {"group", "used", "reason", "selected", "outcome", "trail", "log"} :
           p[f] = q[f]
  PROVE  Behind(p, n)
<1>1. /\ p.group = q.group /\ p.used = q.used /\ p.reason = q.reason
      /\ p.selected = q.selected /\ p.outcome = q.outcome
      /\ p.trail = q.trail /\ p.log = q.log
  OBVIOUS
<1>2. RanEntries(p) = RanEntries(q) /\ PrimarysReason(p) = PrimarysReason(q)
  BY <1>1 DEF RanEntries, PrimarysReason
<1>3. \A types : PositionsOf(p, types) = PositionsOf(q, types)
  BY <1>1 DEF PositionsOf
<1>4. Forward(p) /\ ServedByLast(p) /\ Announced(p) /\ Open(p)
  BY <1>1, <1>2, <1>3 DEF Behind, Trailed, Forward, ServedByLast, Announced, Open
<1>5. \A j \in 1..n : LeftBehind(p, j)
  BY <1>1 DEF Behind, LeftBehind
<1> QED
  BY <1>1, <1>2, <1>4, <1>5 DEF Behind, Trailed

\* The events of an attempt are not part of the story.
LEMMA EmitBehind ==
  ASSUME NEW q, NEW n, Behind(q, n), NEW i \in 1..Len(q.group),
         NEW type \in {"REQUEST_STARTED", "RETRY_ATTEMPT", "UPSTREAM_TIMEOUT"}
  PROVE  Behind(Emit(q, type, i), n)
<1> DEFINE e == Emit(q, type, i)
<1>1. Running(q) /\ type \in EventTypes
  BY DEF Behind, Trailed, EventTypes
<1>2. /\ Running(e)
      /\ e.group = q.group /\ e.used = q.used /\ e.reason = q.reason
      /\ e.selected = q.selected /\ e.outcome = q.outcome /\ e.trail = q.trail
  BY <1>1, EmitKeeps
<1>3. \A types : type \notin types => PositionsOf(e, types) = PositionsOf(q, types)
  <2> SUFFICES ASSUME NEW types, type \notin types
               PROVE  PositionsOf(e, types) = PositionsOf(q, types)
    OBVIOUS
  <2>1. PositionsOf(e, types) =
          PositionsOf(q, types) \cup (IF type \in types THEN {Len(e.log)} ELSE {})
    BY <1>1, EmitPositions
  <2> QED
    BY <2>1
<1> HIDE DEF e
<1>4. RanEntries(e) = RanEntries(q) /\ PrimarysReason(e) = PrimarysReason(q)
  BY <1>2 DEF RanEntries, PrimarysReason
<1>5. Forward(e) /\ ServedByLast(e) /\ Announced(e) /\ Open(e)
  BY <1>2, <1>3, <1>4 DEF Behind, Trailed, Forward, ServedByLast, Announced, Open
<1>6. \A j \in 1..n : LeftBehind(e, j)
  BY <1>2 DEF Behind, LeftBehind
<1>7. Behind(e, n)
  BY <1>2, <1>4, <1>5, <1>6 DEF Behind, Trailed
<1> QED
  BY <1>7 DEF e

\* What the event stream hears of an attempt leaves the story where it was.
LEMMA ObservedBehind ==
  ASSUME NEW q, NEW n, Behind(q, n), q.at \in 1..Len(q.group),
         NEW o, NEW retried \in BOOLEAN
  PROVE  Behind(Observed(q, o, retried), n)
<1> DEFINE told == IF retried THEN Emit(q, "RETRY_ATTEMPT", q.at) ELSE q
<1>1. Running(q) /\ "RETRY_ATTEMPT" \in EventTypes
  BY DEF Behind, Trailed, EventTypes
<1>2. Behind(told, n) /\ told.group = q.group
  BY <1>1, EmitBehind, EmitKeeps
<1>3. Observed(q, o, retried) = IF o = "timeout" THEN Emit(told, "UPSTREAM_TIMEOUT", q.at) ELSE told
  BY DEF Observed
<1> HIDE DEF told
<1>4. Behind(Emit(told, "UPSTREAM_TIMEOUT", q.at), n)
  BY <1>2, EmitBehind
<1> QED
  BY <1>2, <1>3, <1>4

-----------------------------------------------------------------------------
(* What moving along the group does to the story.                           *)

\* The loop is over: the request inside it is about to be answered.
Closing(q) == Trailed(q) /\ q.trail # <<>> /\ Exhausted(q)

\* A provider that ran becomes the last of the trail, and the selected one.
LEMMA RanTrailed ==
  ASSUME NEW q, NEW n \in Nat, Behind(q, n), n + 1 \in 1..Len(q.group),
         n <= MaxFailovers, NEW o \in Outcomes
  PROVE  LET p == Ran(q, n + 1, o) IN
         /\ Trailed(p)
         /\ p.group = q.group /\ p.used = n /\ p.reason = q.reason
         /\ Len(p.trail) = n + 1
         /\ p.trail[n + 1] = [at |-> n + 1, ran |-> TRUE, result |-> o]
         /\ \A j \in 1..n : LeftBehind(p, j)
<1> DEFINE p == Ran(q, n + 1, o)
           entry == [at |-> n + 1, ran |-> TRUE, result |-> o]
<1>1. Running(q) /\ q \in Request /\ Len(q.trail) = n
  BY DEF Behind, Trailed, Running
<1>2. Running(p) /\ p.group = q.group
  BY <1>1, RanKeeps
<1>3. /\ p.trail = Append(q.trail, entry) /\ p.outcome = o /\ p.selected = n + 1
      /\ p.used = q.used /\ p.reason = q.reason /\ p.log = q.log
  BY <1>1 DEF Ran, Request
<1>4. q.trail \in Seq(TrailEntry) /\ entry \in TrailEntry
  BY <1>1 DEF Request, TrailEntry
<1>5. entry.at = n + 1 /\ entry.ran /\ entry.result = o
  OBVIOUS
<1> HIDE DEF p, entry
<1>6. /\ Len(p.trail) = n + 1
      /\ \A j \in 1..n : p.trail[j] = q.trail[j]
      /\ p.trail[n + 1] = entry
  BY <1>1, <1>3, <1>4, AppendProperties
<1>7. \A j : j \in 1..(n + 1) <=> j \in 1..n \/ j = n + 1
  OBVIOUS
<1>8. \A j \in 1..n : LeftBehind(q, j) /\ LeftBehind(p, j)
  BY <1>6 DEF Behind, LeftBehind
<1>9. Forward(p)
  <2>1. \A j \in 1..n : q.trail[j].at = j /\ (q.trail[j].ran => j <= MaxFailovers + 1)
    BY <1>1 DEF Behind, Trailed, Forward
  <2>2. \A j \in 1..n : ~q.trail[j].ran => j = 1
    BY <1>8 DEF LeftBehind
  <2>3. n + 1 <= MaxFailovers + 1
    BY GatewayAssumption
  <2> QED
    BY <1>5, <1>6, <1>7, <2>1, <2>2, <2>3 DEF Forward
<1>10. ServedByLast(p)
  <2>1. RanEntries(p) = RanEntries(q) \cup {n + 1}
    BY <1>1, <1>5, <1>6, <1>7 DEF RanEntries
  <2>2. \A j \in RanEntries(q) : j <= n + 1
    BY <1>1 DEF RanEntries
  <2> QED
    BY <1>3, <1>5, <1>6, <2>1, <2>2 DEF ServedByLast
<1>11. p.reason # None => p.trail # <<>> /\ p.reason = PrimarysReason(p)
  <2>1. SUFFICES ASSUME p.reason # None PROVE p.trail # <<>> /\ p.reason = PrimarysReason(p)
    OBVIOUS
  <2>2. n # 0 /\ q.reason = PrimarysReason(q)
    BY <1>3, <2>1 DEF Behind, Trailed
  <2>3. p.trail[1] = q.trail[1]
    BY <1>6, <2>2
  <2>4. p.trail # <<>>
    BY <1>6
  <2> QED
    BY <1>3, <2>2, <2>3, <2>4 DEF PrimarysReason
<1>12. Announced(p) /\ Open(p)
  BY <1>3 DEF Behind, Trailed, Announced, Open, PositionsOf
<1>13. Trailed(p)
  BY <1>2, <1>9, <1>10, <1>11, <1>12 DEF Trailed
<1> QED
  BY <1>2, <1>3, <1>6, <1>8, <1>13 DEF Behind, p, entry

\* A provider that the gates kept out becomes the last of the trail, no more.
LEMMA SkippedTrailed ==
  ASSUME NEW q, NEW n \in Nat, Behind(q, n), n + 1 \in 1..Len(q.group),
         NEW why \in {"CIRCUIT_OPEN", "UNHEALTHY", "BUDGET_EXHAUSTED"}
  PROVE  LET p == Skipped(q, n + 1, why) IN
         /\ Trailed(p)
         /\ p.group = q.group /\ p.used = n /\ p.reason = q.reason
         /\ Len(p.trail) = n + 1
         /\ p.trail[n + 1] = [at |-> n + 1, ran |-> FALSE, result |-> why]
<1> DEFINE p == Skipped(q, n + 1, why)
           entry == [at |-> n + 1, ran |-> FALSE, result |-> why]
<1>1. Running(q) /\ q \in Request /\ Len(q.trail) = n
  BY DEF Behind, Trailed, Running
<1>2. Running(p) /\ p.group = q.group
  BY <1>1, SkippedKeeps
<1>3. /\ p.trail = Append(q.trail, entry)
      /\ p.outcome = q.outcome /\ p.selected = q.selected
      /\ p.used = q.used /\ p.reason = q.reason /\ p.log = q.log
  BY <1>1 DEF Skipped, Request
<1>4. q.trail \in Seq(TrailEntry) /\ entry \in TrailEntry
  BY <1>1 DEF Request, TrailEntry
<1>5. entry.at = n + 1 /\ ~entry.ran
  OBVIOUS
<1> HIDE DEF p, entry
<1>6. /\ Len(p.trail) = n + 1
      /\ \A j \in 1..n : p.trail[j] = q.trail[j]
      /\ p.trail[n + 1] = entry
  BY <1>1, <1>3, <1>4, AppendProperties
<1>7. \A j : j \in 1..(n + 1) <=> j \in 1..n \/ j = n + 1
  OBVIOUS
<1>8. Forward(p)
  <2>1. \A j \in 1..n : q.trail[j].at = j /\ (q.trail[j].ran => j <= MaxFailovers + 1)
    BY <1>1 DEF Behind, Trailed, Forward
  <2>2. \A j \in 1..n : ~q.trail[j].ran => j = 1
    BY DEF Behind, LeftBehind
  <2> QED
    BY <1>5, <1>6, <1>7, <2>1, <2>2 DEF Forward
<1>9. ServedByLast(p)
  <2>1. RanEntries(p) = RanEntries(q)
    BY <1>1, <1>5, <1>6, <1>7 DEF RanEntries
  <2>2. \A j \in RanEntries(q) : p.trail[j] = q.trail[j]
    BY <1>1, <1>6 DEF RanEntries
  <2>3. ServedByLast(q)
    BY DEF Behind, Trailed
  <2> QED
    BY <1>3, <2>1, <2>2, <2>3 DEF ServedByLast
<1>10. p.reason # None => p.trail # <<>> /\ p.reason = PrimarysReason(p)
  <2>1. SUFFICES ASSUME p.reason # None PROVE p.trail # <<>> /\ p.reason = PrimarysReason(p)
    OBVIOUS
  <2>2. n # 0 /\ q.reason = PrimarysReason(q)
    BY <1>3, <2>1 DEF Behind, Trailed
  <2>3. p.trail[1] = q.trail[1]
    BY <1>6, <2>2
  <2>4. p.trail # <<>>
    BY <1>6
  <2> QED
    BY <1>3, <2>2, <2>3, <2>4 DEF PrimarysReason
<1>11. Announced(p) /\ Open(p)
  BY <1>3 DEF Behind, Trailed, Announced, Open, PositionsOf
<1>12. Trailed(p)
  BY <1>2, <1>8, <1>9, <1>10, <1>11 DEF Trailed
<1> QED
  BY <1>2, <1>3, <1>6, <1>12 DEF Behind, p, entry

\* A provider that ran to a failure others may survive is about to be left; any
\* other outcome closes the request.
LEMMA RanOutcome ==
  ASSUME NEW q, NEW n \in Nat, Behind(q, n), n + 1 \in 1..Len(q.group),
         n <= MaxFailovers, NEW o \in Outcomes
  PROVE  IF FailoverEligible(o)
         THEN /\ Leaving(Ran(q, n + 1, o), n + 1)
              /\ n = 0 => PrimarysReason(Ran(q, n + 1, o)) = FailoverReason(o)
         ELSE Closing(Ran(q, n + 1, o))
<1> DEFINE p == Ran(q, n + 1, o)
<1>1. /\ Trailed(p)
      /\ p.group = q.group /\ p.used = n /\ p.reason = q.reason
      /\ Len(p.trail) = n + 1
      /\ p.trail[n + 1] = [at |-> n + 1, ran |-> TRUE, result |-> o]
      /\ \A j \in 1..n : LeftBehind(p, j)
  BY RanTrailed
<1> HIDE DEF p
<1>2. p.trail[n + 1].ran /\ p.trail[n + 1].result = o
  BY <1>1
<1>3. CASE FailoverEligible(o)
  <2>1. \A j \in 1..(n + 1) : LeftBehind(p, j)
    <3>1. LeftBehind(p, n + 1)
      BY <1>2, <1>3 DEF LeftBehind
    <3> QED
      BY <1>1, <3>1
  <2>2. q.reason = None <=> n + 1 = 1
    BY DEF Behind
  <2>3. Leaving(p, n + 1)
    BY <1>1, <2>1, <2>2 DEF Leaving
  <2> QED
    BY <1>2, <1>3, <2>3 DEF PrimarysReason, p
<1>4. CASE ~FailoverEligible(o)
  <2>1. p.trail # <<>>
    BY <1>1
  <2> QED
    BY <1>1, <1>2, <1>4, <2>1 DEF Closing, Exhausted, p
<1> QED
  BY <1>3, <1>4

\* A fallback that the gates kept out closes the request.
LEMMA SkippedCloses ==
  ASSUME NEW q, NEW n \in Nat, Behind(q, n), n + 1 \in 1..Len(q.group),
         NEW why \in {"CIRCUIT_OPEN", "UNHEALTHY", "BUDGET_EXHAUSTED"}
  PROVE  Closing(Skipped(q, n + 1, why))
<1> DEFINE p == Skipped(q, n + 1, why)
<1>1. /\ Trailed(p) /\ Len(p.trail) = n + 1
      /\ p.trail[n + 1] = [at |-> n + 1, ran |-> FALSE, result |-> why]
  BY SkippedTrailed
<1> HIDE DEF p
<1>2. ~p.trail[n + 1].ran /\ p.trail # <<>>
  BY <1>1
<1> QED
  BY <1>1, <1>2 DEF Closing, Exhausted, p

\* Leaving a provider notes the reason once, announces the primary's departure,
\* and charges the budget.
LEMMA LeftIsBehind ==
  ASSUME NEW q, NEW n \in Nat, Leaving(q, n), NEW why \in Reasons,
         n = 1 => why = PrimarysReason(q)
  PROVE  Behind(Left(q, n, why), n)
<1> DEFINE noted == [q EXCEPT !.reason = IF q.reason = None THEN why ELSE q.reason,
                              !.used = q.used + 1]
<1>1. Running(q) /\ q \in Request /\ n \in 1..Len(q.group) /\ 1 \in 1..Len(q.group)
  BY DEF Leaving, Trailed, Running
<1>2. Running(Left(q, n, why)) /\ Left(q, n, why).group = q.group
  BY <1>1, LeftKeeps
<1>3. Left(q, n, why) = IF n = 1 THEN Emit(noted, "FAILOVER_STARTED", 1) ELSE noted
  BY DEF Left
<1>4. /\ noted.group = q.group /\ noted.selected = q.selected /\ noted.outcome = q.outcome
      /\ noted.trail = q.trail /\ noted.log = q.log
      /\ noted.reason = (IF n = 1 THEN why ELSE q.reason)
      /\ noted.used = n
  BY <1>1 DEF Request, Leaving
<1>5. Running(noted)
  <2>1. noted \in Request
    <3>1. q.used + 1 \in Nat
      BY <1>1 DEF Request
    <3>2. (IF q.reason = None THEN why ELSE q.reason) \in Reasons \cup {None}
      BY <1>1 DEF Request
    <3> QED
      BY <1>1, <3>1, <3>2 DEF Request
  <2> QED
    BY <1>1, <1>4, <2>1 DEF Running
<1> HIDE DEF noted
<1> DEFINE p == Left(q, n, why)
<1>6. /\ p.group = q.group /\ p.selected = q.selected /\ p.outcome = q.outcome
      /\ p.trail = q.trail /\ p.used = n
      /\ p.reason = (IF n = 1 THEN why ELSE q.reason)
  <2>1. CASE n = 1
    <3>1. "FAILOVER_STARTED" \in EventTypes /\ 1 \in 1..Len(noted.group)
      BY <1>1, <1>4 DEF EventTypes
    <3> QED
      BY <1>3, <1>4, <1>5, <2>1, <3>1, EmitKeeps
  <2>2. CASE n # 1
    BY <1>3, <1>4, <2>2
  <2> QED
    BY <2>1, <2>2
<1>7. \A types : PositionsOf(noted, types) = PositionsOf(q, types)
  BY <1>4 DEF PositionsOf
<1>8. Announced(p) /\ Open(p)
  <2>1. CASE n = 1
    <3>1. "FAILOVER_STARTED" \in EventTypes /\ 1 \in 1..Len(noted.group)
      BY <1>1, <1>4 DEF EventTypes
    <3>2. p = Emit(noted, "FAILOVER_STARTED", 1)
      BY <1>3, <2>1
    <3> HIDE DEF p
    <3>3. \A types : PositionsOf(p, types) = PositionsOf(noted, types) \cup
            (IF "FAILOVER_STARTED" \in types THEN {Len(p.log)} ELSE {})
      BY <1>5, <3>1, <3>2, EmitPositions
    <3>4. PositionsOf(p, {"FAILOVER_STARTED"}) =
            PositionsOf(q, {"FAILOVER_STARTED"}) \cup {Len(p.log)}
      BY <1>7, <3>3
    <3>5. PositionsOf(p, {"FAILOVER_COMPLETED", "REQUEST_COMPLETED", "REQUEST_FAILED"}) = {}
      <4> DEFINE ends == {"FAILOVER_COMPLETED", "REQUEST_COMPLETED", "REQUEST_FAILED"}
      <4>1. PositionsOf(p, ends) = PositionsOf(q, ends) \cup
              (IF "FAILOVER_STARTED" \in ends THEN {Len(p.log)} ELSE {})
        BY <1>7, <3>3
      <4>2. "FAILOVER_STARTED" \notin ends
        OBVIOUS
      <4> QED
        BY <4>1, <4>2 DEF Leaving, Trailed, Open
    <3>6. PositionsOf(q, {"FAILOVER_STARTED"}) = {}
      BY <2>1 DEF Leaving, Trailed, Announced
    <3>7. p.reason # None
      BY <1>6, <2>1, NoneAssumption DEF p
    <3> QED
      BY <3>4, <3>5, <3>6, <3>7 DEF Announced, Open
  <2>2. CASE n # 1
    BY <1>3, <1>4, <1>7, <2>2 DEF Leaving, Trailed, Announced, Open
  <2> QED
    BY <2>1, <2>2
<1> HIDE DEF p
<1>9. RanEntries(p) = RanEntries(q) /\ PrimarysReason(p) = PrimarysReason(q)
  BY <1>6 DEF RanEntries, PrimarysReason
<1>10. Forward(p) /\ ServedByLast(p)
  BY <1>6, <1>9 DEF Leaving, Trailed, Forward, ServedByLast
<1>11. p.trail # <<>> /\ p.reason = PrimarysReason(p) /\ p.reason # None
  <2>1. CASE n = 1
    <3>1. q.trail # <<>>
      BY <1>1 DEF Leaving
    <3> QED
      BY <1>6, <1>9, <2>1, <3>1, NoneAssumption
  <2>2. CASE n # 1
    BY <1>6, <1>9, <2>2 DEF Leaving, Trailed
  <2> QED
    BY <2>1, <2>2
<1>12. \A j \in 1..n : LeftBehind(p, j)
  BY <1>6 DEF Leaving, LeftBehind
<1>13. Len(p.trail) = n /\ n # 0
  BY <1>1, <1>6 DEF Leaving
<1>14. Behind(p, n)
  BY <1>2, <1>6, <1>8, <1>10, <1>11, <1>12, <1>13 DEF Behind, Trailed, p
<1> QED
  BY <1>14 DEF p

\* The end of the loop: the answer is that of the last provider that ran, and
\* one terminal event on it follows everything else the request reported.
LEMMA FinishedTells ==
  ASSUME NEW q, Closing(q)
  PROVE  Told(Finished(q))
<1> DEFINE told == IF q.selected > 1 THEN Emit(q, "FAILOVER_COMPLETED", 1) ELSE q
           answer == IF q.selected = 0 THEN "CIRCUIT_OPEN" ELSE ResponseTo(q.outcome)
           done == [told EXCEPT !.phase = "done", !.response = answer]
           type == IF q.selected # 0 /\ q.outcome = "success"
                   THEN "REQUEST_COMPLETED" ELSE "REQUEST_FAILED"
           server == IF q.selected = 0 THEN 1 ELSE q.selected
           e == Emit(done, type, server)
           ends == {"REQUEST_COMPLETED", "REQUEST_FAILED"}
           started == {"FAILOVER_STARTED"}
           completed == {"FAILOVER_COMPLETED"}
<1>1. Trailed(q) /\ Running(q) /\ q \in Request /\ 1 \in 1..Len(q.group)
  BY GatewayAssumption DEF Closing, Trailed, Running
<1>2. server \in 1..Len(q.group)
  BY <1>1 DEF Running
<1>3. Finished(q) = e
  BY DEF Finished, Concluded
<1>4. type \in EventTypes /\ type \in ends /\ type \notin started /\ type \notin completed
  BY DEF EventTypes
<1>5. answer \in Responses /\ answer # "INTERNAL_ERROR"
  BY DEF Responses, ResponseTo
<1>6. "FAILOVER_COMPLETED" \in EventTypes
  BY DEF EventTypes
<1>7. /\ Running(told)
      /\ told.group = q.group /\ told.selected = q.selected /\ told.outcome = q.outcome
      /\ told.trail = q.trail /\ told.reason = q.reason
  BY <1>1, <1>6, EmitKeeps
<1>8. \A types : PositionsOf(told, types) = PositionsOf(q, types) \cup
        (IF q.selected > 1 /\ "FAILOVER_COMPLETED" \in types THEN {Len(told.log)} ELSE {})
  <2> TAKE types
  <2>1. CASE q.selected > 1
    <3>1. PositionsOf(told, types) = PositionsOf(q, types) \cup
            (IF "FAILOVER_COMPLETED" \in types THEN {Len(told.log)} ELSE {})
      BY <1>1, <1>6, <2>1, EmitPositions
    <3> QED
      BY <2>1, <3>1
  <2>2. CASE ~(q.selected > 1)
    BY <2>2
  <2> QED
    BY <2>1, <2>2
<1>9. Len(q.log) \in Nat /\ (q.selected > 1 => Len(told.log) = Len(q.log) + 1)
  BY <1>1, <1>6, EmitPositions
<1> HIDE DEF told, answer
<1>10. /\ done \in Request /\ done.phase = "done" /\ done.response = answer
       /\ done.group = q.group /\ done.selected = q.selected /\ done.outcome = q.outcome
       /\ done.trail = q.trail /\ done.reason = q.reason /\ done.log = told.log
  BY <1>5, <1>7 DEF Running, Request
<1>11. Running(done)
  BY <1>7, <1>10 DEF Running
<1> HIDE DEF done, type, server
<1>12. /\ e.phase = "done" /\ e.response = answer
       /\ e.group = q.group /\ e.selected = q.selected /\ e.outcome = q.outcome
       /\ e.trail = q.trail /\ e.reason = q.reason
  BY <1>2, <1>4, <1>10, <1>11, EmitKeeps
<1>13. /\ Len(e.log) = Len(told.log) + 1 /\ Len(told.log) \in Nat
       /\ e.log[Len(e.log)] = <<type, Provider(done, server)>>
       /\ \A types : PositionsOf(e, types) =
            PositionsOf(done, types) \cup (IF type \in types THEN {Len(e.log)} ELSE {})
  BY <1>2, <1>4, <1>10, <1>11, EmitPositions
<1>14. \A types : PositionsOf(done, types) = PositionsOf(told, types)
  BY <1>10 DEF PositionsOf
<1> HIDE DEF e
<1>15. PositionsOf(e, started) = PositionsOf(q, started)
  <2>1. PositionsOf(e, started) = PositionsOf(told, started)
    BY <1>4, <1>13, <1>14
  <2>2. "FAILOVER_COMPLETED" \notin started
    OBVIOUS
  <2> QED
    BY <1>8, <2>1, <2>2
<1>16. PositionsOf(q, completed) = {} /\ PositionsOf(q, ends) = {}
  BY <1>1 DEF Trailed, Open, PositionsOf
<1>17. PositionsOf(e, completed) = IF q.selected > 1 THEN {Len(told.log)} ELSE {}
  <2>1. PositionsOf(e, completed) = PositionsOf(told, completed)
    BY <1>4, <1>13, <1>14
  <2>2. "FAILOVER_COMPLETED" \in completed
    OBVIOUS
  <2> QED
    BY <1>8, <1>16, <2>1, <2>2
<1>18. PositionsOf(e, ends) = {Len(e.log)}
  <2>1. PositionsOf(e, ends) = PositionsOf(told, ends) \cup {Len(e.log)}
    BY <1>4, <1>13, <1>14
  <2>2. "FAILOVER_COMPLETED" \notin ends
    OBVIOUS
  <2> QED
    BY <1>8, <1>16, <2>1, <2>2
<1>19. e.log[Len(e.log)][2] = Provider(e, IF e.selected = 0 THEN 1 ELSE e.selected)
  <2>1. Provider(done, server) = Provider(e, server)
    BY <1>10, <1>12 DEF Provider
  <2> QED
    BY <1>12, <1>13, <2>1 DEF server
<1>20. /\ Forward(e) /\ ServedByLast(e) /\ Announced(e) /\ Exhausted(e)
       /\ e.reason # None => e.reason = PrimarysReason(e)
  <2>1. RanEntries(e) = RanEntries(q) /\ PrimarysReason(e) = PrimarysReason(q)
    BY <1>12 DEF RanEntries, PrimarysReason
  <2>2. Forward(q) /\ ServedByLast(q) /\ Announced(q) /\ Exhausted(q)
        /\ (q.reason # None => q.reason = PrimarysReason(q))
    BY <1>1 DEF Closing, Trailed
  <2>3. Forward(e) /\ ServedByLast(e)
    BY <1>12, <2>1, <2>2 DEF Forward, ServedByLast
  <2>4. Announced(e)
    BY <1>12, <1>15, <2>2 DEF Announced
  <2>5. Exhausted(e)
    BY <1>12, <2>2 DEF Exhausted
  <2> QED
    BY <1>12, <2>1, <2>2, <2>3, <2>4, <2>5
<1>21. \A i \in PositionsOf(e, started), j \in PositionsOf(e, completed) : i < j
  <2> SUFFICES ASSUME NEW i \in PositionsOf(e, started), NEW j \in PositionsOf(e, completed)
               PROVE  i < j
    OBVIOUS
  <2>1. i \in PositionsOf(q, started)
    BY <1>15
  <2>2. i \in Nat /\ i <= Len(q.log)
    BY <1>1, <2>1, PositionsAreNumbers
  <2>3. j = Len(q.log) + 1
    BY <1>9, <1>17
  <2> QED
    BY <1>9, <2>2, <2>3
<1>22. Answered(e)
  BY <1>5, <1>12 DEF Answered
<1>23. e.response = IF e.selected = 0 THEN "CIRCUIT_OPEN" ELSE ResponseTo(e.outcome)
  BY <1>12 DEF answer
<1>24. /\ PositionsOf(e, completed) # {} <=> e.selected > 1
       /\ \A i, j \in PositionsOf(e, completed) : i = j
  BY <1>12, <1>17
<1>25. Told(e)
  BY <1>18, <1>19, <1>20, <1>21, <1>22, <1>23, <1>24 DEF Told
<1> QED
  BY <1>3, <1>25

\* A request as it arrives has left nobody behind.
LEMMA StartedStory ==
  ASSUME NEW g \in Groups
  PROVE  Behind(Started(g), 0)
<1> DEFINE fresh == [group |-> g, phase |-> "attempting", at |-> 1, attempt |-> 1,
                     used |-> 0, reason |-> None, selected |-> 0, outcome |-> None,
                     trail |-> <<>>, log |-> <<>>, response |-> None]
<1>1. 1 \in 1..Len(g) /\ 0 \in 0..Len(g)
  BY GatewayAssumption
<1>2. fresh \in Request
  <2>1. <<>> \in Seq(TrailEntry) /\ <<>> \in Seq(EventTypes \X Services)
    OBVIOUS
  <2>2. 1 \in 0..MaxAttempts
    BY GatewayAssumption
  <2> QED
    BY <2>1, <2>2 DEF Request
<1>3. Started(g) = Emit(fresh, "REQUEST_STARTED", 1)
  BY DEF Started
<1>4. /\ fresh.group = g /\ fresh.used = 0 /\ fresh.reason = None /\ fresh.selected = 0
      /\ fresh.trail = <<>> /\ fresh.log = <<>>
  OBVIOUS
<1> HIDE DEF fresh
<1>5. Running(fresh)
  BY <1>1, <1>2, <1>4 DEF Running
<1>6. Len(fresh.trail) = 0 /\ Len(fresh.log) = 0
  BY <1>4
<1>7. RanEntries(fresh) = {} /\ \A types : PositionsOf(fresh, types) = {}
  BY <1>6 DEF RanEntries, PositionsOf
<1>8. Forward(fresh) /\ ServedByLast(fresh) /\ Announced(fresh) /\ Open(fresh)
  BY <1>4, <1>6, <1>7 DEF Forward, ServedByLast, Announced, Open
<1>9. Behind(fresh, 0)
  BY <1>4, <1>5, <1>6, <1>8 DEF Behind, Trailed
<1> QED
  BY <1>1, <1>3, <1>4, <1>9, EmitBehind

\* A request whose primary rejected it has left its primary behind.
LEMMA RejectedStory ==
  ASSUME NEW g \in Groups
  PROVE  Behind(RejectedStart(g), 1)
<1> DEFINE s == Started(g)
           p == Skipped(s, 1, "CIRCUIT_OPEN")
<1>1. Behind(s, 0) /\ s.group = g /\ 1 \in 1..Len(g)
  BY StartedStory, StartedIsPlaced, GatewayAssumption
<1> HIDE DEF s
<1>2. /\ Trailed(p)
      /\ p.group = s.group /\ p.used = 0 /\ p.reason = s.reason
      /\ Len(p.trail) = 1
      /\ p.trail[1] = [at |-> 1, ran |-> FALSE, result |-> "CIRCUIT_OPEN"]
  <2>1. PICK n \in Nat : n = 0
    OBVIOUS
  <2>2. n + 1 = 1 /\ n + 1 \in 1..Len(s.group) /\ Behind(s, n)
    BY <1>1, <2>1
  <2> DEFINE next == Skipped(s, n + 1, "CIRCUIT_OPEN")
  <2>3. /\ Trailed(next)
        /\ next.group = s.group /\ next.used = n /\ next.reason = s.reason
        /\ Len(next.trail) = n + 1
        /\ next.trail[n + 1] = [at |-> n + 1, ran |-> FALSE, result |-> "CIRCUIT_OPEN"]
    BY <2>2, SkippedTrailed
  <2>4. next = p
    BY <2>2
  <2> HIDE DEF next, p
  <2> QED
    BY <2>1, <2>2, <2>3, <2>4
<1> HIDE DEF p
<1>3. ~p.trail[1].ran /\ p.trail[1].result = "CIRCUIT_OPEN"
  BY <1>2
<1>4. LeftBehind(p, 1) /\ PrimarysReason(p) = "CIRCUIT_OPEN"
  BY <1>3 DEF LeftBehind, PrimarysReason
<1>5. \A j \in 1..1 : j = 1
  OBVIOUS
<1>6. Leaving(p, 1)
  BY <1>1, <1>2, <1>4, <1>5 DEF Leaving, Behind
<1>7. "CIRCUIT_OPEN" \in Reasons
  BY DEF Reasons
<1> QED
  BY <1>4, <1>6, <1>7, LeftIsBehind DEF RejectedStart, s, p

\* The loop's turn to the provider after those left behind goes on or ends.
LEMMA OnwardStory ==
  ASSUME NEW q, NEW n \in Nat, Behind(q, n), n \in 1..Len(q.group)
  PROVE  /\ Story(Onward(q, n + 1))
         /\ Active(Onward(q, n + 1)) \/ Told(Onward(q, n + 1))
<1>1. Running(q) /\ q \in Request /\ q.used = n /\ Len(q.trail) = n
  BY DEF Behind, Trailed, Running
<1>2. q.group \in Seq(Services) /\ Len(q.group) \in Nat /\ MaxFailovers \in Nat
  BY <1>1, GatewayAssumption DEF Running
<1>3. CASE n + 1 > Len(q.group)
  <2>1. Len(q.trail) = Len(q.group) /\ q.trail # <<>>
    BY <1>1, <1>2, <1>3
  <2>2. Closing(q)
    BY <2>1 DEF Closing, Exhausted, Behind
  <2> QED
    BY <1>3, <2>2, FinishedTells DEF Onward, Story
<1>4. CASE n + 1 \in 1..Len(q.group)
  <2>1. \A why \in {"CIRCUIT_OPEN", "UNHEALTHY", "BUDGET_EXHAUSTED"} :
          Story(Finished(Skipped(q, n + 1, why))) /\ Told(Finished(Skipped(q, n + 1, why)))
    BY <1>4, SkippedCloses, FinishedTells DEF Story
  <2>2. \/ \E why \in {"CIRCUIT_OPEN", "UNHEALTHY", "BUDGET_EXHAUSTED"} :
             Onward(q, n + 1) = Finished(Skipped(q, n + 1, why))
        \/ Onward(q, n + 1) = Executing(q, n + 1) /\ ~(q.used > MaxFailovers)
    BY <1>2, <1>4 DEF Onward
  <2>3. CASE Onward(q, n + 1) = Executing(q, n + 1) /\ ~(q.used > MaxFailovers)
    <3> DEFINE p == Executing(q, n + 1)
    <3>1. Running(p) /\ Active(p)
      BY <1>1, <1>4, ExecutingPlaces DEF Placed
    <3>2. \A f \in {"group", "used", "reason", "selected", "outcome", "trail", "log"} :
            p[f] = q[f]
      BY <1>1 DEF Executing, Request
    <3>3. p.at = n + 1
      BY <1>1 DEF Executing, Request
    <3> HIDE DEF p
    <3>4. Behind(p, n)
      BY <3>1, <3>2, SameStory
    <3>5. p.at \in 1..(MaxFailovers + 1) /\ p.at - 1 = n
      BY <1>1, <1>2, <2>3, <3>3
    <3>6. Underway(p)
      BY <3>1, <3>4, <3>5 DEF Underway
    <3> QED
      BY <2>3, <3>1, <3>6 DEF Story, p
  <2> QED
    BY <2>1, <2>2, <2>3
<1> QED
  BY <1>2, <1>3, <1>4

-----------------------------------------------------------------------------
(* The steps keep every request's story.                                    *)

\* What an active request's story is.
LEMMA ActiveStory ==
  ASSUME IInv, StoryInv, NEW r \in Requests, Active(req[r])
  PROVE  /\ Placed(req[r])
         /\ req[r].at \in Nat /\ req[r].at >= 1 /\ req[r].at <= MaxFailovers + 1
         /\ Behind(req[r], req[r].at - 1)
<1>1. Placed(req[r]) /\ Story(req[r])
  BY DEF IInv, StoryInv
<1>2. req[r] # Unused /\ ~Told(req[r])
  BY DEF Active, Unused, Told, Answered
<1> QED
  BY <1>1, <1>2, GatewayAssumption DEF Story, Underway

\* A step that gives one request a story keeps all of them.
LEMMA OneStory ==
  ASSUME IInv, StoryInv, NEW r \in Requests, NEW q,
         req' = [req EXCEPT ![r] = q], Story(q)
  PROVE  StoryInv'
<1>1. \A x \in Requests : req'[x] = IF x = r THEN q ELSE req[x]
  BY DEF IInv
<1> QED
  BY <1>1 DEF StoryInv

\* A request begins with nothing told but its start.
LEMMA ArriveTells ==
  ASSUME IInv, StoryInv, NEW r \in Requests, NEW g \in Groups, Arrive(r, g)
  PROVE  StoryInv'
<1> DEFINE s == Started(g)
<1>1. Behind(s, 0) /\ Active(s)
  BY StartedStory, StartedIsPlaced
<1>2. s.at = 1
  <2> DEFINE fresh == [group |-> g, phase |-> "attempting", at |-> 1, attempt |-> 1,
                       used |-> 0, reason |-> None, selected |-> 0, outcome |-> None,
                       trail |-> <<>>, log |-> <<>>, response |-> None]
  <2>1. s = [fresh EXCEPT !.log = Append(fresh.log, <<"REQUEST_STARTED", Provider(fresh, 1)>>)]
    BY DEF Started, Emit
  <2> QED
    BY <2>1
<1> HIDE DEF s
<1>3. s.at \in 1..(MaxFailovers + 1) /\ s.at - 1 = 0
  BY <1>2, GatewayAssumption
<1>4. Story(s)
  BY <1>1, <1>3 DEF Story, Underway
<1> QED
  BY <1>4, OneStory DEF Arrive, s

\* A request whose primary's circuit is open begins with the rejection.
LEMMA ArriveRejectedTells ==
  ASSUME IInv, StoryInv, NEW r \in Requests, NEW g \in Groups, ArriveRejected(r, g)
  PROVE  StoryInv'
<1>1. Behind(RejectedStart(g), 1) /\ RejectedStart(g).group = g /\ 1 \in 1..Len(g)
  BY RejectedStory, RejectedStartRuns, GatewayAssumption
<1>2. Story(Onward(RejectedStart(g), 2))
  BY <1>1, 1 + 1 = 2, OnwardStory
<1> QED
  BY <1>2, OneStory DEF ArriveRejected, RejectedStart

\* A retried attempt is noted, and the story goes on where it was.
LEMMA AttemptFailsTells ==
  ASSUME IInv, StoryInv, NEW r \in Requests, AttemptFails(r)
  PROVE  StoryInv'
<1>1. PICK o \in Outcomes, late \in BOOLEAN :
        /\ req[r].phase = "attempting"
        /\ req' = [req EXCEPT ![r] = [Observed(req[r], o, TRUE) EXCEPT !.phase = "backoff"]]
  BY DEF AttemptFails
<1> DEFINE n == req[r].at - 1
           seen == Observed(req[r], o, TRUE)
           p == [seen EXCEPT !.phase = "backoff"]
<1>2. /\ Placed(req[r]) /\ Behind(req[r], n)
      /\ req[r].at \in Nat /\ req[r].at >= 1 /\ req[r].at <= MaxFailovers + 1
  BY <1>1, ActiveStory DEF Active
<1>3. Behind(seen, n) /\ Running(seen) /\ seen.at = req[r].at
  BY <1>2, ObservedBehind, ObservedKeeps DEF Placed
<1>4. req' = [req EXCEPT ![r] = p]
  BY <1>1
<1> HIDE DEF seen
<1>5. /\ p \in Request /\ p.phase = "backoff" /\ p.at = seen.at
      /\ \A f \in {"group", "used", "reason", "selected", "outcome", "trail", "log"} :
           p[f] = seen[f]
  BY <1>3 DEF Running, Request
<1>6. Running(p)
  BY <1>3, <1>5 DEF Running
<1> HIDE DEF p, n
<1>7. Behind(p, n)
  BY <1>3, <1>5, <1>6, SameStory
<1>8. p.at \in 1..(MaxFailovers + 1) /\ n = p.at - 1
  BY <1>2, <1>3, <1>5, GatewayAssumption DEF n
<1>9. Story(p)
  BY <1>5, <1>7, <1>8 DEF Story, Underway, Active
<1> QED
  BY <1>4, <1>9, OneStory

\* A backoff that is over tells nothing.
LEMMA BackoffOverTells ==
  ASSUME IInv, StoryInv, NEW r \in Requests, BackoffOver(r)
  PROVE  StoryInv'
<1> DEFINE n == req[r].at - 1
           p == [req[r] EXCEPT !.phase = "attempting", !.attempt = req[r].attempt + 1]
<1>1. /\ Placed(req[r]) /\ req[r] \in Request /\ req[r].phase = "backoff"
      /\ Behind(req[r], n)
      /\ req[r].at \in Nat /\ req[r].at >= 1 /\ req[r].at <= MaxFailovers + 1
  BY ActiveStory DEF Active, BackoffOver, IInv
<1>2. req' = [req EXCEPT ![r] = p]
  BY <1>1 DEF BackoffOver, IInv
<1>3. req[r].attempt + 1 \in 0..MaxAttempts
  BY <1>1, GatewayAssumption DEF Placed, Request
<1>4. /\ p \in Request /\ p.phase = "attempting" /\ p.at = req[r].at
      /\ \A f \in {"group", "used", "reason", "selected", "outcome", "trail", "log"} :
           p[f] = req[r][f]
  BY <1>1, <1>3 DEF Request
<1>5. Running(p)
  BY <1>1, <1>4 DEF Placed, Running
<1> HIDE DEF p, n
<1>6. Behind(p, n)
  BY <1>1, <1>4, <1>5, SameStory
<1>7. p.at \in 1..(MaxFailovers + 1) /\ n = p.at - 1
  BY <1>1, <1>4, GatewayAssumption DEF n
<1>8. Story(p)
  BY <1>4, <1>6, <1>7 DEF Story, Underway, Active
<1> QED
  BY <1>2, <1>8, OneStory

\* A crash ends the story in the middle: nothing more is told.
LEMMA CrashTells ==
  ASSUME IInv, StoryInv, NEW r \in Requests, Crash(r)
  PROVE  StoryInv'
<1> DEFINE n == req[r].at - 1
           p == [req[r] EXCEPT !.phase = "done", !.response = "INTERNAL_ERROR"]
<1>1. /\ Placed(req[r]) /\ req[r] \in Request
      /\ Behind(req[r], n)
      /\ req[r].at \in Nat /\ req[r].at >= 1 /\ req[r].at <= MaxFailovers + 1
  BY ActiveStory DEF Active, Crash, IInv
<1>2. req' = [req EXCEPT ![r] = p]
  BY <1>1 DEF Crash, IInv
<1>3. /\ p \in Request /\ p.phase = "done" /\ p.response = "INTERNAL_ERROR"
      /\ p.at = req[r].at
      /\ \A f \in {"group", "used", "reason", "selected", "outcome", "trail", "log"} :
           p[f] = req[r][f]
  BY <1>1 DEF Request, Responses
<1>4. Running(p)
  BY <1>1, <1>3 DEF Placed, Running
<1> HIDE DEF p, n
<1>5. Behind(p, n)
  BY <1>1, <1>3, <1>4, SameStory
<1>6. p.at \in 1..(MaxFailovers + 1) /\ n = p.at - 1
  BY <1>1, <1>3, GatewayAssumption DEF n
<1>7. Story(p)
  BY <1>3, <1>5, <1>6 DEF Story, Underway
<1> QED
  BY <1>2, <1>7, OneStory

\* A provider that ended its attempts, as the trail has it.
LEMMA AttemptOutcome ==
  ASSUME IInv, StoryInv, NEW r \in Requests, req[r].phase = "attempting",
         NEW o \in Outcomes
  PROVE  LET i == req[r].at
             ran == Ran(Observed(req[r], o, FALSE), i, o)
         IN
         /\ i \in Nat
         /\ IF FailoverEligible(o)
            THEN Leaving(ran, i) /\ (i = 1 => PrimarysReason(ran) = FailoverReason(o))
            ELSE Closing(ran)
<1> DEFINE i == req[r].at
           seen == Observed(req[r], o, FALSE)
<1>1. /\ Placed(req[r]) /\ Behind(req[r], i - 1)
      /\ i \in Nat /\ i >= 1 /\ i <= MaxFailovers + 1
  BY ActiveStory DEF Active
<1>2. Behind(seen, i - 1) /\ seen.group = req[r].group
  BY <1>1, ObservedBehind, ObservedKeeps DEF Placed
<1>3. i \in 1..Len(seen.group)
  BY <1>1, <1>2 DEF Placed
<1> HIDE DEF i, seen
<1>4. PICK n \in Nat : n = i - 1
  BY <1>1
<1>5. n + 1 = i /\ n <= MaxFailovers
  BY <1>1, <1>4, GatewayAssumption
<1>6. IF FailoverEligible(o)
      THEN /\ Leaving(Ran(seen, n + 1, o), n + 1)
           /\ n = 0 => PrimarysReason(Ran(seen, n + 1, o)) = FailoverReason(o)
      ELSE Closing(Ran(seen, n + 1, o))
  BY <1>2, <1>3, <1>4, <1>5, RanOutcome
<1>7. i = 1 => n = 0
  BY <1>4
<1> QED
  BY <1>1, <1>5, <1>6, <1>7 DEF i, seen

\* An outcome that ends the request closes its story.
LEMMA SettleTells ==
  ASSUME IInv, StoryInv, NEW r \in Requests, Settle(r)
  PROVE  StoryInv'
<1>1. PICK o \in Outcomes, late \in BOOLEAN :
        /\ req[r].phase = "attempting"
        /\ ~FailoverEligible(o)
        /\ req' = [req EXCEPT ![r] =
                     Finished(Ran(Observed(req[r], o, FALSE), req[r].at, o))]
  BY DEF Settle
<1>2. Closing(Ran(Observed(req[r], o, FALSE), req[r].at, o))
  BY <1>1, AttemptOutcome
<1>3. Story(Finished(Ran(Observed(req[r], o, FALSE), req[r].at, o)))
  BY <1>2, FinishedTells DEF Story
<1> QED
  BY <1>1, <1>3, OneStory

\* An outcome that does not moves on to the next provider, or to the end.
LEMMA FailOverTells ==
  ASSUME IInv, StoryInv, NEW r \in Requests, FailOver(r)
  PROVE  StoryInv'
<1>1. PICK o \in Outcomes, late \in BOOLEAN :
        LET i == req[r].at
            q == Left(Ran(Observed(req[r], o, FALSE), i, o), i, FailoverReason(o))
        IN
        /\ req[r].phase = "attempting"
        /\ FailoverEligible(o)
        /\ req' = [req EXCEPT ![r] = Onward(q, i + 1)]
  BY DEF FailOver
<1> DEFINE i == req[r].at
           ran == Ran(Observed(req[r], o, FALSE), i, o)
           q == Left(ran, i, FailoverReason(o))
<1>2. i \in Nat /\ Leaving(ran, i) /\ (i = 1 => PrimarysReason(ran) = FailoverReason(o))
  BY <1>1, AttemptOutcome
<1>3. req' = [req EXCEPT ![r] = Onward(q, i + 1)] /\ FailoverReason(o) \in Reasons
  BY <1>1, ReasonIsReason
<1> HIDE DEF ran, i
<1>4. Behind(q, i)
  BY <1>2, <1>3, LeftIsBehind
<1>5. i \in 1..Len(q.group)
  BY <1>2, <1>3, LeftKeeps DEF Leaving, Trailed
<1>6. Story(Onward(q, i + 1))
  BY <1>2, <1>4, <1>5, OnwardStory
<1> QED
  BY <1>3, <1>6, OneStory

\* Every step keeps every story.
LEMMA NextKeepsStories == IInv /\ StoryInv /\ [Next]_gvars => StoryInv'
<1> SUFFICES ASSUME IInv, StoryInv, [Next]_gvars PROVE StoryInv'
  OBVIOUS
<1>1. ASSUME UNCHANGED req PROVE StoryInv'
  BY <1>1 DEF StoryInv
<1>2. ASSUME NEW s \in Services, HealthChanges(s) PROVE StoryInv'
  BY <1>1, <1>2 DEF HealthChanges
<1>3. ASSUME Tick PROVE StoryInv'
  BY <1>1, <1>3 DEF Tick
<1>4. CASE UNCHANGED gvars
  BY <1>1, <1>4 DEF gvars
<1> QED
  BY <1>2, <1>3, <1>4, ArriveTells, ArriveRejectedTells, AttemptFailsTells,
     BackoffOverTells, SettleTells, FailOverTells, CrashTells
  DEF Next, AttemptEnds

\* Every reachable state has consistent loops and whole stories.
LEMMA StoriesHold == Spec => [](IInv /\ StoryInv)
<1>1. Init => StoryInv
  BY DEF Init, StoryInv, Story
<1> QED
  BY <1>1, InitEstablishesIInv, NextPreservesIInv, NextKeepsStories, PTL DEF Spec

-----------------------------------------------------------------------------
(* What the stories say.                                                    *)

\* The events of a request tell what became of it, whatever the group, the
\* outcomes and the interleaving.  gateway.controller.ts:137-284.
THEOREM EventsTellTheStoryHolds == Spec => []EventsTellTheStory
<1>1. IInv /\ StoryInv => EventsTellTheStory
  <2> SUFFICES ASSUME IInv, StoryInv, NEW r \in Requests
               PROVE
      LET q == req[r]
          terminal == PositionsOf(q, {"REQUEST_COMPLETED", "REQUEST_FAILED"})
          started == PositionsOf(q, {"FAILOVER_STARTED"})
          completed == PositionsOf(q, {"FAILOVER_COMPLETED"})
          ran == RanEntries(q)
      IN
      /\ IF Answered(q)
         THEN /\ terminal = {Len(q.log)}
              /\ q.log[Len(q.log)][2] =
                   Provider(q, IF ran = {} THEN 1
                               ELSE CHOOSE i \in ran : \A j \in ran : j <= i)
         ELSE terminal = {}
      /\ started = {} <=> q.reason = None
      /\ completed # {} <=> Answered(q) /\ ran \ {1} # {}
      /\ \A i, j \in started : i = j
      /\ \A i, j \in completed : i = j
      /\ \A i \in started, j \in completed : i < j
    BY DEF EventsTellTheStory, OneTerminalEvent, FailoverReported
  <2> DEFINE q == req[r]
             ran == RanEntries(q)
             ends == {"REQUEST_COMPLETED", "REQUEST_FAILED"}
             started == {"FAILOVER_STARTED"}
             completed == {"FAILOVER_COMPLETED"}
  <2>0. Story(q) /\ q \in Request
    BY DEF StoryInv, IInv
  <2>1. CASE q = Unused
    <3>1. q.log = <<>> /\ q.reason = None /\ q.phase = "unused"
      BY <2>1 DEF Unused
    <3>2. Len(q.log) = 0
      BY <3>1
    <3>3. \A types : PositionsOf(q, types) = {}
      BY <3>2 DEF PositionsOf
    <3> HIDE DEF q
    <3> QED
      BY <3>1, <3>3 DEF Answered, q
  <2>2. CASE Underway(q)
    <3>1. ~Answered(q) /\ Announced(q) /\ Open(q)
      BY <2>2 DEF Underway, Active, Answered, Behind, Trailed
    <3>2. PositionsOf(q, ends) = {} /\ PositionsOf(q, completed) = {}
      BY <3>1 DEF Open, PositionsOf
    <3> HIDE DEF q
    <3> QED
      BY <3>1, <3>2 DEF Announced, q
  <2>3. CASE Told(q)
    <3>1. /\ Answered(q) /\ ServedByLast(q) /\ Announced(q)
          /\ PositionsOf(q, ends) = {Len(q.log)}
          /\ q.log[Len(q.log)][2] = Provider(q, IF q.selected = 0 THEN 1 ELSE q.selected)
          /\ PositionsOf(q, completed) # {} <=> q.selected > 1
          /\ \A i, j \in PositionsOf(q, completed) : i = j
          /\ \A i \in PositionsOf(q, started), j \in PositionsOf(q, completed) : i < j
      BY <2>3 DEF Told
    <3> HIDE DEF q
    <3>2. ran \subseteq Nat /\ \A i \in ran : i >= 1
      BY DEF RanEntries
    <3>3. q.selected \in Nat
      BY <2>0 DEF Request
    <3>4. ran = {} <=> q.selected = 0
      BY <3>1, <3>2 DEF ServedByLast
    <3>5. ran \ {1} # {} <=> q.selected > 1
      BY <3>1, <3>2, <3>3 DEF ServedByLast
    <3>6. ran # {} => (CHOOSE i \in ran : \A j \in ran : j <= i) = q.selected
      <4> SUFFICES ASSUME ran # {} PROVE (CHOOSE i \in ran : \A j \in ran : j <= i) = q.selected
        OBVIOUS
      <4>1. q.selected \in ran /\ \A j \in ran : j <= q.selected
        BY <3>1 DEF ServedByLast
      <4>2. \A i \in ran : (\A j \in ran : j <= i) => i = q.selected
        BY <3>2, <4>1
      <4> HIDE DEF ran
      <4> QED
        BY <4>1, <4>2
    <3> QED
      BY <3>1, <3>4, <3>5, <3>6 DEF Announced, q
  <2> QED
    BY <2>0, <2>1, <2>2, <2>3 DEF Story
<1> QED
  BY <1>1, StoriesHold, PTL

\* Every request goes forward through its group, none further than the budget.
\* failover.service.ts:121-129, 174-207.
THEOREM ForwardWithinBudgetHolds == Spec => []ForwardWithinBudget
<1>1. IInv /\ StoryInv => ForwardWithinBudget
  <2> SUFFICES ASSUME IInv, StoryInv, NEW r \in Requests
               PROVE  /\ Forward(req[r])
                      /\ Active(req[r]) => /\ req[r].at = Len(req[r].trail) + 1
                                           /\ req[r].at <= MaxFailovers + 1
    BY DEF ForwardWithinBudget, Forward
  <2>1. Story(req[r])
    BY DEF StoryInv
  <2>2. ASSUME Active(req[r])
        PROVE  /\ req[r].at = Len(req[r].trail) + 1
               /\ req[r].at <= MaxFailovers + 1
    <3>1. /\ req[r].at \in Nat /\ req[r].at <= MaxFailovers + 1
          /\ Behind(req[r], req[r].at - 1)
      BY <2>2, ActiveStory
    <3> QED
      BY <3>1 DEF Behind
  <2>3. CASE req[r] = Unused
    <3>1. req[r].trail = <<>>
      BY <2>3 DEF Unused
    <3>2. Len(req[r].trail) = 0
      BY <3>1
    <3> QED
      BY <2>2, <3>2 DEF Forward
  <2>4. CASE Underway(req[r])
    BY <2>2, <2>4 DEF Underway, Behind, Trailed
  <2>5. CASE Told(req[r])
    BY <2>2, <2>5 DEF Told
  <2> QED
    BY <2>1, <2>3, <2>4, <2>5 DEF Story
<1> QED
  BY <1>1, StoriesHold, PTL

\* The reason of a failover is why the primary was left, for good.
\* failover.service.ts:133-134, 201, 248-250.
THEOREM ReasonIsThePrimarysHolds == Spec => []ReasonIsThePrimarys
<1>1. IInv /\ StoryInv => ReasonIsThePrimarys
  <2> SUFFICES ASSUME StoryInv, NEW r \in Requests, req[r].reason # None
               PROVE  req[r].reason = PrimarysReason(req[r])
    BY DEF ReasonIsThePrimarys, PrimarysReason
  <2>1. Story(req[r])
    BY DEF StoryInv
  <2>2. req[r] # Unused
    BY DEF Unused
  <2> QED
    BY <2>1, <2>2 DEF Story, Underway, Behind, Trailed, Told
<1> QED
  BY <1>1, StoriesHold, PTL

\* The answer is that of the last provider that ran, and no provider that could
\* have been tried was forgotten.
\* failover.service.ts:240-252; gateway.controller.ts:216-252, 286-421.
THEOREM NoProviderForgottenHolds == Spec => []NoProviderForgotten
<1>1. IInv /\ StoryInv => NoProviderForgotten
  <2> SUFFICES ASSUME IInv, StoryInv, NEW r \in Requests, Answered(req[r])
               PROVE
      /\ req[r].response = "CIRCUIT_OPEN" <=> RanEntries(req[r]) = {}
      /\ \A i \in RanEntries(req[r]) :
           (\A j \in RanEntries(req[r]) : j <= i)
             => req[r].response = ResponseTo(req[r].trail[i].result)
      /\ Exhausted(req[r])
    BY DEF NoProviderForgotten, Exhausted
  <2> DEFINE q == req[r]
             ran == RanEntries(q)
  <2>1. Told(q)
    <3>1. Story(q) /\ q # Unused /\ ~Underway(q)
      BY DEF StoryInv, Answered, Unused, Underway, Active
    <3> QED
      BY <3>1 DEF Story
  <2>2. /\ ServedByLast(q) /\ Exhausted(q)
        /\ q.response = IF q.selected = 0 THEN "CIRCUIT_OPEN" ELSE ResponseTo(q.outcome)
    BY <2>1 DEF Told
  <2> HIDE DEF q
  <2>3. \A o : ResponseTo(o) # "CIRCUIT_OPEN"
    BY DEF ResponseTo
  <2>4. ran \subseteq Nat /\ \A i \in ran : i >= 1
    BY DEF RanEntries
  <2>5. ran = {} <=> q.selected = 0
    BY <2>2, <2>4 DEF ServedByLast
  <2>6. ASSUME NEW i \in ran, \A j \in ran : j <= i
        PROVE  q.response = ResponseTo(q.trail[i].result)
    <3>1. /\ q.selected \in ran /\ i <= q.selected /\ q.selected <= i
          /\ q.outcome = q.trail[q.selected].result
      BY <2>2, <2>6 DEF ServedByLast
    <3>2. i = q.selected
      BY <2>4, <3>1
    <3> QED
      BY <2>2, <2>5, <3>1, <3>2
  <2> QED
    BY <2>2, <2>3, <2>5, <2>6 DEF q
<1> QED
  BY <1>1, StoriesHold, PTL

-----------------------------------------------------------------------------
(* What the collector computes from a window of samples.                    *)

\* The average and the percentile of what is in a window.
Average(v) == (200 * SumFunction(v) + Len(v)) \div (2 * Len(v))

Rank95(n) == (95 * n + 99) \div 100

\* The 95th percentile is the sample of that rank, and rank / n reaches 95 %
\* with no smaller rank.
LEMMA RankReaches ==
  ASSUME NEW n \in Nat, n > 0
  PROVE  /\ Rank95(n) \in 1..n
         /\ 100 * Rank95(n) >= 95 * n
         /\ 100 * (Rank95(n) - 1) < 95 * n
<1> DEFINE q == (95 * n + 99) \div 100
<1>1. q \in Int /\ 100 * q <= 95 * n + 99 /\ 95 * n + 99 < 100 * q + 100
  OBVIOUS
<1> HIDE DEF q
<1>2. q \in 1..n /\ 100 * q >= 95 * n /\ 100 * (q - 1) < 95 * n
  BY <1>1
<1> QED
  BY <1>2 DEF Rank95, q

\* Division by a number rounds down.
LEMMA DivisionRoundsDown ==
  ASSUME NEW a \in Nat, NEW b \in Nat, b > 0
  PROVE  /\ a \div b \in Nat
         /\ b * (a \div b) <= a
         /\ a < b * (a \div b) + b
  OBVIOUS

\* The percentile shown is one of the samples, 95 % of them are no greater, and
\* of no smaller sample is that true.
LEMMA PercentileIsLeast ==
  ASSUME NEW v \in Seq(Nat), Len(v) > 0
  PROVE  LET Reaches95(x) == 100 * Cardinality({i \in 1..Len(v) : v[i] <= x}) >= 95 * Len(v) IN
         /\ Percentile95(v) \in {v[i] : i \in 1..Len(v)}
         /\ Reaches95(Percentile95(v))
         /\ \A i \in 1..Len(v) : v[i] < Percentile95(v) => ~Reaches95(v[i])
<1> DEFINE n == Len(v)
           r == Rank95(n)
           UpTo(x) == {i \in 1..n : v[i] <= x}
<1>1. n \in Nat /\ n > 0 /\ DOMAIN v = 1..n /\ v \in Seq(Int) /\ \A i \in 1..n : v[i] \in Nat
  OBVIOUS
<1>2. r \in 1..n /\ r \in Nat /\ 100 * r >= 95 * n /\ 100 * (r - 1) < 95 * n
  BY <1>1, RankReaches
<1>3. PICK p : Sorts(p, v)
  BY <1>1, SortedAscends
<1>4. p[r] \in 1..n
  BY <1>2, <1>3 DEF Sorts, Bijection, Injection
<1>5. Percentile95(v) = v[p[r]]
  <2>1. SortedBy(v, Smaller(v)) = [q \in 1..n |-> v[p[q]]]
    BY <1>3 DEF Sorts
  <2> HIDE DEF r
  <2>2. [q \in 1..n |-> v[p[q]]][r] = v[p[r]]
    BY <1>2
  <2>3. Percentile95(v) = SortedBy(v, Smaller(v))[r]
    BY DEF Percentile95, r, Rank95
  <2> QED
    BY <2>1, <2>2, <2>3
<1> DEFINE x == v[p[r]]
<1>6. x \in Nat
  BY <1>1, <1>4
<1>7. \A y \in Nat : UpTo(y) = Below(v, y + 1)
  <2> SUFFICES ASSUME NEW y \in Nat PROVE UpTo(y) = Below(v, y + 1)
    OBVIOUS
  <2>1. \A i \in 1..n : v[i] <= y <=> v[i] < y + 1
    BY <1>1
  <2> QED
    BY <1>1, <2>1 DEF Below
<1> HIDE DEF r, n
<1>8. /\ Cardinality(Below(v, x)) <= r - 1
      /\ \A y \in Int : x < y => Cardinality(Below(v, y)) >= r
      /\ \A y \in Int : Cardinality(Below(v, y)) \in Nat
  BY <1>1, <1>2, <1>3, RanksCount DEF n
<1>9. 100 * Cardinality(UpTo(x)) >= 95 * n
  <2> HIDE DEF x, UpTo
  <2>1. UpTo(x) = Below(v, x + 1) /\ x + 1 \in Int /\ x < x + 1
    BY <1>6, <1>7
  <2>2. Cardinality(UpTo(x)) \in Nat /\ Cardinality(UpTo(x)) >= r
    BY <1>8, <2>1
  <2> QED
    BY <1>1, <1>2, <2>2
<1>10. ASSUME NEW i \in 1..n, v[i] < x PROVE ~(100 * Cardinality(UpTo(v[i])) >= 95 * n)
  <2>1. v[i] \in Nat /\ UpTo(v[i]) = Below(v, v[i] + 1)
    BY <1>1, <1>7
  <2>2. Below(v, v[i] + 1) \subseteq Below(v, x)
    <3> SUFFICES ASSUME NEW j \in 1..n, v[j] < v[i] + 1 PROVE v[j] < x
      BY <1>1 DEF Below
    <3>1. v[j] \in Nat
      BY <1>1
    <3> HIDE DEF x
    <3> QED
      BY <1>6, <1>10, <2>1, <3>1
  <2>3. IsFiniteSet(Below(v, x))
    <3>1. IsFiniteSet(1..n)
      BY <1>1, FS_Interval
    <3>2. Below(v, x) \subseteq 1..n
      BY <1>1 DEF Below
    <3> QED
      BY <3>1, <3>2, FS_Subset
  <2>4. Cardinality(Below(v, v[i] + 1)) <= Cardinality(Below(v, x))
    BY <2>2, <2>3, FS_Subset
  <2> HIDE DEF x, UpTo
  <2>5. Cardinality(Below(v, x)) \in Nat /\ Cardinality(Below(v, v[i] + 1)) \in Nat
    <3>1. x \in Int /\ v[i] + 1 \in Int
      BY <1>6, <2>1
    <3> QED
      BY <1>8, <3>1
  <2>6. Cardinality(UpTo(v[i])) \in Nat /\ Cardinality(UpTo(v[i])) <= r - 1
    BY <1>2, <1>8, <2>1, <2>4, <2>5
  <2> QED
    BY <1>1, <1>2, <2>6
<1>11. Percentile95(v) \in {v[i] : i \in 1..n}
  BY <1>4, <1>5
<1> QED
  BY <1>5, <1>9, <1>10, <1>11 DEF n

\* What the collector remembers of a request that ended.
Answers == Services \X Durations

\* The durations some services gave.
LEMMA EndedOnTyped ==
  ASSUME NEW answers \in Seq(Answers), NEW services
  PROVE  EndedOn(answers, services) \in Seq(Durations)
<1> DEFINE P == {i \in DOMAIN answers : answers[i][1] \in services}
           own == Kept(answers, P)
<1>1. own \in Seq(Answers)
  <2>1. P \in SUBSET (1..Len(answers))
    OBVIOUS
  <2> HIDE DEF P
  <2> QED
    BY <2>1, KeptIsSelection
<1>2. EndedOn(answers, services) = [i \in DOMAIN own |-> own[i][2]]
  BY DEF EndedOn
<1> HIDE DEF own
<1>3. Len(own) \in Nat /\ DOMAIN own = 1..Len(own) /\ \A i \in 1..Len(own) : own[i] \in Answers
  BY <1>1
<1>4. \A i \in 1..Len(own) : own[i][2] \in Durations
  BY <1>3 DEF Answers
<1> QED
  BY <1>2, <1>3, <1>4

\* The durations some services gave, when one more answer is given.
LEMMA EndedOnGrows ==
  ASSUME NEW answers \in Seq(Answers), NEW services,
         NEW e \in Answers
  PROVE  /\ EndedOn(answers, services) \in Seq(Durations)
         /\ EndedOn(Append(answers, e), services)
              = IF e[1] \in services THEN Append(EndedOn(answers, services), e[2])
                ELSE EndedOn(answers, services)
<1> DEFINE n == Len(answers)
           next == Append(answers, e)
           On(a) == {i \in DOMAIN a : a[i][1] \in services}
           P == On(answers)
           own == Kept(answers, P)
           Second(a) == [i \in DOMAIN a |-> a[i][2]]
<1>1. e \in Answers /\ e[1] \in Services /\ e[2] \in Durations
  BY DEF Answers
<1>2. /\ n \in Nat /\ Len(next) = n + 1 /\ next[n + 1] = e /\ DOMAIN next = 1..(n + 1)
      /\ DOMAIN answers = 1..n /\ \A i \in 1..n : next[i] = answers[i]
  BY <1>1, AppendProperties
<1>3. P \in SUBSET (1..n)
  BY <1>2
<1>4. own \in Seq(Answers)
  BY <1>3, KeptIsSelection
<1>5. On(next) = IF e[1] \in services THEN P \cup {n + 1} ELSE P
  <2>1. \A i \in 1..(n + 1) : i \in 1..n \/ i = n + 1
    BY <1>2
  <2>2. \A i \in 1..n : i \in 1..(n + 1)
    BY <1>2
  <2>3. n + 1 \in 1..(n + 1) /\ next[n + 1][1] = e[1]
    BY <1>2
  <2> QED
    BY <1>2, <2>1, <2>2, <2>3
<1>6. Kept(next, On(next)) = IF e[1] \in services THEN Append(own, e) ELSE own
  <2>1. Kept(next, P) = own /\ Kept(next, P \cup {n + 1}) = Append(own, e)
    <3> HIDE DEF P, On
    <3> QED
      BY <1>1, <1>3, KeptAppend
  <2> HIDE DEF next, P, On, own
  <2> QED
    BY <1>5, <2>1
<1>7. EndedOn(answers, services) = Second(own)
  BY DEF EndedOn
<1>8. EndedOn(next, services) = Second(Kept(next, On(next)))
  BY DEF EndedOn
<1> HIDE DEF own, next, On
<1>9. Len(own) \in Nat /\ DOMAIN own = 1..Len(own) /\ \A i \in 1..Len(own) : own[i] \in Answers
  BY <1>4
<1>10. Second(own) \in Seq(Durations) /\ Len(Second(own)) = Len(own)
  <2>1. \A i \in 1..Len(own) : own[i][2] \in Durations
    BY <1>9 DEF Answers
  <2> QED
    BY <1>9, <2>1
<1>11. Second(Append(own, e)) = Append(Second(own), e[2])
  <2>1. /\ DOMAIN Append(own, e) = 1..(Len(own) + 1)
        /\ \A i \in 1..Len(own) : Append(own, e)[i] = own[i]
        /\ Append(own, e)[Len(own) + 1] = e
    BY <1>1, <1>4, AppendProperties
  <2>2. Append(Second(own), e[2]) = [i \in 1..(Len(own) + 1) |-> IF i = Len(own) + 1 THEN e[2] ELSE Second(own)[i]]
    BY <1>10
  <2>3. \A i \in 1..(Len(own) + 1) : i = Len(own) + 1 \/ i \in 1..Len(own)
    BY <1>9
  <2>4. \A i \in 1..Len(own) : Second(own)[i] = own[i][2] /\ i # Len(own) + 1
    BY <1>9
  <2>6. \A i \in 1..(Len(own) + 1) :
          Append(own, e)[i][2] = IF i = Len(own) + 1 THEN e[2] ELSE Second(own)[i]
    BY <2>1, <2>3, <2>4
  <2> DEFINE longer == Append(own, e)
             second == Second(own)
  <2>7. Second(longer) = [i \in 1..(Len(own) + 1) |-> longer[i][2]]
    BY <2>1
  <2> HIDE DEF longer, second, Second
  <2> QED
    BY <2>2, <2>6, <2>7 DEF longer, second
<1> HIDE DEF Second
<1> QED
  BY <1>6, <1>7, <1>8, <1>10, <1>11 DEF next

\* WithLatency's window, one sample on.
Slid(window, d) ==
  LET samples == Append(window, d)
      excess == Len(samples) - LatencyWindow
  IN  IF excess > 0 THEN SubSeq(samples, excess + 1, Len(samples)) ELSE samples

\* A window of the newest durations stays one.
LEMMA NewestSlides ==
  ASSUME NEW v \in Seq(Nat), NEW d \in Nat
  PROVE  /\ Newest(v) \in Seq(Nat)
         /\ Slid(Newest(v), d) = Newest(Append(v, d))
         /\ Newest(Append(v, d)) # <<>>
<1> DEFINE n == Len(v)
           W == LatencyWindow
           t == Append(v, d)
           k == IF n <= W THEN 0 ELSE n - W
           w == Newest(v)
           samples == Append(w, d)
<1>1. W \in Nat /\ W > 0 /\ n \in Nat
  BY LatencyAssumption
<1>2. /\ t \in Seq(Nat) /\ Len(t) = n + 1 /\ t[n + 1] = d
      /\ \A i \in 1..n : t[i] = v[i] /\ v[i] \in Nat
  BY AppendProperties
<1>3. /\ w \in Seq(Nat) /\ Len(w) = n - k
      /\ \A i \in 1..(n - k) : w[i] = v[i + k]
  <2>1. CASE n <= W
    BY <1>1, <2>1 DEF Newest
  <2>2. CASE ~(n <= W)
    <3>1. w = SubSeq(v, n - W + 1, n) /\ k = n - W
      BY <2>2 DEF Newest
    <3>2. w = [i \in 1..W |-> v[i + (n - W)]]
      <4>1. n - (n - W + 1) + 1 = W /\ \A i \in 1..W : i + (n - W + 1) - 1 = i + (n - W)
        BY <1>1
      <4> QED
        BY <1>1, <2>2, <3>1, <4>1
    <3>3. \A i \in 1..W : v[i + (n - W)] \in Nat
      BY <1>1, <1>2, <2>2
    <3>4. w \in Seq(Nat) /\ Len(w) = W
      BY <1>1, <3>2, <3>3
    <3>5. n - k = W
      BY <1>1, <3>1
    <3>6. \A i \in 1..W : w[i] = v[i + k]
      BY <3>1, <3>2
    <3> HIDE DEF w, k
    <3> QED
      BY <3>4, <3>5, <3>6
  <2> QED
    BY <2>1, <2>2
<1>4. k \in Nat /\ k <= n /\ n - k <= W /\ (k > 0 => n - k = W)
  BY <1>1
<1> HIDE DEF w, k, t
<1>5. /\ samples \in Seq(Nat) /\ Len(samples) = n - k + 1 /\ samples[n - k + 1] = d
      /\ \A i \in 1..(n - k) : samples[i] = w[i]
  BY <1>3, AppendProperties
<1>6. \A i \in 1..(n - k + 1) : samples[i] = t[i + k]
  <2> SUFFICES ASSUME NEW i \in 1..(n - k + 1) PROVE samples[i] = t[i + k]
    OBVIOUS
  <2>1. CASE i = n - k + 1
    <3>1. i + k = n + 1
      BY <1>1, <1>4, <2>1
    <3> QED
      BY <1>2, <1>5, <2>1, <3>1
  <2>2. CASE i # n - k + 1
    <3>1. i \in 1..(n - k) /\ i + k \in 1..n
      BY <1>1, <1>4, <2>2
    <3> QED
      BY <1>2, <1>3, <1>5, <3>1
  <2> QED
    BY <2>1, <2>2
<1> HIDE DEF samples
<1>7. CASE n + 1 <= W
  <2>1. k = 0
    BY <1>1, <1>4, <1>7
  <2>2. Slid(w, d) = samples
    <3>1. ~(Len(samples) - W > 0)
      BY <1>1, <1>4, <1>5, <1>7, <2>1
    <3> QED
      BY <3>1 DEF Slid, samples
  <2>3. Newest(t) = t
    BY <1>2, <1>7 DEF Newest
  <2>4. samples = t
    <3>1. samples = [i \in 1..(n + 1) |-> samples[i]]
      BY <1>1, <1>5, <2>1
    <3>2. t = [i \in 1..(n + 1) |-> t[i]]
      BY <1>1, <1>2
    <3>3. \A i \in 1..(n + 1) : samples[i] = t[i]
      BY <1>1, <1>6, <2>1
    <3> QED
      BY <3>1, <3>2, <3>3
  <2>5. t # <<>>
    BY <1>1, <1>2
  <2> QED
    BY <1>3, <2>2, <2>3, <2>4, <2>5 DEF t, w
<1>8. CASE ~(n + 1 <= W)
  <2>1. n - k = W /\ Len(samples) = W + 1
    <3>1. n - k = W
      BY <1>1, <1>8 DEF k
    <3> QED
      BY <1>1, <1>5, <3>1
  <2>2. Slid(w, d) = SubSeq(samples, 2, W + 1)
    <3>1. Len(samples) - W > 0 /\ Len(samples) - W + 1 = 2
      BY <1>1, <2>1
    <3> QED
      BY <2>1, <3>1 DEF Slid, samples
  <2>3. Newest(t) = SubSeq(t, (n + 1) - W + 1, n + 1)
    <3>1. Len(t) = n + 1 /\ ~(Len(t) <= W)
      BY <1>2, <1>8
    <3>2. Newest(t) = SubSeq(t, Len(t) - W + 1, Len(t))
      BY <3>1 DEF Newest
    <3> DEFINE m == n + 1
    <3>3. Len(t) = m
      BY <3>1
    <3> HIDE DEF m
    <3>4. Newest(t) = SubSeq(t, m - W + 1, m)
      BY <3>2, <3>3
    <3> QED
      BY <3>4 DEF m
  <2>4. SubSeq(samples, 2, W + 1) = [i \in 1..W |-> samples[i + 1]]
    <3>1. W + 1 - 2 + 1 = W /\ \A i \in 1..W : i + 2 - 1 = i + 1
      BY <1>1
    <3> QED
      BY <1>1, <1>5, <2>1, <3>1
  <2>5. SubSeq(t, (n + 1) - W + 1, n + 1) = [i \in 1..W |-> t[i + ((n + 1) - W)]]
    <3>1. (n + 1) - ((n + 1) - W + 1) + 1 = W /\ \A i \in 1..W : i + ((n + 1) - W + 1) - 1 = i + ((n + 1) - W)
      BY <1>1
    <3>2. (n + 1) - W + 1 \in Int /\ (n + 1) - W + 1 >= 1 /\ (n + 1) - W + 1 <= n + 1
      BY <1>1, <1>8
    <3> DEFINE from == (n + 1) - W + 1
    <3>3. SubSeq(t, from, n + 1) = [i \in 1..((n + 1) - from + 1) |-> t[i + from - 1]]
      <4> HIDE DEF from, n
      <4> QED
        BY <1>1, <1>2, <3>2 DEF from
    <3> QED
      BY <3>1, <3>3
  <2>6. \A i \in 1..W : samples[i + 1] = t[i + ((n + 1) - W)]
    <3> SUFFICES ASSUME NEW i \in 1..W PROVE samples[i + 1] = t[i + ((n + 1) - W)]
      OBVIOUS
    <3>1. i + 1 \in 1..(n - k + 1) /\ i + 1 + k = i + ((n + 1) - W)
      BY <1>1, <1>4, <2>1
    <3> QED
      BY <1>6, <3>1
  <2>7. Slid(w, d) = Newest(t)
    BY <2>2, <2>3, <2>4, <2>5, <2>6
  <2>8. Newest(t) # <<>>
    <3>1. DOMAIN Newest(t) = 1..W /\ 1 \in 1..W
      BY <1>1, <2>3, <2>5
    <3>2. DOMAIN <<>> = {}
      OBVIOUS
    <3> QED
      BY <3>1, <3>2
  <2> QED
    BY <1>3, <2>7, <2>8 DEF t, w
<1> QED
  BY <1>7, <1>8

-----------------------------------------------------------------------------
(* What the collector hears.                                                *)

Readings == Nat \cup {None}

MetricsState ==
  [requestCount : Nat, successCount : Nat, failureCount : Nat, retryCount : Nat,
   timeoutCount : Nat, failoverCount : Nat,
   latencies : Seq(Nat), averageLatency : Readings, p95Latency : Readings]

\* The type of event a counter counts.
TypeOf ==
  [requestCount |-> "REQUEST_STARTED", successCount |-> "REQUEST_COMPLETED",
   failureCount |-> "REQUEST_FAILED", retryCount |-> "RETRY_ATTEMPT",
   timeoutCount |-> "UPSTREAM_TIMEOUT", failoverCount |-> "FAILOVER_COMPLETED"]

\* The readings of a state are those of its window.
Fresh(m) ==
  IF m.latencies = <<>> THEN m.averageLatency = None /\ m.p95Latency = None
  ELSE m.averageLatency = Average(m.latencies) /\ m.p95Latency = Percentile95(m.latencies)

\* Events are counted in numbers.
LEMMA HowManyIsNumber ==
  ASSUME NEW events, IsFiniteSet(DOMAIN events), NEW type, NEW services
  PROVE  HowMany(events, type, services) \in Nat
<1>1. IsFiniteSet({i \in DOMAIN events : events[i][1] = type /\ events[i][2] \in services})
  BY FS_Subset
<1> QED
  BY <1>1, FS_CardinalityType DEF HowMany

\* Counting events changes the counters and nothing else.
LEMMA CountsGrow ==
  ASSUME NEW m \in MetricsState, NEW events, IsFiniteSet(DOMAIN events), NEW services
  PROVE  LET n == WithCounts(m, events, services) IN
         /\ n \in MetricsState
         /\ \A c \in Counts : n[c] = m[c] + HowMany(events, TypeOf[c], services)
         /\ n.latencies = m.latencies /\ n.averageLatency = m.averageLatency
         /\ n.p95Latency = m.p95Latency
<1> DEFINE n == WithCounts(m, events, services)
           k(type) == HowMany(events, type, services)
<1>1. \A type : k(type) \in Nat
  BY HowManyIsNumber
<1>2. /\ m.requestCount \in Nat /\ m.successCount \in Nat /\ m.failureCount \in Nat
      /\ m.retryCount \in Nat /\ m.timeoutCount \in Nat /\ m.failoverCount \in Nat
      /\ m.latencies \in Seq(Nat) /\ m.averageLatency \in Readings /\ m.p95Latency \in Readings
  BY DEF MetricsState
<1> DEFINE a1 == m.requestCount + k("REQUEST_STARTED")
           a2 == m.successCount + k("REQUEST_COMPLETED")
           a3 == m.failureCount + k("REQUEST_FAILED")
           a4 == m.retryCount + k("RETRY_ATTEMPT")
           a5 == m.timeoutCount + k("UPSTREAM_TIMEOUT")
           a6 == m.failoverCount + k("FAILOVER_COMPLETED")
<1>3. n = [m EXCEPT !.requestCount = a1, !.successCount = a2, !.failureCount = a3,
                    !.retryCount = a4, !.timeoutCount = a5, !.failoverCount = a6]
  BY DEF WithCounts
<1>4. a1 \in Nat /\ a2 \in Nat /\ a3 \in Nat /\ a4 \in Nat /\ a5 \in Nat /\ a6 \in Nat
  <2> HIDE DEF k
  <2>1. /\ k("REQUEST_STARTED") \in Nat /\ k("REQUEST_COMPLETED") \in Nat
        /\ k("REQUEST_FAILED") \in Nat /\ k("RETRY_ATTEMPT") \in Nat
        /\ k("UPSTREAM_TIMEOUT") \in Nat /\ k("FAILOVER_COMPLETED") \in Nat
    BY <1>1
  <2>2. \A x, y \in Nat : x + y \in Nat
    OBVIOUS
  <2> QED
    BY <1>2, <2>1, <2>2
<1> HIDE DEF n, a1, a2, a3, a4, a5, a6
<1>5. n = [requestCount |-> a1, successCount |-> a2, failureCount |-> a3,
           retryCount |-> a4, timeoutCount |-> a5, failoverCount |-> a6,
           latencies |-> m.latencies, averageLatency |-> m.averageLatency,
           p95Latency |-> m.p95Latency]
  BY <1>3 DEF MetricsState
<1>6. n \in MetricsState
  BY <1>2, <1>4, <1>5 DEF MetricsState
<1>7. \A c \in Counts : n[c] = m[c] + k(TypeOf[c])
  <2> HIDE DEF k
  <2> QED
    BY <1>5 DEF Counts, TypeOf, a1, a2, a3, a4, a5, a6
<1>8. n.latencies = m.latencies /\ n.averageLatency = m.averageLatency /\ n.p95Latency = m.p95Latency
  BY <1>5
<1> QED
  BY <1>6, <1>7, <1>8 DEF n, k

\* The readings of a window with samples are numbers.
LEMMA ReadingsAreNumbers ==
  ASSUME NEW v \in Seq(Nat), v # <<>>
  PROVE  Average(v) \in Nat /\ Percentile95(v) \in Nat
<1>1. Len(v) \in Nat /\ Len(v) > 0
  BY EmptySeq
<1>2. SumFunction(v) \in Nat
  BY SumOfArray
<1>3. Average(v) \in Nat
  <2>1. 200 * SumFunction(v) + Len(v) \in Nat /\ 2 * Len(v) \in Nat /\ 2 * Len(v) > 0
    BY <1>1, <1>2
  <2> QED
    BY <2>1, DivisionRoundsDown DEF Average
<1>4. Percentile95(v) \in Nat
  <2>1. Percentile95(v) \in {v[i] : i \in 1..Len(v)}
    BY <1>1, PercentileIsLeast
  <2> QED
    BY <2>1
<1> QED
  BY <1>3, <1>4

\* A new sample slides the window, and the readings are taken again.
LEMMA SampleTaken ==
  ASSUME NEW m \in MetricsState, NEW d \in Nat, Slid(m.latencies, d) \in Seq(Nat),
         Slid(m.latencies, d) # <<>>
  PROVE  LET n == Refreshed(WithLatency(m, d)) IN
         /\ n \in MetricsState
         /\ \A c \in Counts : n[c] = m[c]
         /\ n.latencies = Slid(m.latencies, d)
         /\ Fresh(n)
<1> DEFINE w == WithLatency(m, d)
           v == Slid(m.latencies, d)
           n == Refreshed(w)
<1>1. w = [m EXCEPT !.latencies = v]
  BY DEF WithLatency, Slid
<1>2. /\ m.requestCount \in Nat /\ m.successCount \in Nat /\ m.failureCount \in Nat
      /\ m.retryCount \in Nat /\ m.timeoutCount \in Nat /\ m.failoverCount \in Nat
      /\ m.latencies \in Seq(Nat) /\ m.averageLatency \in Readings /\ m.p95Latency \in Readings
  BY DEF MetricsState
<1> HIDE DEF v, w
<1>3. w.latencies = v
  BY <1>1 DEF MetricsState
<1>4. n = [w EXCEPT !.averageLatency = Average(v), !.p95Latency = Percentile95(v)]
  <2>1. w.latencies # <<>>
    BY <1>3 DEF v
  <2> QED
    BY <1>3, <2>1 DEF Refreshed, Average
<1> HIDE DEF n
<1>5. Average(v) \in Readings /\ Percentile95(v) \in Readings
  BY ReadingsAreNumbers DEF v, Readings
<1>6. v \in Seq(Nat) /\ v # <<>>
  BY DEF v
<1>7. n = [requestCount |-> m.requestCount, successCount |-> m.successCount,
           failureCount |-> m.failureCount, retryCount |-> m.retryCount,
           timeoutCount |-> m.timeoutCount, failoverCount |-> m.failoverCount,
           latencies |-> v, averageLatency |-> Average(v), p95Latency |-> Percentile95(v)]
  BY <1>1, <1>4 DEF MetricsState
<1>8. n \in MetricsState
  BY <1>2, <1>5, <1>6, <1>7 DEF MetricsState
<1>9. (\A c \in Counts : n[c] = m[c]) /\ n.latencies = v
  BY <1>7 DEF Counts
<1>10. Fresh(n)
  BY <1>6, <1>7 DEF Fresh
<1> QED
  BY <1>8, <1>9, <1>10 DEF n, v, w

\* The statistics m are those of some durations.
Current(m, durations) == m.latencies = Newest(durations) /\ Fresh(m)

\* observe(): the counters grow by what was heard, and the readings follow the
\* durations of the requests that ended.
LEMMA ObserveKeeps ==
  ASSUME NEW m \in MetricsState, NEW durations \in Seq(Nat), Current(m, durations),
         NEW events, IsFiniteSet(DOMAIN events), NEW services, NEW d \in Nat
  PROVE  LET n == Observe(m, events, services, d) IN
         /\ n \in MetricsState
         /\ \A c \in Counts : n[c] = m[c] + HowMany(events, TypeOf[c], services)
         /\ Current(n, IF Ends(events, services) THEN Append(durations, d) ELSE durations)
<1> DEFINE k == WithCounts(m, events, services)
           n == Observe(m, events, services, d)
<1>1. /\ k \in MetricsState
      /\ \A c \in Counts : k[c] = m[c] + HowMany(events, TypeOf[c], services)
      /\ k.latencies = m.latencies /\ k.averageLatency = m.averageLatency
      /\ k.p95Latency = m.p95Latency
  BY CountsGrow
<1>2. n = IF Ends(events, services) THEN Refreshed(WithLatency(k, d)) ELSE k
  BY DEF Observe
<1> HIDE DEF n, k
<1>3. CASE ~Ends(events, services)
  <2>1. Current(k, durations)
    BY <1>1 DEF Current, Fresh
  <2> QED
    BY <1>1, <1>2, <1>3, <2>1 DEF n
<1>4. CASE Ends(events, services)
  <2>1. /\ Newest(durations) \in Seq(Nat)
        /\ Slid(Newest(durations), d) = Newest(Append(durations, d))
        /\ Newest(Append(durations, d)) # <<>>
    BY NewestSlides
  <2>2. Newest(Append(durations, d)) \in Seq(Nat)
    <3>1. Append(durations, d) \in Seq(Nat)
      BY AppendProperties
    <3> QED
      BY <3>1, NewestSlides
  <2>3. k.latencies = Newest(durations)
    BY <1>1 DEF Current
  <2>4. /\ n \in MetricsState
        /\ \A c \in Counts : n[c] = k[c]
        /\ n.latencies = Slid(k.latencies, d)
        /\ Fresh(n)
    BY <1>1, <1>2, <1>4, <2>1, <2>2, <2>3, SampleTaken
  <2>5. Current(n, Append(durations, d))
    BY <2>1, <2>3, <2>4 DEF Current
  <2> QED
    BY <1>1, <1>4, <2>4, <2>5 DEF n
<1> QED
  BY <1>3, <1>4

\* What is current is what RecentOf asks for.
LEMMA CurrentIsRecent ==
  ASSUME NEW m, NEW durations \in Seq(Nat), Current(m, durations)
  PROVE  RecentOf(m, durations)
<1> DEFINE v == Newest(durations)
           n == Len(v)
           S == SumFunction(v)
<1>1. v \in Seq(Nat) /\ m.latencies = v /\ n \in Nat
  BY NewestSlides DEF Current
<1>2. CASE n = 0
  <2>1. v = <<>>
    BY <1>1, <1>2, EmptySeq
  <2> QED
    BY <1>1, <1>2, <2>1 DEF RecentOf, Current, Fresh
<1>3. CASE n # 0
  <2>1. n > 0 /\ v # <<>>
    BY <1>1, <1>3, EmptySeq
  <2>2. m.averageLatency = Average(v) /\ m.p95Latency = Percentile95(v)
    BY <1>1, <2>1 DEF Current, Fresh
  <2>3. S \in Nat
    BY <1>1, SumOfArray
  <2> HIDE DEF v
  <2>4. 2 * n * Average(v) \in (200 * S - n)..(200 * S + n)
    <3> DEFINE a == 200 * S + n
               b == 2 * n
               q == a \div b
    <3>1. a \in Nat /\ b \in Nat /\ b > 0
      BY <1>1, <2>1, <2>3
    <3>2. Average(v) = q
      BY DEF Average
    <3> HIDE DEF S, n
    <3>3. q \in Nat /\ b * q <= a /\ a < b * q + b
      <4> HIDE DEF a, b
      <4> QED
        BY <3>1, DivisionRoundsDown
    <3> HIDE DEF q
    <3>4. b * q \in Nat
      BY <3>1, <3>3
    <3> DEFINE x == b * q
    <3>5. x \in Nat /\ x <= 200 * S + n /\ 200 * S + n < x + 2 * n
      BY <3>3, <3>4
    <3> HIDE DEF x
    <3>6. x \in (200 * S - n)..(200 * S + n)
      BY <1>1, <2>3, <3>5 DEF n
    <3> QED
      BY <3>2, <3>6 DEF x
  <2>5. LET Reaches95(x) == 100 * Cardinality({i \in 1..n : v[i] <= x}) >= 95 * n IN
        /\ Percentile95(v) \in {v[i] : i \in 1..n}
        /\ Reaches95(Percentile95(v))
        /\ \A i \in 1..n : v[i] < Percentile95(v) => ~Reaches95(v[i])
    BY <1>1, <2>1, PercentileIsLeast
  <2> QED
    BY <1>3, <2>2, <2>4, <2>5 DEF RecentOf, v
<1> QED
  BY <1>2, <1>3

\* Where a request ends among events, and where a failover of one is completed.
EndAt(events) == {i \in DOMAIN events : events[i][1] \in {"REQUEST_COMPLETED", "REQUEST_FAILED"}}
RecoveredAt(events) == {i \in DOMAIN events : events[i][1] = "FAILOVER_COMPLETED"}

\* At most one of the events ends a request, the last, and at most one failover
\* is completed, that of a request that ends.
Proper(events) ==
  /\ events \in Seq(EventTypes \X Services)
  /\ EndAt(events) \subseteq {Len(events)}
  /\ RecoveredAt(events) # {} => EndAt(events) # {}
  /\ \A i, j \in RecoveredAt(events) : i = j

\* A counter is a number.
LEMMA CounterIsNumber ==
  ASSUME NEW m \in MetricsState, NEW c \in Counts
  PROVE  m[c] \in Nat
<1>1. /\ m.requestCount \in Nat /\ m.successCount \in Nat /\ m.failureCount \in Nat
      /\ m.retryCount \in Nat /\ m.timeoutCount \in Nat /\ m.failoverCount \in Nat
  BY DEF MetricsState
<1> QED
  BY <1>1 DEF Counts

\* Events have finitely many positions, each of a type and of a service.
LEMMA EventsAreFinite ==
  ASSUME NEW events \in Seq(EventTypes \X Services)
  PROVE  /\ DOMAIN events = 1..Len(events) /\ Len(events) \in Nat
         /\ IsFiniteSet(DOMAIN events)
         /\ \A i \in DOMAIN events : events[i][1] \in EventTypes /\ events[i][2] \in Services
<1>1. DOMAIN events = 1..Len(events) /\ Len(events) \in Nat
  OBVIOUS
<1>2. IsFiniteSet(1..Len(events))
  BY <1>1, FS_Interval
<1>3. \A i \in DOMAIN events : events[i] \in EventTypes \X Services
  BY <1>1
<1> QED
  BY <1>1, <1>2, <1>3

\* The terminal event is counted once, with the service it belongs to, and no
\* failover is counted without it.
LEMMA EndIsCountedOnce ==
  ASSUME NEW events, Proper(events)
  PROVE  /\ HowMany(events, "REQUEST_COMPLETED", Services)
              + HowMany(events, "REQUEST_FAILED", Services)
              = IF EndAt(events) = {} THEN 0 ELSE 1
         /\ HowMany(events, "FAILOVER_COMPLETED", Services)
              <= IF EndAt(events) = {} THEN 0 ELSE 1
         /\ \A services \in SUBSET Services :
              Ends(events, services) <=> EndAt(events) # {} /\ events[Len(events)][2] \in services
         /\ EndAt(events) # {} => events[Len(events)][2] \in Services
<1> DEFINE at(type, services) ==
             {i \in DOMAIN events : events[i][1] = type /\ events[i][2] \in services}
           l == Len(events)
<1>1. /\ DOMAIN events = 1..l /\ l \in Nat /\ IsFiniteSet(DOMAIN events)
      /\ \A i \in DOMAIN events : events[i][1] \in EventTypes /\ events[i][2] \in Services
  BY EventsAreFinite DEF Proper
<1>2. \A type, services : HowMany(events, type, services) = Cardinality(at(type, services))
  BY DEF HowMany
<1>3. \A x : Cardinality({x}) = 1
  BY FS_Singleton
<1>4. Cardinality({}) = 0
  BY FS_EmptySet
<1>5. ASSUME NEW services \in SUBSET Services
      PROVE  \/ /\ EndAt(events) = {}
                /\ at("REQUEST_COMPLETED", services) = {} /\ at("REQUEST_FAILED", services) = {}
             \/ /\ EndAt(events) # {} /\ events[l][2] \notin services
                /\ at("REQUEST_COMPLETED", services) = {} /\ at("REQUEST_FAILED", services) = {}
             \/ /\ EndAt(events) # {} /\ events[l][2] \in services
                /\ \/ /\ at("REQUEST_COMPLETED", services) = {l}
                      /\ at("REQUEST_FAILED", services) = {}
                   \/ /\ at("REQUEST_COMPLETED", services) = {}
                      /\ at("REQUEST_FAILED", services) = {l}
  <2>1. CASE EndAt(events) = {}
    BY <2>1 DEF EndAt
  <2>2. CASE EndAt(events) # {}
    <3>1. EndAt(events) = {l}
      BY <2>2 DEF Proper
    <3>2. l \in DOMAIN events /\ events[l][1] \in {"REQUEST_COMPLETED", "REQUEST_FAILED"}
      BY <3>1 DEF EndAt
    <3>3. \A i \in DOMAIN events :
            i # l => events[i][1] \notin {"REQUEST_COMPLETED", "REQUEST_FAILED"}
      BY <3>1 DEF EndAt
    <3>4. CASE events[l][2] \notin services
      BY <2>2, <3>2, <3>3, <3>4
    <3>5. CASE events[l][2] \in services
      BY <2>2, <3>2, <3>3, <3>5
    <3> QED
      BY <3>4, <3>5
  <2> QED
    BY <2>1, <2>2
<1>6. EndAt(events) # {} => events[l][2] \in Services
  BY <1>1 DEF Proper, EndAt
<1> DEFINE C(services) == HowMany(events, "REQUEST_COMPLETED", services)
           F(services) == HowMany(events, "REQUEST_FAILED", services)
<1>7. \A services \in SUBSET Services :
        C(services) + F(services) = IF EndAt(events) # {} /\ events[l][2] \in services THEN 1 ELSE 0
  <2> SUFFICES ASSUME NEW services \in SUBSET Services
               PROVE  C(services) + F(services)
                        = IF EndAt(events) # {} /\ events[l][2] \in services THEN 1 ELSE 0
    OBVIOUS
  <2> HIDE DEF at, C, F
  <2>1. /\ C(services) = Cardinality(at("REQUEST_COMPLETED", services))
        /\ F(services) = Cardinality(at("REQUEST_FAILED", services))
    BY <1>2 DEF C, F
  <2>2. /\ at("REQUEST_COMPLETED", services) = {} => C(services) = 0
        /\ at("REQUEST_COMPLETED", services) = {l} => C(services) = 1
        /\ at("REQUEST_FAILED", services) = {} => F(services) = 0
        /\ at("REQUEST_FAILED", services) = {l} => F(services) = 1
    BY <1>3, <1>4, <2>1
  <2> QED
    BY <1>5, <2>2
<1>8. HowMany(events, "FAILOVER_COMPLETED", Services) <= IF EndAt(events) = {} THEN 0 ELSE 1
  <2> DEFINE R == at("FAILOVER_COMPLETED", Services)
  <2>1. R = RecoveredAt(events)
    BY <1>1 DEF RecoveredAt
  <2>2. R = {} \/ (EndAt(events) # {} /\ \E x : R = {x})
    <3> SUFFICES ASSUME RecoveredAt(events) # {}
                 PROVE  EndAt(events) # {} /\ \E x : R = {x}
      BY <2>1
    <3>1. PICK x : x \in RecoveredAt(events)
      OBVIOUS
    <3>2. EndAt(events) # {} /\ \A y \in RecoveredAt(events) : y = x
      BY <3>1 DEF Proper
    <3>3. RecoveredAt(events) = {x}
      BY <3>1, <3>2
    <3> HIDE DEF R
    <3> QED
      BY <2>1, <3>2, <3>3
  <2> HIDE DEF R
  <2>3. Cardinality(R) <= IF EndAt(events) = {} THEN 0 ELSE 1
    <3>1. CASE R = {}
      <4>1. Cardinality(R) = 0
        BY <1>4, <3>1
      <4> QED
        BY <4>1
    <3>2. CASE EndAt(events) # {} /\ \E x : R = {x}
      <4>1. Cardinality(R) = 1
        BY <1>3, <3>2
      <4> QED
        BY <3>2, <4>1
    <3> QED
      BY <2>2, <3>1, <3>2
  <2> QED
    BY <1>2, <2>3 DEF R
<1>9. \A services \in SUBSET Services : Ends(events, services) <=> C(services) + F(services) > 0
  BY DEF Ends
<1> HIDE DEF C, F
<1>10. C(Services) + F(Services) = IF EndAt(events) = {} THEN 0 ELSE 1
  BY <1>6, <1>7
<1>11. \A services \in SUBSET Services :
         Ends(events, services) <=> EndAt(events) # {} /\ events[l][2] \in services
  BY <1>7, <1>9
<1> QED
  BY <1>6, <1>8, <1>10, <1>11 DEF C, F

\* The events of all services are those of each.
LEMMA HowManyAddsUp ==
  ASSUME NEW events \in Seq(EventTypes \X Services), NEW type
  PROVE  /\ [s \in Services |-> HowMany(events, type, {s})] \in [Services -> Nat]
         /\ SumFunction([s \in Services |-> HowMany(events, type, {s})])
              = HowMany(events, type, Services)
<1> DEFINE I == {i \in DOMAIN events : events[i][1] = type}
           at == [i \in DOMAIN events |-> events[i][2]]
<1>1. IsFiniteSet(I)
  BY EventsAreFinite, FS_Subset
<1>2. IsFiniteSet(Services)
  BY LatencyAssumption
<1>3. \A services : HowMany(events, type, services) = Cardinality({i \in I : at[i] \in services})
  <2> SUFFICES ASSUME NEW services
               PROVE  HowMany(events, type, services) = Cardinality({i \in I : at[i] \in services})
    OBVIOUS
  <2>1. {i \in I : at[i] \in services}
          = {i \in DOMAIN events : events[i][1] = type /\ events[i][2] \in services}
    OBVIOUS
  <2> QED
    BY <2>1 DEF HowMany
<1> HIDE DEF I, at
<1>4. [s \in Services |-> HowMany(events, type, {s})]
        = [s \in Services |-> Cardinality({i \in I : at[i] \in {s}})]
  BY <1>3
<1>5. /\ [s \in Services |-> Cardinality({i \in I : at[i] \in {s}})] \in [Services -> Nat]
      /\ SumFunction([s \in Services |-> Cardinality({i \in I : at[i] \in {s}})])
           = Cardinality({i \in I : at[i] \in Services})
  BY <1>1, <1>2, CountsAddUp
<1>6. HowMany(events, type, Services) = Cardinality({i \in I : at[i] \in Services})
  BY <1>3
<1> QED
  BY <1>4, <1>5, <1>6

\* The books are kept: the total of a counter is the sum over the services, no
\* failover is counted without an end, and the readings are current.
Books(tot, each, answers) ==
  /\ tot \in MetricsState /\ each \in [Services -> MetricsState]
  /\ answers \in Seq(Answers)
  /\ \A c \in Counts : tot[c] = SumFunction([s \in Services |-> each[s][c]])
  /\ tot.failoverCount <= tot.successCount + tot.failureCount
  /\ Current(tot, EndedOn(answers, Services))
  /\ \A s \in Services : Current(each[s], EndedOn(answers, {s}))

\* What the collector hears of proper events keeps the books.
LEMMA BooksKept ==
  ASSUME NEW tot, NEW each, NEW answers, Books(tot, each, answers),
         NEW events, Proper(events),
         NEW d \in Nat, EndAt(events) # {} => d \in Durations
  PROVE  Books(Observe(tot, events, Services, d),
               [s \in Services |-> Observe(each[s], events, {s}, d)],
               IF EndAt(events) # {} THEN Append(answers, <<events[Len(events)][2], d>>)
               ELSE answers)
<1> DEFINE l == Len(events)
           k(type, services) == HowMany(events, type, services)
           tot1 == Observe(tot, events, Services, d)
           each1 == [s \in Services |-> Observe(each[s], events, {s}, d)]
           answers1 == IF EndAt(events) # {} THEN Append(answers, <<events[l][2], d>>) ELSE answers
<1>1. events \in Seq(EventTypes \X Services) /\ IsFiniteSet(DOMAIN events)
  BY EventsAreFinite DEF Proper
<1>2. /\ tot \in MetricsState /\ each \in [Services -> MetricsState]
      /\ answers \in Seq(Answers)
      /\ \A c \in Counts : tot[c] = SumFunction([s \in Services |-> each[s][c]])
      /\ tot.failoverCount <= tot.successCount + tot.failureCount
  BY DEF Books
<1>3. Durations \subseteq Nat /\ IsFiniteSet(Services)
  BY LatencyAssumption
<1>4. /\ \A services \in SUBSET Services :
           Ends(events, services) <=> EndAt(events) # {} /\ events[l][2] \in services
      /\ EndAt(events) # {} => events[l][2] \in Services /\ d \in Durations
  BY EndIsCountedOnce
<1>5. answers1 \in Seq(Answers)
  BY <1>2, <1>4 DEF Answers
<1>6. ASSUME NEW services
      PROVE  EndedOn(answers, services) \in Seq(Nat)
  <2>1. EndedOn(answers, services) \in Seq(Durations)
    BY <1>2, EndedOnTyped
  <2> DEFINE v == EndedOn(answers, services)
  <2> HIDE DEF v
  <2>2. v \in Seq(Nat)
    <3>1. v = [i \in 1..Len(v) |-> v[i]] /\ Len(v) \in Nat /\ \A i \in 1..Len(v) : v[i] \in Durations
      BY <2>1 DEF v
    <3> QED
      BY <1>3, <3>1
  <2> QED
    BY <2>2 DEF v
<1>7. ASSUME NEW services \in SUBSET Services
      PROVE  EndedOn(answers1, services)
               = IF Ends(events, services) THEN Append(EndedOn(answers, services), d)
                 ELSE EndedOn(answers, services)
  <2>1. CASE EndAt(events) = {}
    <3>1. answers1 = answers /\ ~Ends(events, services)
      BY <1>4, <2>1
    <3> QED
      BY <3>1
  <2>2. CASE EndAt(events) # {}
    <3>1. answers1 = Append(answers, <<events[l][2], d>>)
      BY <2>2
    <3>2. events[l][2] \in Services /\ d \in Durations
      BY <1>4, <2>2
    <3>3. Ends(events, services) <=> events[l][2] \in services
      BY <1>4, <2>2
    <3> DEFINE e == <<events[l][2], d>>
    <3>4. e \in Answers /\ answers1 = Append(answers, e)
      BY <3>1, <3>2 DEF Answers
    <3>5. (Ends(events, services) <=> e[1] \in services) /\ e[2] = d
      BY <3>3
    <3> HIDE DEF answers1, e
    <3>6. EndedOn(Append(answers, e), services)
            = IF e[1] \in services THEN Append(EndedOn(answers, services), e[2])
              ELSE EndedOn(answers, services)
      BY <1>2, <3>4, EndedOnGrows
    <3> QED
      BY <3>4, <3>5, <3>6
  <2> QED
    BY <2>1, <2>2
<1> HIDE DEF tot1, each1, answers1
<1>8. /\ tot1 \in MetricsState
      /\ \A c \in Counts : tot1[c] = tot[c] + k(TypeOf[c], Services)
      /\ Current(tot1, EndedOn(answers1, Services))
  <2>1. Current(tot, EndedOn(answers, Services)) /\ Services \in SUBSET Services
    BY DEF Books
  <2> DEFINE v == EndedOn(answers, Services)
  <2>2. v \in Seq(Nat) /\ Current(tot, v)
    BY <1>6, <2>1
  <2>3. EndedOn(answers1, Services) = IF Ends(events, Services) THEN Append(v, d) ELSE v
    BY <1>7, <2>1
  <2> HIDE DEF v, k
  <2>4. /\ tot1 \in MetricsState
        /\ \A c \in Counts : tot1[c] = tot[c] + HowMany(events, TypeOf[c], Services)
        /\ Current(tot1, IF Ends(events, Services) THEN Append(v, d) ELSE v)
    BY <1>1, <1>2, <2>2, ObserveKeeps DEF tot1
  <2> QED
    BY <2>3, <2>4 DEF k
<1>9. ASSUME NEW s \in Services
      PROVE  /\ each1[s] \in MetricsState
             /\ \A c \in Counts : each1[s][c] = each[s][c] + k(TypeOf[c], {s})
             /\ Current(each1[s], EndedOn(answers1, {s}))
  <2>1. Current(each[s], EndedOn(answers, {s})) /\ {s} \in SUBSET Services /\ each[s] \in MetricsState
    BY <1>2 DEF Books
  <2>2. each1[s] = Observe(each[s], events, {s}, d)
    BY DEF each1
  <2> DEFINE v == EndedOn(answers, {s})
             m == each[s]
             n == each1[s]
  <2>3. v \in Seq(Nat) /\ Current(m, v) /\ m \in MetricsState /\ n = Observe(m, events, {s}, d)
    BY <1>6, <2>1, <2>2
  <2>4. EndedOn(answers1, {s}) = IF Ends(events, {s}) THEN Append(v, d) ELSE v
    BY <1>7, <2>1
  <2> HIDE DEF v, k, m, n
  <2>5. /\ n \in MetricsState
        /\ \A c \in Counts : n[c] = m[c] + HowMany(events, TypeOf[c], {s})
        /\ Current(n, IF Ends(events, {s}) THEN Append(v, d) ELSE v)
    BY <1>1, <2>3, ObserveKeeps
  <2> QED
    BY <2>4, <2>5 DEF k, m, n
<1>10. each1 \in [Services -> MetricsState]
  <2>1. each1 = [s \in Services |-> each1[s]]
    BY DEF each1
  <2> QED
    BY <1>9, <2>1
<1>11. ASSUME NEW c \in Counts
       PROVE  tot1[c] = SumFunction([s \in Services |-> each1[s][c]])
  <2> DEFINE f == [s \in Services |-> each[s][c]]
             g == [s \in Services |-> k(TypeOf[c], {s})]
  <2>1. f \in [Services -> Nat]
    BY <1>2, CounterIsNumber
  <2>2. g \in [Services -> Nat] /\ SumFunction(g) = k(TypeOf[c], Services)
    BY <1>1, HowManyAddsUp
  <2>3. [s \in Services |-> each1[s][c]] = [s \in Services |-> f[s] + g[s]]
    BY <1>9
  <2>4. tot[c] = SumFunction(f)
    BY <1>2
  <2>5. tot1[c] = tot[c] + k(TypeOf[c], Services)
    BY <1>8
  <2> HIDE DEF f, g, k
  <2>6. SumFunction([s \in Services |-> f[s] + g[s]]) = SumFunction(f) + SumFunction(g)
    BY <1>3, <2>1, <2>2, SumAdds
  <2> QED
    BY <2>2, <2>3, <2>4, <2>5, <2>6
<1>12. tot1.failoverCount <= tot1.successCount + tot1.failureCount
  <2>1. /\ tot1.failoverCount = tot.failoverCount + k("FAILOVER_COMPLETED", Services)
        /\ tot1.successCount = tot.successCount + k("REQUEST_COMPLETED", Services)
        /\ tot1.failureCount = tot.failureCount + k("REQUEST_FAILED", Services)
    BY <1>8 DEF Counts, TypeOf
  <2>2. /\ tot.failoverCount \in Nat /\ tot.successCount \in Nat /\ tot.failureCount \in Nat
    BY <1>2 DEF MetricsState
  <2>3. /\ k("FAILOVER_COMPLETED", Services) \in Nat /\ k("REQUEST_COMPLETED", Services) \in Nat
        /\ k("REQUEST_FAILED", Services) \in Nat
    BY <1>1, HowManyIsNumber
  <2>4. k("FAILOVER_COMPLETED", Services)
          <= k("REQUEST_COMPLETED", Services) + k("REQUEST_FAILED", Services)
    BY EndIsCountedOnce
  <2> HIDE DEF k
  <2> QED
    BY <1>2, <2>1, <2>2, <2>3, <2>4
<1>13. Books(tot1, each1, answers1)
  BY <1>5, <1>8, <1>9, <1>10, <1>11, <1>12 DEF Books, answers1
<1> QED
  BY <1>13 DEF tot1, each1, answers1

-----------------------------------------------------------------------------
(* The requests answered before the beginning.                              *)

\* Every set of positions has a last one.
LEMMA LastPosition ==
  ASSUME NEW n \in Nat, NEW T \in SUBSET (1..n), T # {}
  PROVE  Max(T) \in T /\ \A y \in T : y <= Max(T)
<1> DEFINE L == {k \in Nat : n - k \in T}
<1>1. L # {}
  <2>1. PICK x \in T : TRUE
    OBVIOUS
  <2>2. n - x \in Nat /\ n - (n - x) = x
    BY <2>1
  <2> QED
    BY <2>1, <2>2
<1>2. PICK k \in L : \A m \in L : k <= m
  <2>1. L \subseteq Nat
    OBVIOUS
  <2> HIDE DEF L
  <2> QED
    BY <1>1, <2>1, LeastNumber
<1>3. n - k \in T /\ \A y \in T : n - k >= y
  <2> SUFFICES ASSUME NEW y \in T PROVE n - k >= y
    BY <1>2
  <2>1. n - y \in L
    <3>1. n - y \in Nat /\ n - (n - y) = y
      OBVIOUS
    <3> QED
      BY <3>1
  <2>2. k <= n - y
    BY <1>2, <2>1
  <2> QED
    BY <1>2, <2>2
<1>4. Max(T) \in T /\ \A y \in T : Max(T) >= y
  BY <1>3 DEF Max
<1>5. \A y \in T : y \in Int
  OBVIOUS
<1>6. Max(T) \in Int
  BY <1>4, <1>5
<1> HIDE DEF L
<1> QED
  BY <1>4, <1>5, <1>6

\* What the collector heard of a request of Past.
PastEvents(e) == <<<<"REQUEST_STARTED", e[1]>>, <<"REQUEST_COMPLETED", e[1]>>>>

\* A request of Past started and ended.
LEMMA PastIsProper ==
  ASSUME NEW e \in Answers
  PROVE  /\ Proper(PastEvents(e))
         /\ EndAt(PastEvents(e)) = {2} /\ Len(PastEvents(e)) = 2
         /\ PastEvents(e)[2][2] = e[1] /\ e[2] \in Durations
         /\ HowMany(PastEvents(e), "REQUEST_STARTED", Services) = 1
<1> DEFINE events == PastEvents(e)
<1>1. e[1] \in Services /\ e[2] \in Durations
  BY DEF Answers
<1>2. /\ "REQUEST_STARTED" \in EventTypes /\ "REQUEST_COMPLETED" \in EventTypes
  BY DEF EventTypes
<1>3. /\ Len(events) = 2 /\ DOMAIN events = {1, 2}
      /\ events[1] = <<"REQUEST_STARTED", e[1]>> /\ events[2] = <<"REQUEST_COMPLETED", e[1]>>
  BY DEF PastEvents
<1>4. events \in Seq(EventTypes \X Services)
  BY <1>1, <1>2 DEF PastEvents
<1> HIDE DEF events
<1>5. /\ events[1][1] = "REQUEST_STARTED" /\ events[2][1] = "REQUEST_COMPLETED"
      /\ events[1][2] = e[1] /\ events[2][2] = e[1]
  BY <1>3
<1>6. EndAt(events) = {2} /\ RecoveredAt(events) = {}
  BY <1>3, <1>5 DEF EndAt, RecoveredAt
<1>7. Proper(events)
  BY <1>3, <1>4, <1>6 DEF Proper
<1>8. HowMany(events, "REQUEST_STARTED", Services) = 1
  <2>1. {i \in DOMAIN events : events[i][1] = "REQUEST_STARTED" /\ events[i][2] \in Services} = {1}
    BY <1>1, <1>3, <1>5
  <2> QED
    BY <2>1, FS_Singleton DEF HowMany
<1> QED
  BY <1>1, <1>3, <1>5, <1>6, <1>7, <1>8 DEF events

\* g has the states of some services after each request of Past.
Replays(g, services) ==
  /\ g[0] = NewState
  /\ \A k \in 1..Len(Past) :
       g[k] = Observe(g[k - 1], PastEvents(Past[k]), services, Past[k][2])
  /\ AfterPast(services) = g[Len(Past)]

\* The collector's states after nothing happened.
LEMMA NothingHeard ==
  /\ NewState \in MetricsState
  /\ Current(NewState, <<>>)
  /\ \A c \in Counts : NewState[c] = 0
  /\ NewState.requestCount = 0 /\ NewState.successCount = 0 /\ NewState.failureCount = 0
<1>1. NewState \in MetricsState
  <2>1. None \in Readings /\ 0 \in Nat /\ <<>> \in Seq(Nat)
    BY DEF Readings
  <2> HIDE DEF Readings
  <2> QED
    BY <2>1 DEF NewState, MetricsState
<1>2. Current(NewState, <<>>)
  <2>1. Newest(<<>>) = <<>>
    <3>1. Len(<<>>) <= LatencyWindow
      BY LatencyAssumption
    <3> QED
      BY <3>1 DEF Newest
  <2> QED
    BY <2>1 DEF Current, Fresh, NewState
<1>3. \A c \in Counts : NewState[c] = 0
  BY DEF Counts, NewState
<1> QED
  BY <1>1, <1>2, <1>3 DEF NewState

\* AfterPast replays Past, one request after the other.
LEMMA PastIsReplayed ==
  ASSUME NEW services \in SUBSET Services
  PROVE  \E g : Replays(g, services)
<1> DEFINE n == Len(Past)
           D == 1..n
           Reachable == {m \in MetricsState : \E v \in Seq(Nat) : Current(m, v)}
           after(m, i) == Observe(m, PastEvents(Past[i]), services, Past[i][2])
           pick == [T \in SUBSET D |-> Max(T)]
           step == [i \in D |-> [m \in Reachable |-> after(m, i)]]
           Iterates(h) == h = [T \in SUBSET D |-> IF T = {} THEN NewState
                                                  ELSE after(h[T \ {Max(T)}], Max(T))]
<1>1. n \in Nat /\ DOMAIN Past = D /\ \A i \in D : Past[i] \in Answers
  <2>1. Past \in Seq(Answers)
    BY LatencyAssumption DEF Answers
  <2> QED
    BY <2>1
<1>2. ASSUME NEW m \in Reachable, NEW i \in D PROVE after(m, i) \in Reachable
  <2>1. PICK v \in Seq(Nat) : Current(m, v)
    OBVIOUS
  <2> DEFINE events == PastEvents(Past[i])
             d == Past[i][2]
  <2>2. Proper(events) /\ d \in Durations
    BY <1>1, PastIsProper
  <2>3. IsFiniteSet(DOMAIN events) /\ d \in Nat
    BY <2>2, EventsAreFinite, LatencyAssumption DEF Proper
  <2>4. m \in MetricsState
    OBVIOUS
  <2> HIDE DEF events, d
  <2>5. /\ Observe(m, events, services, d) \in MetricsState
        /\ Current(Observe(m, events, services, d),
                   IF Ends(events, services) THEN Append(v, d) ELSE v)
    BY <2>1, <2>3, <2>4, ObserveKeeps
  <2>6. (IF Ends(events, services) THEN Append(v, d) ELSE v) \in Seq(Nat)
    BY <2>1, <2>3
  <2> QED
    BY <2>5, <2>6 DEF events, d
<1>3. NewState \in Reachable
  <2>1. <<>> \in Seq(Nat)
    OBVIOUS
  <2> QED
    BY <2>1, NothingHeard
<1> HIDE DEF Reachable
<1>4. \A T \in SUBSET D : T # {} => Max(T) \in T /\ Max(T) \in D /\ T \ {Max(T)} \in SUBSET D
  BY <1>1, LastPosition
<1>5. PICK f : Folding(f, D, Reachable, NewState, pick, step)
  <2>1. \A T \in SUBSET D : T # {} => pick[T] \in T
    BY <1>4
  <2>2. step \in [D -> [Reachable -> Reachable]]
    <3> HIDE DEF after
    <3> QED
      BY <1>2
  <2>3. IsFiniteSet(D)
    BY <1>1, FS_Interval
  <2> HIDE DEF D, pick, step
  <2> QED
    BY <1>3, <2>1, <2>2, <2>3, FoldExists
<1> DEFINE h == CHOOSE h : Iterates(h)
<1>6. Iterates(h)
  <2>1. Iterates(f)
    <3>1. f = [T \in SUBSET D |-> f[T]]
      BY <1>5 DEF Folding
    <3>2. ASSUME NEW T \in SUBSET D
          PROVE  f[T] = IF T = {} THEN NewState ELSE after(f[T \ {Max(T)}], Max(T))
      <4>1. CASE T = {}
        BY <1>5, <4>1 DEF Folding
      <4>2. CASE T # {}
        <5>1. f[T] = step[pick[T]][f[T \ {pick[T]}]]
          BY <1>5, <4>2 DEF Folding
        <5>2. pick[T] = Max(T) /\ Max(T) \in D
          BY <1>4, <4>2
        <5>3. f[T \ {Max(T)}] \in Reachable
          BY <1>4, <1>5, <4>2 DEF Folding
        <5>4. step[Max(T)][f[T \ {Max(T)}]] = after(f[T \ {Max(T)}], Max(T))
          <6> HIDE DEF after
          <6> QED
            BY <5>2, <5>3
        <5> HIDE DEF step, pick, after
        <5> QED
          BY <4>2, <5>1, <5>2, <5>4
      <4> QED
        BY <4>1, <4>2
    <3> HIDE DEF after
    <3> QED
      BY <3>1, <3>2
  <2> HIDE DEF Iterates
  <2> QED
    BY <2>1
<1>7. AfterPast(services) = h[D]
  BY <1>1 DEF AfterPast, FoldLeft, MapThenFoldSet, PastEvents
<1> HIDE DEF h
<1> DEFINE g == [k \in 0..n |-> h[1..k]]
<1>8. g[0] = NewState
  <2>1. 1..0 = {} /\ {} \in SUBSET D /\ g[0] = h[1..0]
    BY <1>1
  <2> HIDE DEF after
  <2>2. h[{}] = NewState
    BY <1>6
  <2> QED
    BY <2>1, <2>2
<1>9. ASSUME NEW k \in 1..n PROVE g[k] = after(g[k - 1], k)
  <2>1. g[k] = h[1..k] /\ g[k - 1] = h[1..(k - 1)]
    BY <1>1
  <2>2. (1..k) \in SUBSET D /\ (1..k) # {} /\ k \in 1..k
    <3>1. k \in 1..k /\ \A j \in 1..k : j \in 1..n
      BY <1>1
    <3> QED
      BY <3>1
  <2>3. Max(1..k) = k
    <3>1. Max(1..k) \in 1..k /\ \A y \in 1..k : y <= Max(1..k)
      BY <1>1, <2>2, LastPosition
    <3>2. k <= Max(1..k) /\ Max(1..k) <= k /\ Max(1..k) \in Int /\ k \in Int
      BY <2>2, <3>1
    <3> HIDE DEF D
    <3> QED
      BY <3>2
  <2>4. (1..k) \ {k} = 1..(k - 1)
    BY <1>1
  <2> HIDE DEF after, g
  <2>5. h[1..k] = after(h[(1..k) \ {Max(1..k)}], Max(1..k))
    BY <1>6, <2>2
  <2> QED
    BY <2>1, <2>3, <2>4, <2>5
<1>10. g[n] = h[D]
  BY <1>1
<1> HIDE DEF g
<1>11. Replays(g, services)
  BY <1>7, <1>8, <1>9, <1>10 DEF Replays
<1> QED
  BY <1>11

-----------------------------------------------------------------------------
(* The account of the requests.                                             *)

\* The slots of requests in progress.
Busy == {r \in Requests : Active(req[r])}

\* The inductive invariant of the counters and the readings.
MInv ==
  /\ IInv /\ StoryInv
  /\ Books(totals, metrics, ended)
  /\ crashed \in Nat
  /\ totals.requestCount =
       totals.successCount + totals.failureCount + crashed + Cardinality(Busy)

\* Before anything is heard the books are empty.
LEMMA EmptyBooks ==
  Books(NewState, [s \in Services |-> NewState], <<>>)
<1> DEFINE each == [s \in Services |-> NewState]
<1>1. /\ NewState \in MetricsState /\ Current(NewState, <<>>)
      /\ \A c \in Counts : NewState[c] = 0
      /\ NewState.failoverCount = 0 /\ NewState.successCount = 0 /\ NewState.failureCount = 0
  BY NothingHeard DEF NewState
<1>2. <<>> \in Seq(Answers)
  OBVIOUS
<1>3. \A services : EndedOn(<<>>, services) = <<>>
  <2> SUFFICES ASSUME NEW services PROVE EndedOn(<<>>, services) = <<>>
    OBVIOUS
  <2> DEFINE none == <<>>
             P == {i \in DOMAIN none : none[i][1] \in services}
             own == Kept(none, P)
  <2>1. none \in Seq(Answers) /\ P \in SUBSET (1..Len(none)) /\ Len(none) = 0
    OBVIOUS
  <2>2. EndedOn(none, services) = [i \in DOMAIN own |-> own[i][2]]
    BY DEF EndedOn
  <2>3. own \in Seq(Answers) /\ Len(own) <= 0
    <3> HIDE DEF none, P
    <3> QED
      BY <2>1, KeptIsSelection
  <2> HIDE DEF own
  <2>4. own = <<>>
    BY <2>3, EmptySeq
  <2> QED
    BY <2>2, <2>4
<1>4. ASSUME NEW c \in Counts
      PROVE  NewState[c] = SumFunction([s \in Services |-> each[s][c]])
  <2> DEFINE f == [s \in Services |-> each[s][c]]
             w == [T \in SUBSET Services |-> 0]
  <2>1. \A s \in Services : f[s] = 0
    BY <1>1
  <2>2. f \in [Services -> Nat]
    BY <2>1
  <2>3. IsFiniteSet(Services)
    BY LatencyAssumption
  <2>4. w[{}] = 0
    OBVIOUS
  <2>5. \A T \in SUBSET Services : T # {} => w[T] = f[Pick(T)] + w[T \ {Pick(T)}]
    <3> SUFFICES ASSUME NEW T \in SUBSET Services, T # {}
                 PROVE  w[T] = f[Pick(T)] + w[T \ {Pick(T)}]
      OBVIOUS
    <3>1. Pick(T) \in Services /\ T \ {Pick(T)} \in SUBSET Services
      BY DEF Pick
    <3>2. f[Pick(T)] = 0 /\ w[T] = 0 /\ w[T \ {Pick(T)}] = 0
      BY <2>1, <3>1
    <3> QED
      BY <3>2
  <2>6. w[Services] = 0
    OBVIOUS
  <2> HIDE DEF f, w
  <2>7. SumFunction(f) = w[Services]
    BY <2>2, <2>3, <2>4, <2>5, SumIs
  <2> QED
    BY <1>1, <2>6, <2>7 DEF f
<1>5. each \in [Services -> MetricsState] /\ \A s \in Services : each[s] = NewState
  BY <1>1
<1> HIDE DEF each
<1>6. Books(NewState, each, <<>>)
  BY <1>1, <1>2, <1>3, <1>4, <1>5 DEF Books
<1> QED
  BY <1>6 DEF each

\* The books are in order after Past, and no request of it is missing.
LEMMA PastIsBooked ==
  /\ Books(AfterPast(Services), [s \in Services |-> AfterPast({s})], Past)
  /\ AfterPast(Services).requestCount
       = AfterPast(Services).successCount + AfterPast(Services).failureCount
<1> DEFINE n == Len(Past)
           all(k) == SubSeq(Past, 1, k)
<1>1. n \in Nat /\ Past \in Seq(Answers) /\ \A k \in 1..n : Past[k] \in Answers
  BY LatencyAssumption DEF Answers
<1>2. PICK g : Replays(g, Services)
  BY PastIsReplayed
<1> DEFINE own == [s \in Services |-> CHOOSE h : Replays(h, {s})]
<1>3. \A s \in Services : Replays(own[s], {s})
  <2>1. \A s \in Services : \E h : Replays(h, {s})
    BY PastIsReplayed
  <2> QED
    BY <2>1
<1> HIDE DEF own
<1> DEFINE each(k) == [s \in Services |-> own[s][k]]
           Right(k) == /\ Books(g[k], each(k), all(k))
                       /\ g[k].requestCount = g[k].successCount + g[k].failureCount
           Reached == {k \in Nat : k <= n => Right(k)}
<1>4. 0 \in Reached
  <2>1. g[0] = NewState /\ \A s \in Services : own[s][0] = NewState
    BY <1>2, <1>3 DEF Replays
  <2>2. each(0) = [s \in Services |-> NewState]
    BY <2>1
  <2>3. all(0) = <<>>
    BY <1>1
  <2>4. g[0].requestCount = g[0].successCount + g[0].failureCount
    BY <2>1, NothingHeard
  <2> HIDE DEF each, all
  <2> QED
    BY <2>1, <2>2, <2>3, <2>4, EmptyBooks
<1>5. ASSUME NEW k \in Nat, k \in Reached PROVE k + 1 \in Reached
  <2> SUFFICES ASSUME k + 1 <= n PROVE Right(k + 1)
    OBVIOUS
  <2> DEFINE e == Past[k + 1]
             events == PastEvents(e)
             d == e[2]
  <2>1. Right(k) /\ k + 1 \in 1..n /\ (k + 1) - 1 = k /\ e \in Answers
    BY <1>1, <1>5
  <2>2. /\ Proper(events) /\ EndAt(events) # {} /\ events[Len(events)][2] = e[1]
        /\ d \in Durations /\ d \in Nat
        /\ HowMany(events, "REQUEST_STARTED", Services) = 1
    BY <2>1, PastIsProper, LatencyAssumption
  <2>3. g[k + 1] = Observe(g[k], events, Services, d)
    BY <1>2, <2>1 DEF Replays
  <2>4. \A s \in Services : own[s][k + 1] = Observe(own[s][k], events, {s}, d)
    BY <1>3, <2>1 DEF Replays
  <2>5. all(k + 1) = Append(all(k), <<events[Len(events)][2], d>>)
    <3>1. e = <<e[1], e[2]>>
      BY <2>1 DEF Answers
    <3>2. all(k + 1) = Append(all(k), e)
      BY <1>1, <2>1, AppendProperties
    <3> QED
      BY <2>2, <3>1, <3>2
  <2>6. each(k + 1) = [s \in Services |-> Observe(each(k)[s], events, {s}, d)]
    BY <2>4
  <2> HIDE DEF each, all, events, d
  <2>7. Books(g[k], each(k), all(k))
    BY <2>1
  <2>8. Books(Observe(g[k], events, Services, d),
              [s \in Services |-> Observe(each(k)[s], events, {s}, d)],
              IF EndAt(events) # {} THEN Append(all(k), <<events[Len(events)][2], d>>) ELSE all(k))
    BY <2>2, <2>7, BooksKept
  <2>9. Books(g[k + 1], each(k + 1), all(k + 1))
    BY <2>2, <2>3, <2>5, <2>6, <2>8
  <2>10. g[k + 1].requestCount = g[k + 1].successCount + g[k + 1].failureCount
    <3> DEFINE m == g[k]
               p == g[k + 1]
               v == EndedOn(all(k), Services)
               c(type) == HowMany(events, type, Services)
    <3>1. m \in MetricsState /\ Current(m, v) /\ all(k) \in Seq(Answers)
      BY <2>7 DEF Books
    <3>2. v \in Seq(Nat)
      <4>1. v \in Seq(Durations) /\ Durations \subseteq Nat
        BY <3>1, EndedOnTyped, LatencyAssumption
      <4> HIDE DEF v
      <4>2. v = [i \in 1..Len(v) |-> v[i]] /\ Len(v) \in Nat /\ \A i \in 1..Len(v) : v[i] \in Durations
        BY <4>1
      <4> QED
        BY <4>1, <4>2
    <3>3. IsFiniteSet(DOMAIN events)
      BY <2>2, EventsAreFinite DEF Proper
    <3> HIDE DEF m, p, v
    <3>4. \A x \in Counts : p[x] = m[x] + c(TypeOf[x])
      BY <2>2, <2>3, <3>1, <3>2, <3>3, ObserveKeeps DEF p, m
    <3>5. /\ p.requestCount = m.requestCount + c("REQUEST_STARTED")
          /\ p.successCount = m.successCount + c("REQUEST_COMPLETED")
          /\ p.failureCount = m.failureCount + c("REQUEST_FAILED")
      BY <3>4 DEF Counts, TypeOf
    <3>6. c("REQUEST_COMPLETED") + c("REQUEST_FAILED") = 1
      BY <2>2, EndIsCountedOnce
    <3>7. m.requestCount \in Nat /\ m.successCount \in Nat /\ m.failureCount \in Nat
      BY <3>1 DEF MetricsState
    <3>8. c("REQUEST_COMPLETED") \in Nat /\ c("REQUEST_FAILED") \in Nat
      BY <3>3, HowManyIsNumber
    <3>9. m.requestCount = m.successCount + m.failureCount
      BY <2>1 DEF m
    <3>10. c("REQUEST_STARTED") = 1
      BY <2>2
    <3> HIDE DEF c
    <3>11. p.requestCount = p.successCount + p.failureCount
      BY <3>5, <3>6, <3>7, <3>8, <3>9, <3>10
    <3> QED
      BY <3>11 DEF p
  <2> QED
    BY <2>9, <2>10
<1> HIDE DEF Reached
<1>6. n \in Reached
  BY <1>1, <1>4, <1>5, SetInduction
<1>7. Right(n)
  BY <1>1, <1>6 DEF Reached
<1>8. g[n] = AfterPast(Services) /\ \A s \in Services : own[s][n] = AfterPast({s})
  BY <1>2, <1>3 DEF Replays
<1>9. each(n) = [s \in Services |-> AfterPast({s})]
  BY <1>8
<1>10. all(n) = Past
  BY <1>1
<1> HIDE DEF each, all
<1> QED
  BY <1>7, <1>8, <1>9, <1>10

\* The collector starts with its books in order.
LEMMA MInitBooks == MInit => MInv
<1> SUFFICES ASSUME MInit PROVE MInv
  OBVIOUS
<1>1. IInv
  BY InitEstablishesIInv DEF MInit
<1>2. StoryInv
  BY DEF MInit, Init, StoryInv, Story
<1>3. Busy = {}
  BY DEF MInit, Init, Busy, Active, Unused
<1>4. Cardinality(Busy) = 0
  BY <1>3, FS_EmptySet
<1>5. /\ Books(totals, metrics, ended) /\ crashed = 0
      /\ totals.requestCount = totals.successCount + totals.failureCount
  BY PastIsBooked DEF MInit
<1>6. totals.successCount \in Nat /\ totals.failureCount \in Nat
  BY <1>5 DEF Books, MetricsState
<1> QED
  BY <1>1, <1>2, <1>4, <1>5, <1>6 DEF MInv

-----------------------------------------------------------------------------
(* What a step adds to the log of its request.                              *)

\* The log of p is that of q with events added, none of them a start.
Grows(q, p) ==
  /\ Len(q.log) \in Nat /\ Len(p.log) \in Nat /\ Len(q.log) <= Len(p.log)
  /\ \A i \in 1..Len(q.log) : p.log[i] = q.log[i]
  /\ \A i \in 1..Len(p.log) : i > Len(q.log) => p.log[i][1] # "REQUEST_STARTED"

\* A log that did not change has grown by nothing.
LEMMA SameLogGrows ==
  ASSUME NEW q \in Request, NEW p, p.log = q.log
  PROVE  Grows(q, p)
<1>1. q.log \in Seq(EventTypes \X Services)
  BY DEF Request
<1>2. Len(q.log) \in Nat
  BY <1>1
<1> QED
  BY <1>2 DEF Grows

\* A log that grew can grow on.
LEMMA GrowsOn ==
  ASSUME NEW q, NEW p, NEW s, Grows(q, p), Grows(p, s)
  PROVE  Grows(q, s)
<1>1. /\ Len(q.log) \in Nat /\ Len(p.log) \in Nat /\ Len(s.log) \in Nat
      /\ Len(q.log) <= Len(p.log) /\ Len(p.log) <= Len(s.log)
  BY DEF Grows
<1>2. \A i \in 1..Len(q.log) : i \in 1..Len(p.log)
  BY <1>1
<1>3. \A i \in 1..Len(q.log) : s.log[i] = q.log[i]
  BY <1>2 DEF Grows
<1>4. \A i \in 1..Len(s.log) : i > Len(q.log) => s.log[i][1] # "REQUEST_STARTED"
  <2> SUFFICES ASSUME NEW i \in 1..Len(s.log), i > Len(q.log)
               PROVE  s.log[i][1] # "REQUEST_STARTED"
    OBVIOUS
  <2>1. CASE i > Len(p.log)
    BY <2>1 DEF Grows
  <2>2. CASE i \in 1..Len(p.log)
    BY <2>2 DEF Grows
  <2> QED
    BY <1>1, <2>1, <2>2
<1> QED
  BY <1>1, <1>3, <1>4 DEF Grows

\* Recording any other event than a start makes the log grow.
LEMMA EmitGrows ==
  ASSUME NEW q, Running(q), NEW i \in 1..Len(q.group),
         NEW type \in EventTypes \ {"REQUEST_STARTED"}
  PROVE  Grows(q, Emit(q, type, i))
<1> DEFINE e == Emit(q, type, i)
           entry == <<type, Provider(q, i)>>
<1>1. q.log \in Seq(EventTypes \X Services) /\ entry \in EventTypes \X Services
  BY ProviderIsService DEF Running, Request
<1>2. e.log = Append(q.log, entry)
  BY DEF Emit, Running, Request
<1>3. entry[1] # "REQUEST_STARTED"
  OBVIOUS
<1> HIDE DEF e, entry
<1>4. /\ Len(q.log) \in Nat /\ Len(e.log) = Len(q.log) + 1
      /\ \A k \in 1..Len(q.log) : e.log[k] = q.log[k]
      /\ e.log[Len(q.log) + 1] = entry
  BY <1>1, <1>2, AppendProperties
<1>5. \A k \in 1..Len(e.log) : k > Len(q.log) => k = Len(q.log) + 1
  BY <1>4
<1>6. Grows(q, e)
  BY <1>3, <1>4, <1>5 DEF Grows
<1> QED
  BY <1>6 DEF e

\* The events of an attempt.
LEMMA ObservedGrows ==
  ASSUME NEW q, Placed(q), NEW o, NEW retried \in BOOLEAN
  PROVE  Grows(q, Observed(q, o, retried))
<1> DEFINE told == IF retried THEN Emit(q, "RETRY_ATTEMPT", q.at) ELSE q
<1>1. Running(q) /\ q.at \in 1..Len(q.group) /\ q \in Request
  BY DEF Placed, Running
<1>2. /\ "RETRY_ATTEMPT" \in EventTypes \ {"REQUEST_STARTED"}
      /\ "UPSTREAM_TIMEOUT" \in EventTypes \ {"REQUEST_STARTED"}
  BY DEF EventTypes
<1>3. Running(told) /\ told.group = q.group
  BY <1>1, <1>2, EmitKeeps
<1>4. Grows(q, told)
  BY <1>1, <1>2, EmitGrows, SameLogGrows
<1>5. Observed(q, o, retried) = IF o = "timeout" THEN Emit(told, "UPSTREAM_TIMEOUT", q.at) ELSE told
  BY DEF Observed
<1> HIDE DEF told
<1>6. Grows(told, Emit(told, "UPSTREAM_TIMEOUT", q.at))
  BY <1>1, <1>2, <1>3, EmitGrows
<1> QED
  BY <1>4, <1>5, <1>6, GrowsOn

\* Leaving a provider.
LEMMA LeftGrows ==
  ASSUME NEW q, Running(q), NEW i \in 1..Len(q.group), NEW why \in Reasons
  PROVE  Grows(q, Left(q, i, why))
<1> DEFINE noted == [q EXCEPT !.reason = IF q.reason = None THEN why ELSE q.reason,
                              !.used = q.used + 1]
<1>1. q \in Request
  BY DEF Running
<1>2. /\ noted \in Request /\ noted.group = q.group /\ noted.selected = q.selected
      /\ noted.log = q.log
  <2>1. q.used + 1 \in Nat
    BY <1>1 DEF Request
  <2>2. (IF q.reason = None THEN why ELSE q.reason) \in Reasons \cup {None}
    BY <1>1 DEF Request
  <2> QED
    BY <1>1, <2>1, <2>2 DEF Request
<1>3. Running(noted)
  BY <1>2 DEF Running
<1>4. Left(q, i, why) = IF i = 1 THEN Emit(noted, "FAILOVER_STARTED", 1) ELSE noted
  BY DEF Left
<1> HIDE DEF noted
<1>5. Grows(q, noted)
  BY <1>1, <1>2, SameLogGrows
<1>6. CASE i = 1
  <2>1. 1 \in 1..Len(noted.group) /\ "FAILOVER_STARTED" \in EventTypes \ {"REQUEST_STARTED"}
    BY <1>2, <1>6 DEF EventTypes
  <2>2. Grows(noted, Emit(noted, "FAILOVER_STARTED", 1))
    BY <1>3, <2>1, EmitGrows
  <2> QED
    BY <1>4, <1>5, <1>6, <2>2, GrowsOn
<1>7. CASE i # 1
  BY <1>4, <1>5, <1>7
<1> QED
  BY <1>6, <1>7

\* The end of a request.
LEMMA FinishedGrows ==
  ASSUME NEW q, Running(q)
  PROVE  Grows(q, Finished(q))
<1> DEFINE told == IF q.selected > 1 THEN Emit(q, "FAILOVER_COMPLETED", 1) ELSE q
           answer == IF q.selected = 0 THEN "CIRCUIT_OPEN" ELSE ResponseTo(q.outcome)
           done == [told EXCEPT !.phase = "done", !.response = answer]
           type == IF q.selected # 0 /\ q.outcome = "success"
                   THEN "REQUEST_COMPLETED" ELSE "REQUEST_FAILED"
           server == IF q.selected = 0 THEN 1 ELSE q.selected
<1>1. 1 \in 1..Len(q.group) /\ q \in Request
  BY GatewayAssumption DEF Running
<1>2. "FAILOVER_COMPLETED" \in EventTypes \ {"REQUEST_STARTED"}
  BY DEF EventTypes
<1>3. Running(told) /\ told.group = q.group /\ told.selected = q.selected
  BY <1>1, <1>2, EmitKeeps
<1>4. Grows(q, told)
  BY <1>1, <1>2, EmitGrows, SameLogGrows
<1>5. answer \in Responses
  BY DEF Responses, ResponseTo
<1>6. type \in EventTypes \ {"REQUEST_STARTED"}
  BY DEF EventTypes
<1>7. server \in 1..Len(q.group)
  BY <1>1 DEF Running
<1>8. Finished(q) = Emit(done, type, server)
  BY DEF Finished, Concluded
<1> HIDE DEF told, answer, type, server
<1>9. /\ done \in Request /\ done.group = q.group /\ done.selected = q.selected
      /\ done.log = told.log
  BY <1>3, <1>5 DEF Running, Request
<1>10. Running(done) /\ told \in Request
  BY <1>3, <1>9 DEF Running
<1> HIDE DEF done
<1>11. Grows(told, done)
  BY <1>9, <1>10, SameLogGrows
<1>12. Grows(done, Emit(done, type, server))
  BY <1>6, <1>7, <1>9, <1>10, EmitGrows
<1> QED
  BY <1>4, <1>8, <1>11, <1>12, GrowsOn

\* The loop's turn to a fallback.
LEMMA OnwardGrows ==
  ASSUME NEW q, Running(q), NEW i \in Nat, i > 0
  PROVE  Grows(q, Onward(q, i))
<1>1. q \in Request /\ Len(q.group) \in Nat
  BY GatewayAssumption DEF Running
<1>2. CASE i > Len(q.group)
  BY <1>2, FinishedGrows DEF Onward
<1>3. CASE i \in 1..Len(q.group)
  <2>1. \A why \in {"CIRCUIT_OPEN", "UNHEALTHY", "BUDGET_EXHAUSTED"} :
          Grows(q, Finished(Skipped(q, i, why)))
    <3> SUFFICES ASSUME NEW why \in {"CIRCUIT_OPEN", "UNHEALTHY", "BUDGET_EXHAUSTED"}
                 PROVE  Grows(q, Finished(Skipped(q, i, why)))
      OBVIOUS
    <3>1. Running(Skipped(q, i, why))
      BY <1>3, SkippedKeeps
    <3>2. Skipped(q, i, why).log = q.log
      BY <1>1 DEF Skipped, Request
    <3> QED
      BY <1>1, <3>1, <3>2, SameLogGrows, FinishedGrows, GrowsOn
  <2>2. Executing(q, i).log = q.log
    BY <1>1 DEF Executing, Request
  <2>3. \/ Onward(q, i) = Executing(q, i)
        \/ \E why \in {"CIRCUIT_OPEN", "UNHEALTHY", "BUDGET_EXHAUSTED"} :
             Onward(q, i) = Finished(Skipped(q, i, why))
    BY <1>1, <1>3 DEF Onward
  <2> QED
    BY <1>1, <2>1, <2>2, <2>3, SameLogGrows
<1> QED
  BY <1>1, <1>2, <1>3

\* A step that takes a request on: to where it is still in progress, or to its
\* end; what was told before stays.
TakenOn(r, q, p) ==
  /\ req' = [req EXCEPT ![r] = p]
  /\ p \in Request
  /\ Grows(q, p)
  /\ (Active(p) /\ Open(p)) \/ Told(p)

\* What the loop's turn to the next provider does is such a step.
LEMMA OnwardTakesOn ==
  ASSUME NEW q, NEW n \in Nat, Behind(q, n), n \in 1..Len(q.group)
  PROVE  LET p == Onward(q, n + 1) IN
         /\ p \in Request
         /\ Grows(q, p)
         /\ (Active(p) /\ Open(p)) \/ Told(p)
<1> DEFINE p == Onward(q, n + 1)
<1>1. Running(q) /\ n + 1 \in Nat /\ n + 1 > 0
  BY DEF Behind, Trailed
<1>2. p \in Request /\ Grows(q, p)
  BY <1>1, OnwardEnds, OnwardGrows
<1>3. Story(p) /\ (Active(p) \/ Told(p))
  BY OnwardStory
<1> HIDE DEF p
<1>4. Active(p) => Open(p)
  BY <1>3 DEF Story, Underway, Behind, Trailed, Told, Answered, Active, Unused
<1> QED
  BY <1>2, <1>3, <1>4 DEF p

\* A request that arrives has told its start and nothing else.
LEMMA StartedLog ==
  ASSUME NEW g \in Groups
  PROVE  /\ Started(g) \in Request
         /\ Len(Started(g).log) = 1 /\ Started(g).log[1][1] = "REQUEST_STARTED"
<1> DEFINE fresh == [group |-> g, phase |-> "attempting", at |-> 1, attempt |-> 1,
                     used |-> 0, reason |-> None, selected |-> 0, outcome |-> None,
                     trail |-> <<>>, log |-> <<>>, response |-> None]
           entry == <<"REQUEST_STARTED", Provider(fresh, 1)>>
<1>1. Started(g).log = Append(<<>>, entry)
  BY DEF Started, Emit
<1>2. entry[1] = "REQUEST_STARTED"
  OBVIOUS
<1>3. Started(g) \in Request
  BY StartedIsPlaced DEF Placed, Running
<1> HIDE DEF entry
<1> QED
  BY <1>1, <1>2, <1>3

\* An arrival, admitted or rejected by its primary, starts and goes on.
LEMMA ArriveTakesOn ==
  ASSUME IInv, StoryInv, NEW r \in Requests, NEW g \in Groups,
         Arrive(r, g) \/ ArriveRejected(r, g)
  PROVE  ~Active(req[r]) /\ \E p : TakenOn(r, Started(g), p)
<1>1. ~Active(req[r])
  BY DEF Arrive, ArriveRejected
<1>2. Started(g) \in Request /\ Placed(Started(g)) /\ Active(Started(g))
  BY StartedLog, StartedIsPlaced
<1>3. CASE Arrive(r, g)
  <2>1. Open(Started(g))
    BY StartedStory DEF Behind, Trailed
  <2>2. Grows(Started(g), Started(g))
    BY <1>2, SameLogGrows
  <2>3. req' = [req EXCEPT ![r] = Started(g)]
    BY <1>3 DEF Arrive
  <2>4. TakenOn(r, Started(g), Started(g))
    BY <1>2, <2>1, <2>2, <2>3 DEF TakenOn
  <2> QED
    BY <1>1, <2>4
<1>4. CASE ArriveRejected(r, g)
  <2> DEFINE s == Started(g)
             kept == Skipped(s, 1, "CIRCUIT_OPEN")
             q == RejectedStart(g)
             p == Onward(q, 2)
  <2>1. Behind(q, 1) /\ q.group = g /\ 1 \in 1..Len(g)
    BY RejectedStory, RejectedStartRuns, GatewayAssumption
  <2>2. /\ p \in Request /\ Grows(q, p)
        /\ (Active(p) /\ Open(p)) \/ Told(p)
    BY <2>1, 1 + 1 = 2, OnwardTakesOn
  <2>3. Running(s) /\ s \in Request /\ s.group = g
    BY StartedIsPlaced DEF Placed, Running
  <2>4. Grows(s, q)
    <3>1. Running(kept) /\ kept.group = g
      BY <2>1, <2>3, SkippedKeeps
    <3>2. kept.log = s.log
      <4> HIDE DEF s
      <4> QED
        BY <2>3 DEF Skipped, Request
    <3>3. q = Left(kept, 1, "CIRCUIT_OPEN") /\ "CIRCUIT_OPEN" \in Reasons
      BY DEF RejectedStart, Reasons
    <3> HIDE DEF kept, s, q
    <3>4. Grows(kept, q)
      BY <2>1, <3>1, <3>3, LeftGrows
    <3>5. Grows(s, kept)
      BY <2>3, <3>2, SameLogGrows
    <3> QED
      BY <3>4, <3>5, GrowsOn
  <2>5. req' = [req EXCEPT ![r] = p]
    BY <1>4 DEF ArriveRejected, RejectedStart
  <2> HIDE DEF s, q, p
  <2>6. Grows(s, p)
    BY <2>2, <2>4, GrowsOn
  <2>7. TakenOn(r, s, p)
    BY <2>2, <2>5, <2>6 DEF TakenOn
  <2> QED
    BY <1>1, <2>7 DEF s
<1> QED
  BY <1>3, <1>4

\* A retried attempt.
LEMMA AttemptFailsTakesOn ==
  ASSUME IInv, StoryInv, NEW r \in Requests, AttemptFails(r)
  PROVE  \E p : TakenOn(r, req[r], p)
<1>1. PICK o \in Outcomes, late \in BOOLEAN :
        /\ req[r].phase = "attempting"
        /\ req' = [req EXCEPT ![r] = [Observed(req[r], o, TRUE) EXCEPT !.phase = "backoff"]]
  BY DEF AttemptFails
<1> DEFINE n == req[r].at - 1
           seen == Observed(req[r], o, TRUE)
           p == [seen EXCEPT !.phase = "backoff"]
<1>2. Placed(req[r]) /\ Behind(req[r], n)
  BY <1>1, ActiveStory DEF Active
<1>3. Behind(seen, n) /\ Running(seen) /\ Grows(req[r], seen)
  BY <1>2, ObservedBehind, ObservedKeeps, ObservedGrows DEF Placed
<1>4. req' = [req EXCEPT ![r] = p]
  BY <1>1
<1> HIDE DEF seen, n
<1>5. p \in Request /\ p.phase = "backoff" /\ p.log = seen.log /\ seen \in Request
  BY <1>3 DEF Running, Request
<1> HIDE DEF p
<1>6. Open(p)
  BY <1>3, <1>5 DEF Behind, Trailed, Open, PositionsOf
<1>7. Grows(req[r], p)
  BY <1>3, <1>5, SameLogGrows, GrowsOn
<1>8. TakenOn(r, req[r], p)
  BY <1>4, <1>5, <1>6, <1>7 DEF TakenOn, Active
<1> QED
  BY <1>8

\* A backoff that is over.
LEMMA BackoffOverTakesOn ==
  ASSUME IInv, StoryInv, NEW r \in Requests, BackoffOver(r)
  PROVE  \E p : TakenOn(r, req[r], p)
<1> DEFINE n == req[r].at - 1
           p == [req[r] EXCEPT !.phase = "attempting", !.attempt = req[r].attempt + 1]
<1>1. /\ Placed(req[r]) /\ req[r] \in Request /\ req[r].phase = "backoff"
      /\ Behind(req[r], n)
  BY ActiveStory DEF Active, BackoffOver, IInv
<1>2. req' = [req EXCEPT ![r] = p]
  BY <1>1 DEF BackoffOver, IInv
<1>3. req[r].attempt + 1 \in 0..MaxAttempts
  BY <1>1, GatewayAssumption DEF Placed, Request
<1>4. p \in Request /\ p.phase = "attempting" /\ p.log = req[r].log
  BY <1>1, <1>3 DEF Request
<1> HIDE DEF p, n
<1>5. Open(p)
  BY <1>1, <1>4 DEF Behind, Trailed, Open, PositionsOf
<1>6. Grows(req[r], p)
  BY <1>1, <1>4, SameLogGrows
<1>7. TakenOn(r, req[r], p)
  BY <1>2, <1>4, <1>5, <1>6 DEF TakenOn, Active
<1> QED
  BY <1>7

\* What an attempt that is the last on its provider adds to the log.
LEMMA AttemptGrows ==
  ASSUME IInv, StoryInv, NEW r \in Requests, req[r].phase = "attempting",
         NEW o \in Outcomes
  PROVE  LET ran == Ran(Observed(req[r], o, FALSE), req[r].at, o) IN
         Running(ran) /\ ran.group = req[r].group /\ Grows(req[r], ran)
<1> DEFINE seen == Observed(req[r], o, FALSE)
           ran == Ran(seen, req[r].at, o)
<1>1. Placed(req[r])
  BY ActiveStory DEF Active
<1>2. Running(seen) /\ seen.group = req[r].group /\ Grows(req[r], seen)
  BY <1>1, ObservedKeeps, ObservedGrows
<1>3. req[r].at \in 1..Len(seen.group)
  BY <1>1, <1>2 DEF Placed
<1> HIDE DEF seen
<1>4. Running(ran) /\ ran.group = seen.group
  BY <1>2, <1>3, RanKeeps
<1>5. seen \in Request /\ ran.log = seen.log
  BY <1>2 DEF Running, Ran, Request
<1> HIDE DEF ran
<1>6. Grows(req[r], ran)
  BY <1>2, <1>5, SameLogGrows, GrowsOn
<1> QED
  BY <1>2, <1>4, <1>6 DEF ran, seen

\* An outcome that settles the request.
LEMMA SettleTakesOn ==
  ASSUME IInv, StoryInv, NEW r \in Requests, Settle(r)
  PROVE  Active(req[r]) /\ \E p : TakenOn(r, req[r], p)
<1>1. PICK o \in Outcomes, late \in BOOLEAN :
        /\ req[r].phase = "attempting"
        /\ ~FailoverEligible(o)
        /\ req' = [req EXCEPT ![r] =
                     Finished(Ran(Observed(req[r], o, FALSE), req[r].at, o))]
  BY DEF Settle
<1> DEFINE ran == Ran(Observed(req[r], o, FALSE), req[r].at, o)
           p == Finished(ran)
<1>2. Closing(ran) /\ Running(ran) /\ Grows(req[r], ran)
  BY <1>1, AttemptOutcome, AttemptGrows
<1>3. req' = [req EXCEPT ![r] = p]
  BY <1>1
<1> HIDE DEF ran
<1>4. Told(p) /\ p \in Request /\ Grows(ran, p)
  BY <1>2, FinishedTells, FinishedEnds, FinishedGrows
<1> HIDE DEF p
<1>5. Grows(req[r], p)
  BY <1>2, <1>4, GrowsOn
<1>6. TakenOn(r, req[r], p)
  BY <1>3, <1>4, <1>5 DEF TakenOn
<1> QED
  BY <1>1, <1>6 DEF Active

\* An outcome another provider may do better on.
LEMMA FailOverTakesOn ==
  ASSUME IInv, StoryInv, NEW r \in Requests, FailOver(r)
  PROVE  Active(req[r]) /\ \E p : TakenOn(r, req[r], p)
<1>1. PICK o \in Outcomes, late \in BOOLEAN :
        LET i == req[r].at
            q == Left(Ran(Observed(req[r], o, FALSE), i, o), i, FailoverReason(o))
        IN
        /\ req[r].phase = "attempting"
        /\ FailoverEligible(o)
        /\ req' = [req EXCEPT ![r] = Onward(q, i + 1)]
  BY DEF FailOver
<1> DEFINE i == req[r].at
           ran == Ran(Observed(req[r], o, FALSE), i, o)
           q == Left(ran, i, FailoverReason(o))
           p == Onward(q, i + 1)
<1>2. /\ i \in Nat /\ Leaving(ran, i) /\ (i = 1 => PrimarysReason(ran) = FailoverReason(o))
      /\ Running(ran) /\ Grows(req[r], ran)
  BY <1>1, AttemptOutcome, AttemptGrows
<1>3. req' = [req EXCEPT ![r] = p] /\ FailoverReason(o) \in Reasons
  BY <1>1, ReasonIsReason
<1> HIDE DEF ran, i
<1>4. Behind(q, i)
  BY <1>2, <1>3, LeftIsBehind
<1>5. i \in 1..Len(q.group) /\ i \in 1..Len(ran.group)
  BY <1>2, <1>3, LeftKeeps DEF Leaving, Trailed
<1>6. Grows(ran, q)
  BY <1>2, <1>3, <1>5, LeftGrows
<1> HIDE DEF q
<1>7. /\ p \in Request /\ Grows(q, p)
      /\ (Active(p) /\ Open(p)) \/ Told(p)
  BY <1>2, <1>4, <1>5, OnwardTakesOn
<1> HIDE DEF p
<1>8. Grows(req[r], p)
  BY <1>2, <1>6, <1>7, GrowsOn
<1>9. TakenOn(r, req[r], p)
  BY <1>3, <1>7, <1>8 DEF TakenOn
<1> QED
  BY <1>1, <1>9 DEF Active

\* Every step that takes a request on adds to what it told.
LEMMA ProceedTakesOn ==
  ASSUME IInv, StoryInv, NEW r \in Requests,
         AttemptFails(r) \/ BackoffOver(r) \/ Settle(r) \/ FailOver(r)
  PROVE  Active(req[r]) /\ Open(req[r]) /\ \E p : TakenOn(r, req[r], p)
<1>1. Active(req[r])
  BY DEF AttemptFails, BackoffOver, Settle, FailOver, Active
<1>2. Open(req[r])
  BY <1>1, ActiveStory DEF Behind, Trailed
<1> QED
  BY <1>1, <1>2, AttemptFailsTakesOn, BackoffOverTakesOn, SettleTakesOn, FailOverTakesOn

-----------------------------------------------------------------------------
(* What the collector makes of a step.                                      *)

\* The events of a log from some point on, with no end before it.
LEMMA EventsAreProper ==
  ASSUME NEW p \in Request, (Active(p) /\ Open(p)) \/ Told(p),
         NEW k \in 0..Len(p.log),
         \A i \in 1..k : p.log[i][1] \notin
           {"FAILOVER_COMPLETED", "REQUEST_COMPLETED", "REQUEST_FAILED"}
  PROVE  LET E == SubSeq(p.log, k + 1, Len(p.log)) IN
         /\ Proper(E)
         /\ Len(E) = Len(p.log) - k
         /\ \A i \in 1..Len(E) : E[i] = p.log[k + i]
         /\ EndAt(E) # {} <=> ~Active(p)
<1> DEFINE n == Len(p.log)
           E == SubSeq(p.log, k + 1, n)
           ends == {"REQUEST_COMPLETED", "REQUEST_FAILED"}
<1>1. p.log \in Seq(EventTypes \X Services) /\ n \in Nat /\ k \in Nat
  BY DEF Request
<1>2. E \in Seq(EventTypes \X Services) /\ Len(E) = n - k /\ \A i \in 1..Len(E) : E[i] = p.log[k + i]
  <2>1. \A i \in (k + 1)..n : p.log[i] \in EventTypes \X Services
    BY <1>1
  <2>2. k + 1 \in Int /\ n \in Int
    BY <1>1
  <2> HIDE DEF n
  <2>3. /\ E \in Seq(EventTypes \X Services)
        /\ Len(E) = IF k + 1 <= n THEN n - (k + 1) + 1 ELSE 0
        /\ \A i \in 1..(n - (k + 1) + 1) : E[i] = p.log[(k + 1) + i - 1]
    BY <2>1, <2>2, SubSeqProperties
  <2>4. Len(E) = n - k
    BY <1>1, <2>3 DEF n
  <2>5. \A i \in 1..Len(E) : i \in 1..(n - (k + 1) + 1) /\ (k + 1) + i - 1 = k + i
    BY <1>1, <2>4 DEF n
  <2> HIDE DEF E
  <2>6. \A i \in 1..Len(E) : E[i] = p.log[k + i]
    BY <2>3, <2>5
  <2> QED
    BY <2>3, <2>4, <2>6
<1>3. DOMAIN E = 1..(n - k) /\ k <= n
  BY <1>1, <1>2
<1> HIDE DEF E, n
<1>4. \A i \in DOMAIN E : k + i \in 1..n
  BY <1>1, <1>3
<1>5. CASE Active(p) /\ Open(p)
  <2>1. \A i \in 1..n : p.log[i][1] \notin
          {"FAILOVER_COMPLETED", "REQUEST_COMPLETED", "REQUEST_FAILED"}
    BY <1>5 DEF Open, PositionsOf, n
  <2>2. EndAt(E) = {} /\ RecoveredAt(E) = {}
    BY <1>2, <1>3, <1>4, <2>1 DEF EndAt, RecoveredAt
  <2> QED
    BY <1>2, <1>5, <2>2 DEF Proper, E, n
<1>6. CASE Told(p)
  <2>1. PositionsOf(p, ends) = {n} /\ \A i, j \in PositionsOf(p, {"FAILOVER_COMPLETED"}) : i = j
    BY <1>6 DEF Told, n
  <2>2. n \in 1..n /\ p.log[n][1] \in ends
    BY <2>1 DEF PositionsOf, n
  <2>3. ~(n \in 1..k)
    BY <2>2
  <2>4. n > k /\ n - k \in DOMAIN E /\ k + (n - k) = n
    BY <1>1, <1>3, <2>2, <2>3
  <2>5. n - k \in EndAt(E)
    BY <1>2, <1>3, <2>2, <2>4 DEF EndAt
  <2>6. \A i \in EndAt(E) : i = n - k
    <3> SUFFICES ASSUME NEW i \in EndAt(E) PROVE i = n - k
      OBVIOUS
    <3>1. i \in DOMAIN E /\ p.log[k + i][1] \in ends /\ i \in Int
      BY <1>2, <1>3 DEF EndAt
    <3>2. k + i \in PositionsOf(p, ends)
      BY <1>4, <3>1 DEF PositionsOf, n
    <3>3. k + i = n
      BY <2>1, <3>2
    <3> QED
      BY <1>1, <3>1, <3>3
  <2>7. \A i, j \in RecoveredAt(E) : i = j
    <3> SUFFICES ASSUME NEW i \in RecoveredAt(E), NEW j \in RecoveredAt(E) PROVE i = j
      OBVIOUS
    <3>1. \A m \in RecoveredAt(E) : /\ m \in DOMAIN E /\ m \in Int
                                    /\ p.log[k + m][1] = "FAILOVER_COMPLETED"
      BY <1>2, <1>3 DEF RecoveredAt
    <3>2. \A m \in RecoveredAt(E) : k + m \in PositionsOf(p, {"FAILOVER_COMPLETED"})
      BY <1>4, <3>1 DEF PositionsOf, n
    <3>3. k + i = k + j
      BY <2>1, <3>2
    <3> QED
      BY <1>1, <3>1, <3>3
  <2>8. ~Active(p)
    BY <1>6 DEF Told, Answered, Active
  <2>9. Proper(E)
    BY <1>2, <2>5, <2>6, <2>7 DEF Proper, n
  <2> QED
    BY <1>2, <2>5, <2>8, <2>9 DEF E, n
<1> QED
  BY <1>5, <1>6

\* How many requests are in progress after the record of one has changed.
LEMMA BusyAfter ==
  ASSUME IInv, NEW r \in Requests, NEW p, req' = [req EXCEPT ![r] = p]
  PROVE  /\ Cardinality(Busy) \in Nat /\ Cardinality(Busy') \in Nat
         /\ Cardinality(Busy') + (IF Active(req[r]) THEN 1 ELSE 0)
              = Cardinality(Busy) + (IF Active(p) THEN 1 ELSE 0)
<1> DEFINE rest == Busy \ {r}
           c == Cardinality(rest)
<1>1. \A x \in Requests : req'[x] = IF x = r THEN p ELSE req[x]
  BY DEF IInv
<1>2. Busy = IF Active(req[r]) THEN rest \cup {r} ELSE rest
  BY DEF Busy
<1>3. Busy' = IF Active(p) THEN rest \cup {r} ELSE rest
  BY <1>1 DEF Busy
<1>4. IsFiniteSet(rest)
  <2>1. rest \subseteq Requests /\ IsFiniteSet(Requests)
    BY LatencyAssumption DEF Busy
  <2> QED
    BY <2>1, FS_Subset
<1>5. c \in Nat
  BY <1>4, FS_CardinalityType
<1>6. r \notin rest
  OBVIOUS
<1> HIDE DEF rest
<1>7. Cardinality(rest \cup {r}) = c + 1
  BY <1>4, <1>6, FS_AddElement
<1>8. Cardinality(Busy) = c + (IF Active(req[r]) THEN 1 ELSE 0)
  BY <1>2, <1>5, <1>7
<1>9. Cardinality(Busy') = c + (IF Active(p) THEN 1 ELSE 0)
  BY <1>3, <1>5, <1>7
<1> HIDE DEF c
<1> QED
  BY <1>5, <1>8, <1>9

\* What the collector hears of a step keeps the books, and adds to the totals.
LEMMA HearsBooks ==
  ASSUME Books(totals, metrics, ended), NEW E, Proper(E), Hears(E)
  PROVE  /\ Books(totals', metrics', ended')
         /\ \A c \in Counts : totals'[c] = totals[c] + HowMany(E, TypeOf[c], Services)
<1>1. PICK d \in IF Ends(E, Services) THEN Durations ELSE {0} :
        /\ metrics' = [s \in Services |-> Observe(metrics[s], E, {s}, d)]
        /\ totals' = Observe(totals, E, Services, d)
        /\ ended' = IF Ends(E, Services) THEN Append(ended, <<E[Len(E)][2], d>>) ELSE ended
  BY DEF Hears
<1>2. Ends(E, Services) <=> EndAt(E) # {}
  BY EndIsCountedOnce
<1>3. d \in Nat /\ (EndAt(E) # {} => d \in Durations)
  BY <1>1, <1>2, LatencyAssumption
<1>4. ended' = IF EndAt(E) # {} THEN Append(ended, <<E[Len(E)][2], d>>) ELSE ended
  BY <1>1, <1>2
<1>5. Books(Observe(totals, E, Services, d),
            [s \in Services |-> Observe(metrics[s], E, {s}, d)],
            IF EndAt(E) # {} THEN Append(ended, <<E[Len(E)][2], d>>) ELSE ended)
  BY <1>3, BooksKept
<1>6. Books(totals', metrics', ended')
  BY <1>1, <1>4, <1>5
<1> DEFINE v == EndedOn(ended, Services)
<1>7. totals \in MetricsState /\ Current(totals, v) /\ ended \in Seq(Answers)
  BY DEF Books
<1>8. v \in Seq(Nat)
  <2>1. v \in Seq(Durations) /\ Durations \subseteq Nat
    BY <1>7, EndedOnTyped, LatencyAssumption
  <2> HIDE DEF v
  <2>2. v = [i \in 1..Len(v) |-> v[i]] /\ Len(v) \in Nat /\ \A i \in 1..Len(v) : v[i] \in Durations
    BY <2>1
  <2> QED
    BY <2>1, <2>2
<1>9. IsFiniteSet(DOMAIN E)
  BY EventsAreFinite DEF Proper
<1> HIDE DEF v
<1>10. \A c \in Counts : totals'[c] = totals[c] + HowMany(E, TypeOf[c], Services)
  BY <1>1, <1>3, <1>7, <1>8, <1>9, ObserveKeeps
<1> QED
  BY <1>6, <1>10

\* A step that tells proper events keeps the account of the requests, if those
\* it starts are in progress or ended after it.
LEMMA HearsKeeps ==
  ASSUME MInv, NEW E, Proper(E), Hears(E), IInv', StoryInv', crashed' \in Nat,
         Cardinality(Busy) \in Nat, Cardinality(Busy') \in Nat,
         crashed' + Cardinality(Busy') + (IF EndAt(E) # {} THEN 1 ELSE 0)
           = crashed + Cardinality(Busy) + HowMany(E, "REQUEST_STARTED", Services)
  PROVE  MInv'
<1> DEFINE k(type) == HowMany(E, type, Services)
           b == Cardinality(Busy)
           b1 == Cardinality(Busy')
           over == IF EndAt(E) # {} THEN 1 ELSE 0
<1>1. /\ Books(totals', metrics', ended')
      /\ \A c \in Counts : totals'[c] = totals[c] + k(TypeOf[c])
  BY HearsBooks DEF MInv
<1>2. /\ totals'.requestCount = totals.requestCount + k("REQUEST_STARTED")
      /\ totals'.successCount = totals.successCount + k("REQUEST_COMPLETED")
      /\ totals'.failureCount = totals.failureCount + k("REQUEST_FAILED")
  BY <1>1 DEF Counts, TypeOf
<1>3. totals.requestCount \in Nat /\ totals.successCount \in Nat /\ totals.failureCount \in Nat
  BY DEF MInv, Books, MetricsState
<1>4. k("REQUEST_COMPLETED") + k("REQUEST_FAILED") = over
  BY EndIsCountedOnce
<1>5. \A type : k(type) \in Nat
  BY EventsAreFinite, HowManyIsNumber DEF Proper
<1>6. /\ crashed \in Nat /\ b \in Nat /\ b1 \in Nat /\ over \in Nat
      /\ totals.requestCount = totals.successCount + totals.failureCount + crashed + b
      /\ crashed' + b1 + over = crashed + b + k("REQUEST_STARTED")
  BY DEF MInv
<1>7. k("REQUEST_STARTED") \in Nat /\ k("REQUEST_COMPLETED") \in Nat /\ k("REQUEST_FAILED") \in Nat
  BY <1>5
<1> HIDE DEF k, b, b1, over
<1>8. totals'.requestCount = totals'.successCount + totals'.failureCount + crashed' + b1
  BY <1>2, <1>3, <1>4, <1>6, <1>7
<1> QED
  BY <1>1, <1>8 DEF MInv, b1

\* Events none of which is a start count no request.
LEMMA NoStartCounted ==
  ASSUME NEW E, \A i \in DOMAIN E : E[i][1] # "REQUEST_STARTED"
  PROVE  HowMany(E, "REQUEST_STARTED", Services) = 0
<1>1. {i \in DOMAIN E : E[i][1] = "REQUEST_STARTED" /\ E[i][2] \in Services} = {}
  OBVIOUS
<1> QED
  BY <1>1, FS_EmptySet DEF HowMany

\* A request that arrives is counted once.
LEMMA MArriveKeeps ==
  ASSUME MInv, IInv', StoryInv', NEW r \in Requests, NEW g \in Groups, MArrive(r, g)
  PROVE  MInv'
<1>1. /\ IInv /\ StoryInv /\ crashed \in Nat
      /\ Arrive(r, g) \/ ArriveRejected(r, g)
      /\ Hears(req'[r].log) /\ crashed' = crashed
  BY DEF MInv, MArrive
<1> DEFINE s == Started(g)
<1>2. ~Active(req[r]) /\ \E p : TakenOn(r, s, p)
  BY <1>1, ArriveTakesOn
<1>3. PICK p : TakenOn(r, s, p)
  BY <1>2
<1>4. /\ req' = [req EXCEPT ![r] = p] /\ p \in Request /\ Grows(s, p)
      /\ (Active(p) /\ Open(p)) \/ Told(p)
  BY <1>3 DEF TakenOn
<1>5. Len(s.log) = 1 /\ s.log[1][1] = "REQUEST_STARTED"
  BY StartedLog
<1> HIDE DEF s
<1> DEFINE E == p.log
<1>6. req'[r].log = E
  BY <1>1, <1>4 DEF IInv
<1>7. E \in Seq(EventTypes \X Services) /\ Len(E) \in Nat
  BY <1>4 DEF Request
<1>8. /\ Len(E) >= 1 /\ E[1] = s.log[1]
      /\ \A i \in 1..Len(E) : i > 1 => E[i][1] # "REQUEST_STARTED"
  BY <1>4, <1>5 DEF Grows
<1>9. Proper(E) /\ (EndAt(E) # {} <=> ~Active(p))
  <2>1. SubSeq(E, 0 + 1, Len(E)) = E
    BY <1>7
  <2>2. 0 \in 0..Len(E) /\ \A i \in 1..0 : FALSE
    BY <1>7
  <2> DEFINE F == SubSeq(p.log, 0 + 1, Len(p.log))
  <2>3. Proper(F) /\ (EndAt(F) # {} <=> ~Active(p))
    BY <1>4, <2>2, EventsAreProper
  <2>4. F = E
    BY <2>1
  <2> HIDE DEF F, E
  <2> QED
    BY <2>3, <2>4
<1> HIDE DEF E
<1>10. HowMany(E, "REQUEST_STARTED", Services) = 1
  <2>1. \A i \in DOMAIN E : E[i][2] \in Services
    BY <1>7, EventsAreFinite
  <2>2. DOMAIN E = 1..Len(E) /\ 1 \in DOMAIN E /\ E[1][1] = "REQUEST_STARTED"
    BY <1>5, <1>7, <1>8
  <2>3. \A i \in DOMAIN E : E[i][1] = "REQUEST_STARTED" => i = 1
    BY <1>7, <1>8, <2>2
  <2>4. {i \in DOMAIN E : E[i][1] = "REQUEST_STARTED" /\ E[i][2] \in Services} = {1}
    BY <2>1, <2>2, <2>3
  <2> QED
    BY <2>4, FS_Singleton DEF HowMany
<1>11. /\ Cardinality(Busy) \in Nat /\ Cardinality(Busy') \in Nat
       /\ Cardinality(Busy') = Cardinality(Busy) + (IF Active(p) THEN 1 ELSE 0)
  <2>1. /\ Cardinality(Busy) \in Nat /\ Cardinality(Busy') \in Nat
        /\ Cardinality(Busy') + 0 = Cardinality(Busy) + (IF Active(p) THEN 1 ELSE 0)
    BY <1>1, <1>2, <1>4, BusyAfter
  <2> QED
    BY <2>1
<1>12. crashed' + Cardinality(Busy') + (IF EndAt(E) # {} THEN 1 ELSE 0)
         = crashed + Cardinality(Busy) + HowMany(E, "REQUEST_STARTED", Services)
  BY <1>1, <1>9, <1>10, <1>11
<1>13. Hears(E) /\ crashed' \in Nat
  BY <1>1, <1>6
<1> QED
  BY <1>9, <1>11, <1>12, <1>13, HearsKeeps

\* A request that goes on is counted when it ends.
LEMMA MProceedKeeps ==
  ASSUME MInv, IInv', StoryInv', NEW r \in Requests, MProceed(r)
  PROVE  MInv'
<1>1. /\ IInv /\ StoryInv /\ crashed \in Nat
      /\ AttemptFails(r) \/ BackoffOver(r) \/ Settle(r) \/ FailOver(r)
      /\ Hears(Added(r)) /\ crashed' = crashed
  BY DEF MInv, MProceed
<1> DEFINE q == req[r]
           k == Len(q.log)
<1>2. Active(q) /\ Open(q) /\ \E p : TakenOn(r, q, p)
  BY <1>1, ProceedTakesOn
<1>3. PICK p : TakenOn(r, q, p)
  BY <1>2
<1>4. /\ req' = [req EXCEPT ![r] = p] /\ p \in Request /\ Grows(q, p)
      /\ (Active(p) /\ Open(p)) \/ Told(p)
  BY <1>3 DEF TakenOn
<1> DEFINE E == SubSeq(p.log, k + 1, Len(p.log))
<1>5. Added(r) = E
  <2>1. req'[r] = p
    BY <1>1, <1>4 DEF IInv
  <2> QED
    BY <2>1 DEF Added
<1>6. /\ k \in 0..Len(p.log)
      /\ \A i \in 1..k : p.log[i] = q.log[i]
      /\ \A i \in 1..Len(p.log) : i > k => p.log[i][1] # "REQUEST_STARTED"
  BY <1>4 DEF Grows
<1>7. \A i \in 1..k : p.log[i][1] \notin
        {"FAILOVER_COMPLETED", "REQUEST_COMPLETED", "REQUEST_FAILED"}
  BY <1>2, <1>6 DEF Open, PositionsOf
<1> HIDE DEF k, q
<1>8. /\ Proper(E) /\ (EndAt(E) # {} <=> ~Active(p))
      /\ Len(E) = Len(p.log) - k /\ \A i \in 1..Len(E) : E[i] = p.log[k + i]
  BY <1>4, <1>6, <1>7, EventsAreProper
<1> HIDE DEF E
<1>9. HowMany(E, "REQUEST_STARTED", Services) = 0
  <2>1. DOMAIN E = 1..Len(E)
    BY <1>8 DEF Proper
  <2>2. \A i \in 1..Len(E) : k + i \in 1..Len(p.log) /\ k + i > k
    BY <1>6, <1>8
  <2>3. \A i \in DOMAIN E : E[i][1] # "REQUEST_STARTED"
    BY <1>6, <1>8, <2>1, <2>2
  <2> QED
    BY <2>3, NoStartCounted
<1>10. /\ Cardinality(Busy) \in Nat /\ Cardinality(Busy') \in Nat
       /\ Cardinality(Busy') + 1 = Cardinality(Busy) + (IF Active(p) THEN 1 ELSE 0)
  BY <1>1, <1>2, <1>4, BusyAfter DEF q
<1>11. crashed' + Cardinality(Busy') + (IF EndAt(E) # {} THEN 1 ELSE 0)
         = crashed + Cardinality(Busy) + HowMany(E, "REQUEST_STARTED", Services)
  BY <1>1, <1>8, <1>9, <1>10
<1>12. Hears(E) /\ crashed' \in Nat
  BY <1>1, <1>5
<1> QED
  BY <1>8, <1>10, <1>11, <1>12, HearsKeeps

\* A request that crashes tells nothing, and is one of the crashed.
LEMMA MCrashKeeps ==
  ASSUME MInv, IInv', StoryInv', NEW r \in Requests, MCrash(r)
  PROVE  MInv'
<1> DEFINE none == <<>>
           p == [req[r] EXCEPT !.phase = "done", !.response = "INTERNAL_ERROR"]
<1>1. /\ IInv /\ crashed \in Nat /\ Crash(r) /\ Hears(none) /\ crashed' = crashed + 1
  BY DEF MInv, MCrash
<1>2. req[r] \in Request /\ Active(req[r]) /\ req' = [req EXCEPT ![r] = p]
  BY <1>1 DEF IInv, Crash, Active
<1>3. ~Active(p)
  BY <1>2 DEF Request, Active
<1>4. none \in Seq(EventTypes \X Services) /\ DOMAIN none = {}
  OBVIOUS
<1> HIDE DEF none, p
<1>5. EndAt(none) = {} /\ RecoveredAt(none) = {}
  BY <1>4 DEF EndAt, RecoveredAt
<1>6. Proper(none)
  BY <1>4, <1>5 DEF Proper
<1>7. HowMany(none, "REQUEST_STARTED", Services) = 0
  BY <1>4, NoStartCounted
<1>8. /\ Cardinality(Busy) \in Nat /\ Cardinality(Busy') \in Nat
      /\ Cardinality(Busy') + 1 = Cardinality(Busy)
  <2>1. /\ Cardinality(Busy) \in Nat /\ Cardinality(Busy') \in Nat
        /\ Cardinality(Busy') + 1 = Cardinality(Busy) + 0
    BY <1>1, <1>2, <1>3, BusyAfter
  <2> QED
    BY <2>1
<1>9. crashed' + Cardinality(Busy') + (IF EndAt(none) # {} THEN 1 ELSE 0)
        = crashed + Cardinality(Busy) + HowMany(none, "REQUEST_STARTED", Services)
  BY <1>1, <1>5, <1>7, <1>8
<1>10. crashed' \in Nat
  BY <1>1
<1> QED
  BY <1>1, <1>6, <1>8, <1>9, <1>10, HearsKeeps

\* Every step keeps the books and the account.
LEMMA MNextKeeps == MInv /\ [MNext]_mvars => MInv'
<1> SUFFICES ASSUME MInv, [MNext]_mvars PROVE MInv'
  OBVIOUS
<1>1. [Next]_gvars
  BY DEF MNext, MArrive, MProceed, MCrash, MOther, Next, AttemptEnds, mvars, gvars
<1>2. IInv' /\ StoryInv'
  BY <1>1, NextPreservesIInv, NextKeepsStories DEF MInv
<1>3. ASSUME UNCHANGED <<req, metrics, totals, crashed, ended>> PROVE MInv'
  <2>1. Busy' = Busy
    BY <1>3 DEF Busy
  <2>2. Books(totals', metrics', ended')
    BY <1>3 DEF MInv
  <2> QED
    BY <1>2, <1>3, <2>1, <2>2 DEF MInv
<1>4. ASSUME MOther PROVE MInv'
  BY <1>3, <1>4 DEF MOther, Tick, HealthChanges
<1>5. CASE UNCHANGED mvars
  BY <1>3, <1>5 DEF mvars
<1> QED
  BY <1>2, <1>4, <1>5, MArriveKeeps, MProceedKeeps, MCrashKeeps DEF MNext

\* The totals balance and every reading is that of the newest answers, for all
\* services, groups, slots, windows and histories, whatever the interleaving.
\* metricsCollector.service.ts:48-163; gateway.controller.ts:125-135, 229-284.
THEOREM TotalsBalanceHolds == MSpec => []TotalsBalance
<1>1. MInv => TotalsBalance
  <2> SUFFICES ASSUME MInv PROVE TotalsBalance
    OBVIOUS
  <2>1. /\ Books(totals, metrics, ended)
        /\ totals.requestCount =
             totals.successCount + totals.failureCount + crashed
               + Cardinality({r \in Requests : Active(req[r])})
    BY DEF MInv, Busy
  <2>2. ended \in Seq(Answers)
    BY <2>1 DEF Books
  <2>3. ASSUME NEW services PROVE EndedOn(ended, services) \in Seq(Nat)
    <3> DEFINE v == EndedOn(ended, services)
    <3>1. v \in Seq(Durations) /\ Durations \subseteq Nat
      BY <2>2, EndedOnTyped, LatencyAssumption
    <3> HIDE DEF v
    <3>2. v = [i \in 1..Len(v) |-> v[i]] /\ Len(v) \in Nat /\ \A i \in 1..Len(v) : v[i] \in Durations
      BY <3>1
    <3>3. v \in Seq(Nat)
      BY <3>1, <3>2
    <3> QED
      BY <3>3 DEF v
  <2>4. RecentOf(totals, EndedOn(ended, Services))
    BY <2>1, <2>3, CurrentIsRecent DEF Books
  <2>5. \A s \in Services : RecentOf(metrics[s], EndedOn(ended, {s}))
    BY <2>1, <2>3, CurrentIsRecent DEF Books
  <2>6. /\ totals.failoverCount <= totals.successCount + totals.failureCount
        /\ \A count \in Counts :
             totals[count] = SumFunction([s \in Services |-> metrics[s][count]])
    BY <2>1 DEF Books
  <2> QED
    BY <2>1, <2>4, <2>5, <2>6 DEF TotalsBalance
<1> QED
  BY <1>1, MInitBooks, MNextKeeps, PTL DEF MSpec

=============================================================================
