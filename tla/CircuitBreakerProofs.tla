------------------------- MODULE CircuitBreakerProofs -------------------------
(***************************************************************************)
(* Theorems about CircuitBreaker for every set of services and calls and   *)
(* every threshold, cool-off and probe limit.  The inductive invariant is  *)
(* TypeOK together with CircuitConsistent; the first lemmas say what each  *)
(* operation does to one circuit.  The second half is about the history of *)
(* CircuitHistory: the slots are accounted for and the streak is counted.  *)
(***************************************************************************)
EXTENDS CircuitHistory, FiniteSetTheorems, TLAPS

\* What the operations preserve: a circuit of the right type whose fields agree.
Sound(c) == c \in Circuit /\ Consistent(c)

-----------------------------------------------------------------------------

\* A new runtime (createRuntime) is sound.
LEMMA NewIsSound == Sound(NewCircuit)
  BY CircuitAssumption DEF Sound, Consistent, Circuit, NewCircuit

\* canRequest() keeps a circuit sound: the slot it reserves was free.
LEMMA CanRequestIsSound ==
  ASSUME NEW c, Sound(c)
  PROVE  Sound(AfterCanRequest(c))
  BY CircuitAssumption
  DEF Sound, Consistent, Circuit, AfterCanRequest, HasFreeProbe, Woken, CoolOffElapsed, Transition

\* recordSuccess() keeps a circuit sound.
LEMMA SuccessIsSound ==
  ASSUME NEW c, Sound(c)
  PROVE  Sound(AfterSuccess(c))
  BY CircuitAssumption, NewIsSound
  DEF Sound, Consistent, Circuit, AfterSuccess, Transition, NewCircuit, Released

\* recordFailure() keeps a circuit sound: a closed circuit that reaches its
\* threshold is not closed any more.
LEMMA FailureIsSound ==
  ASSUME NEW c, Sound(c)
  PROVE  Sound(AfterFailure(c))
<1>1. c \in Circuit /\ Consistent(c)
  BY DEF Sound
<1>2. CASE c.state = "HALF_OPEN"
  <2>1. AfterFailure(c) =
          [state |-> "OPEN", failureCount |-> Counted(c.failureCount),
           openAge |-> 0, activeProbes |-> 0]
    BY <1>1, <1>2 DEF AfterFailure, Transition, Circuit
  <2> QED
    BY <1>1, <2>1, CircuitAssumption DEF Sound, Consistent, Circuit, Counted
<1>3. CASE c.state = "OPEN"
  BY <1>1, <1>3 DEF AfterFailure, Sound
<1>4. CASE c.state = "CLOSED"
  <2>1. Counted(c.failureCount) = c.failureCount + 1
    BY <1>1, <1>4, CircuitAssumption DEF Counted, Consistent, Circuit
  <2>2. CASE c.failureCount + 1 >= FailureThreshold
    <3>1. AfterFailure(c) =
            [state |-> "OPEN", failureCount |-> c.failureCount + 1,
             openAge |-> 0, activeProbes |-> 0]
      BY <1>1, <1>4, <2>1, <2>2 DEF AfterFailure, Transition, Circuit
    <3> QED
      BY <1>1, <1>4, <3>1, CircuitAssumption DEF Sound, Consistent, Circuit
  <2>3. CASE ~(c.failureCount + 1 >= FailureThreshold)
    <3>1. AfterFailure(c) = [c EXCEPT !.failureCount = c.failureCount + 1]
      BY <1>1, <1>4, <2>1, <2>3 DEF AfterFailure, Circuit
    <3> QED
      BY <1>1, <1>4, <2>3, <3>1, CircuitAssumption DEF Sound, Consistent, Circuit
  <2> QED
    BY <2>2, <2>3
<1> QED
  BY <1>1, <1>2, <1>3, <1>4 DEF Circuit

\* The clock keeps a circuit sound.
LEMMA AgingIsSound ==
  ASSUME NEW c, Sound(c)
  PROVE  Sound(Aged(c))
  BY CircuitAssumption DEF Sound, Consistent, Circuit, Aged

-----------------------------------------------------------------------------
(* What the operations do to the fields the history watches.                *)

\* canRequest() takes a slot exactly when it admits into HALF_OPEN, and a
\* rejection changes nothing.
LEMMA AdmissionEffect ==
  ASSUME NEW c, Sound(c)
  PROVE  LET d == AfterCanRequest(c) IN
         /\ d.failureCount = c.failureCount
         /\ d.state = "CLOSED" <=> c.state = "CLOSED"
         /\ Admits(c) /\ d.state = "HALF_OPEN" => d.activeProbes = c.activeProbes + 1
         /\ ~Admits(c) => d = c
<1>1. c \in Circuit /\ Consistent(c)
  BY DEF Sound
<1>2. CASE CoolOffElapsed(c)
  <2>1. Woken(c) = [c EXCEPT !.state = "HALF_OPEN"]
    BY <1>1, <1>2 DEF Woken, Transition, CoolOffElapsed
  <2>2. HasFreeProbe(Woken(c))
    BY <1>1, <1>2, <2>1, CircuitAssumption
    DEF HasFreeProbe, Consistent, Circuit, CoolOffElapsed
  <2>3. AfterCanRequest(c) = [Woken(c) EXCEPT !.activeProbes = Woken(c).activeProbes + 1]
    BY <2>2 DEF AfterCanRequest
  <2> QED
    BY <1>1, <1>2, <2>1, <2>2, <2>3 DEF Admits, Circuit, CoolOffElapsed
<1>3. CASE ~CoolOffElapsed(c)
  <2>1. Woken(c) = c
    BY <1>3 DEF Woken
  <2>2. CASE HasFreeProbe(c)
    <3>1. AfterCanRequest(c) = [c EXCEPT !.activeProbes = c.activeProbes + 1]
      BY <2>1, <2>2 DEF AfterCanRequest
    <3> QED
      BY <1>1, <2>1, <2>2, <3>1 DEF Admits, Circuit
  <2>3. CASE ~HasFreeProbe(c)
    <3>1. AfterCanRequest(c) = c
      BY <2>1, <2>3 DEF AfterCanRequest
    <3> QED
      BY <1>1, <2>1, <2>3, <3>1 DEF Admits, HasFreeProbe
  <2> QED
    BY <2>2, <2>3
<1> QED
  BY <1>2, <1>3

\* recordSuccess() ends a half-open period and the streak.
LEMMA SuccessEffect ==
  ASSUME NEW c, Sound(c)
  PROVE  /\ AfterSuccess(c).state # "HALF_OPEN"
         /\ AfterSuccess(c).failureCount = 0
  BY DEF Sound, Circuit, AfterSuccess, Transition, NewCircuit

\* recordFailure() ends a half-open period, and counts unless the circuit is
\* OPEN already.
LEMMA FailureEffect ==
  ASSUME NEW c, Sound(c)
  PROVE  /\ AfterFailure(c).state # "HALF_OPEN"
         /\ AfterFailure(c).failureCount \in {c.failureCount, Counted(c.failureCount)}
         /\ AfterFailure(c).state = "CLOSED" =>
              /\ c.state = "CLOSED"
              /\ AfterFailure(c).failureCount = Counted(c.failureCount)
<1>1. c \in Circuit
  BY DEF Sound
<1>2. CASE c.state = "HALF_OPEN"
  <2>1. AfterFailure(c) =
          [state |-> "OPEN", failureCount |-> Counted(c.failureCount),
           openAge |-> 0, activeProbes |-> 0]
    BY <1>1, <1>2 DEF AfterFailure, Transition, Circuit
  <2> QED
    BY <2>1
<1>3. CASE c.state = "OPEN"
  BY <1>1, <1>3 DEF AfterFailure
<1>4. CASE c.state = "CLOSED"
  <2> DEFINE counted == [c EXCEPT !.failureCount = Counted(c.failureCount)]
  <2>1. AfterFailure(c) = IF counted.failureCount >= FailureThreshold
                          THEN Transition(counted, "OPEN") ELSE counted
    BY <1>4 DEF AfterFailure
  <2>2. counted.state = "CLOSED" /\ counted.failureCount = Counted(c.failureCount)
    BY <1>1, <1>4 DEF Circuit
  <2>3. Transition(counted, "OPEN").state = "OPEN"
        /\ Transition(counted, "OPEN").failureCount = Counted(c.failureCount)
    BY <1>1, <1>4 DEF Transition, Circuit
  <2> QED
    BY <1>4, <2>1, <2>2, <2>3
<1> QED
  BY <1>1, <1>2, <1>3, <1>4 DEF Circuit

\* A tick changes no more than the age.
LEMMA AgingEffect ==
  ASSUME NEW c, Sound(c)
  PROVE  /\ Aged(c).state = c.state
         /\ Aged(c).failureCount = c.failureCount
         /\ Aged(c).activeProbes = c.activeProbes
  BY DEF Sound, Circuit, Aged

-----------------------------------------------------------------------------

IInv == TypeOK /\ CircuitConsistent

-----------------------------------------------------------------------------

\* Initially every circuit is a new runtime.
LEMMA InitEstablishesIInv == Init => IInv
  BY NewIsSound, CallAssumption DEF Init, IInv, TypeOK, CircuitConsistent, Sound

\* Every operation of the breaker and every tick preserves the invariant.
LEMMA NextPreservesIInv == IInv /\ [Next]_vars => IInv'
<1> DEFINE Goal == /\ circuit' \in [Services -> Circuit]
                   /\ \A s \in Services : Sound(circuit'[s])
                   /\ serving' \in [Calls -> Services \cup {NoService}]
<1> SUFFICES ASSUME IInv, [Next]_vars PROVE Goal
  BY DEF IInv, TypeOK, CircuitConsistent, Sound
<1>1. /\ circuit \in [Services -> Circuit]
      /\ \A s \in Services : Sound(circuit[s])
      /\ serving \in [Calls -> Services \cup {NoService}]
  BY DEF IInv, TypeOK, CircuitConsistent, Sound
<1>2. ASSUME NEW k \in Calls, NEW s \in Services, CanRequest(k, s) PROVE Goal
  <2>1. Sound(AfterCanRequest(circuit[s]))
    BY <1>1, CanRequestIsSound
  <2> QED
    BY <1>1, <1>2, <2>1 DEF CanRequest, Sound
<1>3. ASSUME NEW k \in Calls, RecordSuccess(k) PROVE Goal
  <2>1. Sound(AfterSuccess(circuit[serving[k]]))
    BY <1>1, <1>3, SuccessIsSound DEF RecordSuccess
  <2> QED
    BY <1>1, <1>3, <2>1 DEF RecordSuccess, Sound
<1>4. ASSUME NEW k \in Calls, RecordFailure(k) PROVE Goal
  <2>1. Sound(AfterFailure(circuit[serving[k]]))
    BY <1>1, <1>4, FailureIsSound DEF RecordFailure
  <2> QED
    BY <1>1, <1>4, <2>1 DEF RecordFailure, Sound
<1>5. ASSUME NEW k \in Calls, NEW t \in Services, FailOver(k, t) PROVE Goal
  <2>1. Sound(AfterFailure(circuit[serving[k]])) /\ Sound(AfterCanRequest(circuit[t]))
    BY <1>1, <1>5, FailureIsSound, CanRequestIsSound DEF FailOver
  <2>2. \A s \in Services :
          circuit'[s] = IF s = t THEN AfterCanRequest(circuit[t])
                        ELSE IF s = serving[k] THEN AfterFailure(circuit[s])
                        ELSE circuit[s]
    BY <1>1, <1>5 DEF FailOver
  <2>3. \A s \in Services : Sound(circuit'[s])
    BY <1>1, <2>1, <2>2
  <2>4. circuit' = [s \in Services |-> circuit'[s]]
    BY <1>1, <1>5 DEF FailOver
  <2>5. serving' \in [Calls -> Services \cup {NoService}]
    BY <1>1, <1>5 DEF FailOver
  <2> QED
    BY <2>3, <2>4, <2>5 DEF Sound
<1>6. ASSUME NEW k \in Calls, EndUncounted(k) PROVE Goal
  BY <1>1, <1>6 DEF EndUncounted, Sound
<1>7. ASSUME Tick PROVE Goal
  <2>1. \A s \in Services : Sound(Aged(circuit[s]))
    BY <1>1, AgingIsSound
  <2> QED
    BY <1>1, <1>7, <2>1 DEF Tick, Sound
<1>8. CASE UNCHANGED vars
  BY <1>1, <1>8 DEF vars, Sound
<1> HIDE DEF Goal
<1> QED
  BY <1>2, <1>3, <1>4, <1>5, <1>6, <1>7, <1>8 DEF Next

\* Type correctness, for every interleaving of any number of calls.
THEOREM TypeCorrect == Spec => []TypeOK
<1>1. IInv => TypeOK
  BY DEF IInv
<1> QED
  BY <1>1, InitEstablishesIInv, NextPreservesIInv, PTL DEF Spec

\* A circuit's fields always agree with its state: probe slots only in
\* HALF_OPEN and at most the limit, openedAtMs null exactly while CLOSED, a
\* CLOSED circuit below its threshold.
THEOREM Consistency == Spec => []CircuitConsistent
<1>1. IInv => CircuitConsistent
  BY DEF IInv
<1> QED
  BY <1>1, InitEstablishesIInv, NextPreservesIInv, PTL DEF Spec

-----------------------------------------------------------------------------

\* What a step may do to an OPEN circuit.
OpenStep(c, d) ==
  \/ d.state = "OPEN" /\ d.openAge >= c.openAge
  \/ d.state = "HALF_OPEN" /\ c.openAge = OpenDuration

\* No operation of the breaker sets the cool-off of an OPEN circuit back or
\* cuts it short.
LEMMA OperationsRespectCoolOff ==
  ASSUME NEW c, Sound(c), c.state = "OPEN"
  PROVE  /\ OpenStep(c, c)
         /\ OpenStep(c, AfterCanRequest(c))
         /\ OpenStep(c, AfterSuccess(c))
         /\ OpenStep(c, AfterFailure(c))
         /\ OpenStep(c, Aged(c))
<1>1. c \in Circuit /\ Consistent(c) /\ c.openAge \in 0..OpenDuration
  BY DEF Sound, Consistent, Circuit
<1>2. OpenStep(c, c)
  BY <1>1, CircuitAssumption DEF OpenStep
<1>3. OpenStep(c, AfterCanRequest(c))
  <2>1. CASE CoolOffElapsed(c)
    <3>1. Woken(c) = [c EXCEPT !.state = "HALF_OPEN"]
      BY <1>1, <2>1 DEF Woken, Transition
    <3>2. AfterCanRequest(c).state = "HALF_OPEN"
      BY <1>1, <3>1 DEF AfterCanRequest, Circuit
    <3> QED
      BY <1>1, <2>1, <3>2, CircuitAssumption DEF OpenStep, CoolOffElapsed
  <2>2. CASE ~CoolOffElapsed(c)
    BY <1>2, <2>2 DEF AfterCanRequest, Woken, HasFreeProbe
  <2> QED
    BY <2>1, <2>2
<1>4. OpenStep(c, AfterSuccess(c))
  BY <1>1, <1>2 DEF OpenStep, AfterSuccess, Circuit
<1>5. OpenStep(c, AfterFailure(c))
  BY <1>2 DEF AfterFailure
<1>6. OpenStep(c, Aged(c))
  BY <1>1, <1>2, CircuitAssumption DEF OpenStep, Aged, Circuit
<1> QED
  BY <1>2, <1>3, <1>4, <1>5, <1>6

\* Every step of the specification respects the cool-off of every circuit.
LEMMA StepRespectsCoolOff ==
  ASSUME IInv, [Next]_vars, NEW s \in Services, circuit[s].state = "OPEN"
  PROVE  OpenStep(circuit[s], circuit'[s])
<1>1. Sound(circuit[s]) /\ circuit \in [Services -> Circuit]
  BY DEF IInv, TypeOK, CircuitConsistent, Sound
<1> DEFINE c == circuit[s]
<1>2. \/ circuit'[s] = c
      \/ circuit'[s] = AfterCanRequest(c)
      \/ circuit'[s] = AfterSuccess(c)
      \/ circuit'[s] = AfterFailure(c)
      \/ circuit'[s] = Aged(c)
  <2>1. ASSUME NEW k \in Calls, NEW t \in Services, CanRequest(k, t) PROVE <1>2
    BY <1>1, <2>1 DEF CanRequest
  <2>2. ASSUME NEW k \in Calls, RecordSuccess(k) PROVE <1>2
    BY <1>1, <2>2 DEF RecordSuccess
  <2>3. ASSUME NEW k \in Calls, RecordFailure(k) PROVE <1>2
    BY <1>1, <2>3 DEF RecordFailure
  <2>4. ASSUME NEW k \in Calls, NEW t \in Services, FailOver(k, t) PROVE <1>2
    BY <1>1, <2>4 DEF FailOver
  <2>5. ASSUME NEW k \in Calls, EndUncounted(k) PROVE <1>2
    BY <2>5 DEF EndUncounted
  <2>6. ASSUME Tick PROVE <1>2
    BY <2>6 DEF Tick
  <2>7. CASE UNCHANGED vars
    BY <2>7 DEF vars
  <2> QED
    BY <2>1, <2>2, <2>3, <2>4, <2>5, <2>6, <2>7 DEF Next
<1> QED
  BY <1>1, <1>2, OperationsRespectCoolOff

\* An OPEN circuit leaves OPEN only for HALF_OPEN, only after the whole
\* cool-off, and no straggler or rejected request delays that.
THEOREM CoolOff == Spec => CoolOffRespected
<1>1. IInv /\ [Next]_vars =>
        [\A s \in Services :
           circuit[s].state = "OPEN" =>
             \/ /\ circuit'[s].state = "OPEN"
                /\ circuit'[s].openAge >= circuit[s].openAge
             \/ /\ circuit'[s].state = "HALF_OPEN"
                /\ circuit[s].openAge = OpenDuration]_vars
  BY StepRespectsCoolOff DEF OpenStep
<1> QED
  BY <1>1, InitEstablishesIInv, NextPreservesIInv, PTL DEF Spec, CoolOffRespected

-----------------------------------------------------------------------------
(* The history: the slot ledger and the streak.                             *)

\* The ledger of one service: who holds its slots, and how many were left.
LedgerSound(s) ==
  /\ IsFiniteSet(holder[s])
  /\ \A j \in holder[s] : j \in probing /\ serving[j] = s
  /\ circuit[s].activeProbes = Cardinality(holder[s]) + leaked[s]

StreakSound(s) ==
  /\ circuit[s].state = "CLOSED" => circuit[s].failureCount = streak[s]
  /\ circuit[s].failureCount <= streak[s]

HTypes ==
  /\ holder \in [Services -> SUBSET Calls]
  /\ leaked \in [Services -> Nat]
  /\ probing \in SUBSET Calls
  /\ streak \in [Services -> 0..CountBound]

HInv ==
  /\ IInv
  /\ HTypes
  /\ \A s \in Services : LedgerSound(s) /\ StreakSound(s)

-----------------------------------------------------------------------------
(* One step of a call k, seen by the ledger.                                *)

Arrives(k, s) == serving[k] # s /\ serving'[k] = s

Departs(k, s) == serving[k] = s /\ serving'[k] # s

\* What a step of k does to the slots of s while s is (or becomes) HALF_OPEN.
SlotStep(k, s) ==
  circuit'[s].state = "HALF_OPEN" =>
    circuit'[s].activeProbes =
      circuit[s].activeProbes + (IF Arrives(k, s) THEN 1 ELSE 0)

\* A step in which only k moves, and in which every service gains a slot
\* exactly when k arrives there as a probe.
CallStep(k) ==
  /\ serving \in [Calls -> Services \cup {NoService}]
  /\ serving' = [serving EXCEPT ![k] = serving'[k]]
  /\ \A s \in Services : SlotStep(k, s)

\* The ledger, written with Arrives and Departs.
LEMMA LedgerStep ==
  ASSUME HInv, NEW k \in Calls, Ledger(k), NEW s \in Services
  PROVE  /\ holder'[s] = IF circuit'[s].state # "HALF_OPEN" THEN {}
                         ELSE IF Arrives(k, s) THEN holder[s] \cup {k}
                         ELSE IF Departs(k, s) THEN holder[s] \ {k}
                         ELSE holder[s]
         /\ leaked'[s] = IF circuit'[s].state # "HALF_OPEN" THEN 0
                         ELSE IF Departs(k, s) /\ k \in holder[s] THEN leaked[s] + 1
                         ELSE leaked[s]
  BY DEF HInv, HTypes, Ledger, Arrives, Departs

\* Who is recorded as probing after a step of k.
LEMMA ProbingStep ==
  ASSUME NEW k \in Calls, Ledger(k)
  PROVE  /\ \A j \in probing : j # k => j \in probing'
         /\ (\E s \in Services : Arrives(k, s) /\ circuit'[s].state = "HALF_OPEN")
              => k \in probing'
         /\ serving'[k] = serving[k] /\ k \in probing => k \in probing'
         /\ probing' \subseteq probing \cup {k}
  BY DEF Ledger, Arrives

\* The history variables keep their types through a step of a call.
LEMMA HistoryTypes ==
  ASSUME HInv, NEW k \in Calls, Ledger(k)
  PROVE  /\ holder' \in [Services -> SUBSET Calls]
         /\ leaked' \in [Services -> Nat]
         /\ probing' \in SUBSET Calls
<1>1. holder \in [Services -> SUBSET Calls] /\ leaked \in [Services -> Nat]
      /\ probing \in SUBSET Calls
  BY DEF HInv, HTypes
<1>2. /\ holder' = [s \in Services |-> holder'[s]]
      /\ leaked' = [s \in Services |-> leaked'[s]]
  BY DEF Ledger
<1>3. \A s \in Services : holder'[s] \in SUBSET Calls /\ leaked'[s] \in Nat
  <2> SUFFICES ASSUME NEW s \in Services
               PROVE  holder'[s] \in SUBSET Calls /\ leaked'[s] \in Nat
    OBVIOUS
  <2>1. holder[s] \subseteq Calls /\ leaked[s] \in Nat
    BY <1>1
  <2>2. /\ holder'[s] = IF circuit'[s].state # "HALF_OPEN" THEN {}
                         ELSE IF Arrives(k, s) THEN holder[s] \cup {k}
                         ELSE IF Departs(k, s) THEN holder[s] \ {k}
                         ELSE holder[s]
        /\ leaked'[s] = IF circuit'[s].state # "HALF_OPEN" THEN 0
                         ELSE IF Departs(k, s) /\ k \in holder[s] THEN leaked[s] + 1
                         ELSE leaked[s]
    BY LedgerStep
  <2>3. holder'[s] \subseteq Calls
    BY <2>1, <2>2
  <2>4. leaked'[s] \in Nat
    BY <2>1, <2>2
  <2> QED
    BY <2>3, <2>4
<1>4. probing' \in SUBSET Calls
  BY <1>1, ProbingStep
<1> QED
  BY <1>2, <1>3, <1>4

\* The heart of the argument: a step of a call keeps every service's slots
\* accounted for.
LEMMA LedgerIsKept ==
  ASSUME HInv, IInv', NEW k \in Calls, Ledger(k), CallStep(k), NEW s \in Services
  PROVE  LedgerSound(s)'
<1>1. /\ IsFiniteSet(holder[s])
      /\ \A j \in holder[s] : j \in probing /\ serving[j] = s
      /\ circuit[s].activeProbes = Cardinality(holder[s]) + leaked[s]
      /\ holder[s] \in SUBSET Calls
      /\ leaked[s] \in Nat
  BY DEF HInv, HTypes, LedgerSound
<1>2. Cardinality(holder[s]) \in Nat
  BY <1>1, FS_CardinalityType
<1>3. /\ \A j \in Calls : j # k => serving'[j] = serving[j]
      /\ SlotStep(k, s)
  BY DEF CallStep
<1>4. CASE circuit'[s].state # "HALF_OPEN"
  <2>1. holder'[s] = {} /\ leaked'[s] = 0
    BY <1>4, LedgerStep
  <2>2. circuit'[s].activeProbes = 0
    BY <1>4 DEF IInv, CircuitConsistent, Consistent
  <2> QED
    BY <2>1, <2>2, FS_EmptySet DEF LedgerSound
<1>5. CASE circuit'[s].state = "HALF_OPEN" /\ Arrives(k, s)
  <2>1. k \notin holder[s]
    BY <1>1, <1>5 DEF Arrives
  <2>2. holder'[s] = holder[s] \cup {k} /\ leaked'[s] = leaked[s]
    BY <1>5, LedgerStep DEF Arrives, Departs
  <2>3. IsFiniteSet(holder'[s]) /\ Cardinality(holder'[s]) = Cardinality(holder[s]) + 1
    <3>1. /\ IsFiniteSet(holder[s] \cup {k})
          /\ Cardinality(holder[s] \cup {k}) = Cardinality(holder[s]) + 1
      BY <1>1, <2>1, FS_AddElement
    <3> QED
      BY <2>2, <3>1
  <2>4. circuit'[s].activeProbes = circuit[s].activeProbes + 1
    BY <1>3, <1>5 DEF SlotStep
  <2>5. \A j \in holder'[s] : j \in probing' /\ serving'[j] = s
    BY <1>1, <1>3, <1>5, <2>2, ProbingStep DEF Arrives
  <2> QED
    BY <1>1, <1>2, <2>2, <2>3, <2>4, <2>5 DEF LedgerSound
<1>6. CASE circuit'[s].state = "HALF_OPEN" /\ Departs(k, s)
  <2>1. holder'[s] = holder[s] \ {k}
    BY <1>6, LedgerStep DEF Arrives, Departs
  <2>2. circuit'[s].activeProbes = circuit[s].activeProbes
    BY <1>1, <1>2, <1>3, <1>6 DEF SlotStep, Arrives, Departs
  <2>3. \A j \in holder'[s] : j \in probing' /\ serving'[j] = s
    BY <1>1, <1>3, <2>1, ProbingStep
  <2>4. IsFiniteSet(holder'[s])
        /\ Cardinality(holder'[s]) =
             IF k \in holder[s] THEN Cardinality(holder[s]) - 1 ELSE Cardinality(holder[s])
    <3>1. /\ IsFiniteSet(holder[s] \ {k})
          /\ Cardinality(holder[s] \ {k}) =
               IF k \in holder[s] THEN Cardinality(holder[s]) - 1 ELSE Cardinality(holder[s])
      BY <1>1, FS_RemoveElement
    <3> QED
      BY <2>1, <3>1
  <2>5. leaked'[s] = IF k \in holder[s] THEN leaked[s] + 1 ELSE leaked[s]
    BY <1>6, LedgerStep
  <2>6. circuit'[s].activeProbes = Cardinality(holder'[s]) + leaked'[s]
    BY <1>1, <1>2, <2>2, <2>4, <2>5
  <2> QED
    BY <2>3, <2>4, <2>6 DEF LedgerSound
<1>7. CASE circuit'[s].state = "HALF_OPEN" /\ ~Arrives(k, s) /\ ~Departs(k, s)
  <2>1. holder'[s] = holder[s] /\ leaked'[s] = leaked[s]
    BY <1>7, LedgerStep
  <2>2. circuit'[s].activeProbes = circuit[s].activeProbes
    BY <1>1, <1>2, <1>3, <1>7 DEF SlotStep
  <2>3. \A j \in holder'[s] : j \in probing' /\ serving'[j] = s
    <3>1. k \in holder[s] => serving'[k] = serving[k] /\ serving[k] = s
      BY <1>1, <1>7 DEF Departs
    <3> QED
      BY <1>1, <1>3, <2>1, <3>1, ProbingStep
  <2> QED
    BY <1>1, <2>1, <2>2, <2>3 DEF LedgerSound
<1> QED
  BY <1>4, <1>5, <1>6, <1>7

-----------------------------------------------------------------------------
(* The calls' steps are such steps.                                         *)

\* Every operation a call performs gives its service a slot exactly when the
\* call arrives there as a probe, and leaves the other calls where they are.
LEMMA OperationsAreCallSteps ==
  ASSUME IInv, NEW k \in Calls,
         \/ \E t \in Services : CanRequest(k, t) \/ FailOver(k, t)
         \/ RecordSuccess(k)
         \/ RecordFailure(k)
         \/ EndUncounted(k)
  PROVE  CallStep(k)
<1>1. /\ circuit \in [Services -> Circuit]
      /\ serving \in [Calls -> Services \cup {NoService}]
      /\ \A s \in Services : Sound(circuit[s])
      /\ NoService \notin Services
  BY CallAssumption DEF IInv, TypeOK, CircuitConsistent, Sound
<1>2. \A s \in Services : circuit[s].activeProbes \in Nat
  BY <1>1 DEF Circuit
<1> DEFINE Goal == CallStep(k)
<1>3. ASSUME NEW t \in Services, CanRequest(k, t) PROVE Goal
  <2>1. serving' = [serving EXCEPT ![k] = serving'[k]]
    BY <1>1, <1>3 DEF CanRequest
  <2>2. ASSUME NEW s \in Services PROVE SlotStep(k, s)
    <3>1. CASE s # t
      BY <1>1, <1>2, <1>3, <3>1 DEF CanRequest, SlotStep, Arrives
    <3>2. CASE s = t
      <4>1. circuit'[s] = AfterCanRequest(circuit[s])
        BY <1>1, <1>3, <3>2 DEF CanRequest
      <4>2. Arrives(k, s) <=> Admits(circuit[s])
        BY <1>1, <1>3, <3>2 DEF CanRequest, Arrives
      <4>3. Sound(circuit[s])
        BY <1>1
      <4> QED
        BY <1>2, <4>1, <4>2, <4>3, AdmissionEffect DEF SlotStep
    <3> QED
      BY <3>1, <3>2
  <2> QED
    BY <1>1, <2>1, <2>2 DEF CallStep
<1>4. ASSUME NEW t \in Services, FailOver(k, t) PROVE Goal
  <2>1. serving' = [serving EXCEPT ![k] = serving'[k]]
    BY <1>1, <1>4 DEF FailOver
  <2>2. ASSUME NEW s \in Services PROVE SlotStep(k, s)
    <3>1. CASE s = serving[k]
      <4>1. circuit'[s] = AfterFailure(circuit[s])
        BY <1>1, <1>4, <3>1 DEF FailOver
      <4> QED
        BY <1>1, <4>1, FailureEffect DEF SlotStep
    <3>2. CASE s = t
      <4>1. circuit'[s] = AfterCanRequest(circuit[s])
        BY <1>1, <1>4, <3>2 DEF FailOver
      <4>2. Arrives(k, s) <=> Admits(circuit[s])
        BY <1>1, <1>4, <3>2 DEF FailOver, Arrives
      <4>3. Sound(circuit[s])
        BY <1>1
      <4> QED
        BY <1>2, <4>1, <4>2, <4>3, AdmissionEffect DEF SlotStep
    <3>3. CASE s # serving[k] /\ s # t
      BY <1>1, <1>2, <1>4, <3>3 DEF FailOver, SlotStep, Arrives
    <3> QED
      BY <3>1, <3>2, <3>3
  <2> QED
    BY <1>1, <2>1, <2>2 DEF CallStep
<1>5. ASSUME RecordSuccess(k) PROVE Goal
  <2>1. serving' = [serving EXCEPT ![k] = serving'[k]] /\ serving'[k] = NoService
    BY <1>1, <1>5 DEF RecordSuccess
  <2>2. ASSUME NEW s \in Services PROVE SlotStep(k, s)
    <3>1. circuit'[s] = IF s = serving[k] THEN AfterSuccess(circuit[s]) ELSE circuit[s]
      BY <1>1, <1>5 DEF RecordSuccess
    <3> QED
      BY <1>1, <1>2, <2>1, <3>1, SuccessEffect DEF SlotStep, Arrives
  <2> QED
    BY <1>1, <2>1, <2>2 DEF CallStep
<1>6. ASSUME RecordFailure(k) PROVE Goal
  <2>1. serving' = [serving EXCEPT ![k] = serving'[k]] /\ serving'[k] = NoService
    BY <1>1, <1>6 DEF RecordFailure
  <2>2. ASSUME NEW s \in Services PROVE SlotStep(k, s)
    <3>1. circuit'[s] = IF s = serving[k] THEN AfterFailure(circuit[s]) ELSE circuit[s]
      BY <1>1, <1>6 DEF RecordFailure
    <3> QED
      BY <1>1, <1>2, <2>1, <3>1, FailureEffect DEF SlotStep, Arrives
  <2> QED
    BY <1>1, <2>1, <2>2 DEF CallStep
<1>7. ASSUME EndUncounted(k) PROVE Goal
  BY <1>1, <1>2, <1>7 DEF EndUncounted, CallStep, SlotStep, Arrives
<1> HIDE DEF Goal
<1>8. Goal
  BY <1>3, <1>4, <1>5, <1>6, <1>7
<1> QED
  BY <1>8 DEF Goal

-----------------------------------------------------------------------------
(* The streak.                                                              *)

\* Counting with a bound is monotone.
LEMMA CountedIsMonotone ==
  ASSUME NEW m \in 0..CountBound, NEW n \in 0..CountBound, m <= n
  PROVE  /\ Counted(n) \in 0..CountBound
         /\ m <= Counted(n)
         /\ Counted(m) <= Counted(n)
  BY CircuitAssumption DEF Counted

\* A recorded failure keeps a circuit's count and its streak in step.
LEMMA FailureKeepsStreak ==
  ASSUME NEW c, Sound(c), NEW n \in 0..CountBound,
         c.state = "CLOSED" => c.failureCount = n,
         c.failureCount <= n
  PROVE  /\ AfterFailure(c).state = "CLOSED" => AfterFailure(c).failureCount = Counted(n)
         /\ AfterFailure(c).failureCount <= Counted(n)
<1>1. c.failureCount \in 0..CountBound
  BY DEF Sound, Circuit
<1> QED
  BY <1>1, FailureEffect, CountedIsMonotone

\* Every step keeps every circuit's count in step with its streak.
LEMMA StreakIsKept ==
  ASSUME HInv, HNext
  PROVE  /\ streak' \in [Services -> 0..CountBound]
         /\ \A s \in Services : StreakSound(s)'
<1>1. /\ circuit \in [Services -> Circuit]
      /\ streak \in [Services -> 0..CountBound]
      /\ \A s \in Services : Sound(circuit[s]) /\ StreakSound(s)
  BY DEF HInv, HTypes, IInv, TypeOK, CircuitConsistent, Sound
<1>2. \A s \in Services : circuit[s].failureCount \in 0..CountBound
  BY <1>1 DEF Circuit
<1>3. \A s \in Services : Counted(streak[s]) \in 0..CountBound
  BY <1>1, CountedIsMonotone
<1> DEFINE Goal == /\ streak' \in [Services -> 0..CountBound]
                   /\ \A s \in Services : StreakSound(s)'
<1>4. ASSUME NEW k \in Calls, NEW t \in Services, HCanRequest(k, t) PROVE Goal
  <2>1. \A s \in Services : /\ circuit'[s].failureCount = circuit[s].failureCount
                            /\ circuit'[s].state = "CLOSED" => circuit[s].state = "CLOSED"
    BY <1>1, <1>4, AdmissionEffect DEF HCanRequest, CanRequest
  <2> QED
    BY <1>1, <1>4, <2>1 DEF HCanRequest, StreakSound
<1>5. ASSUME NEW k \in Calls, HRecordSuccess(k) PROVE Goal
  <2>1. \A s \in Services :
          /\ s = serving[k] => circuit'[s].failureCount = 0 /\ streak'[s] = 0
          /\ s # serving[k] => circuit'[s] = circuit[s] /\ streak'[s] = streak[s]
    BY <1>1, <1>5, SuccessEffect DEF HRecordSuccess, RecordSuccess
  <2>2. streak' \in [Services -> 0..CountBound]
    <3>1. 0 \in 0..CountBound
      BY CircuitAssumption
    <3> QED
      BY <1>1, <1>5, <3>1 DEF HRecordSuccess
  <2> QED
    BY <1>1, <2>1, <2>2 DEF StreakSound
<1>6. ASSUME NEW k \in Calls, HRecordFailure(k) PROVE Goal
  <2>1. \A s \in Services :
          /\ s = serving[k] => /\ circuit'[s] = AfterFailure(circuit[s])
                               /\ streak'[s] = Counted(streak[s])
          /\ s # serving[k] => circuit'[s] = circuit[s] /\ streak'[s] = streak[s]
    BY <1>1, <1>6 DEF HRecordFailure, RecordFailure
  <2>2. streak' \in [Services -> 0..CountBound]
    BY <1>1, <1>3, <1>6 DEF HRecordFailure
  <2>3. ASSUME NEW s \in Services PROVE StreakSound(s)'
    <3>1. CASE s = serving[k]
      BY <1>1, <2>1, <3>1, FailureKeepsStreak DEF StreakSound
    <3>2. CASE s # serving[k]
      BY <1>1, <2>1, <3>2 DEF StreakSound
    <3> QED
      BY <3>1, <3>2
  <2> QED
    BY <2>2, <2>3
<1>7. ASSUME NEW k \in Calls, NEW t \in Services, HFailOver(k, t) PROVE Goal
  <2>1. serving[k] \in Services /\ serving[k] # t
    BY <1>7 DEF HFailOver, FailOver
  <2>2. streak' \in [Services -> 0..CountBound]
    BY <1>1, <1>3, <1>7 DEF HFailOver
  <2>3. ASSUME NEW s \in Services PROVE StreakSound(s)'
    <3>1. CASE s = serving[k]
      <4>1. circuit'[s] = AfterFailure(circuit[s]) /\ streak'[s] = Counted(streak[s])
        BY <1>1, <1>7, <2>1, <3>1 DEF HFailOver, FailOver
      <4> QED
        BY <1>1, <4>1, FailureKeepsStreak DEF StreakSound
    <3>2. CASE s = t
      <4>1. circuit'[s] = AfterCanRequest(circuit[s]) /\ streak'[s] = streak[s]
        BY <1>1, <1>7, <2>1, <3>2 DEF HFailOver, FailOver
      <4> QED
        BY <1>1, <4>1, AdmissionEffect DEF StreakSound
    <3>3. CASE s # serving[k] /\ s # t
      <4>1. circuit'[s] = circuit[s] /\ streak'[s] = streak[s]
        BY <1>1, <1>7, <2>1, <3>3 DEF HFailOver, FailOver
      <4> QED
        BY <1>1, <4>1 DEF StreakSound
    <3> QED
      BY <3>1, <3>2, <3>3
  <2> QED
    BY <2>2, <2>3
<1>8. ASSUME NEW k \in Calls, HEndUncounted(k) PROVE Goal
  BY <1>1, <1>8 DEF HEndUncounted, EndUncounted, StreakSound
<1>9. ASSUME HTick PROVE Goal
  <2>1. \A s \in Services : /\ circuit'[s].failureCount = circuit[s].failureCount
                            /\ circuit'[s].state = circuit[s].state
    BY <1>1, <1>9, AgingEffect DEF HTick, Tick
  <2> QED
    BY <1>1, <1>9, <2>1 DEF HTick, StreakSound
<1> HIDE DEF Goal
<1>10. Goal
  BY <1>4, <1>5, <1>6, <1>7, <1>8, <1>9 DEF HNext
<1> QED
  BY <1>10 DEF Goal

-----------------------------------------------------------------------------

\* The initial state is accounted for.
LEMMA HInitEstablishesHInv == HInit => HInv
<1> SUFFICES ASSUME HInit PROVE HInv
  OBVIOUS
<1>1. IInv
  BY InitEstablishesIInv DEF HInit
<1>2. HTypes
  BY CircuitAssumption DEF HInit, HTypes
<1>3. \A s \in Services : LedgerSound(s) /\ StreakSound(s)
  BY FS_EmptySet, CircuitAssumption DEF HInit, Init, LedgerSound, StreakSound, NewCircuit
<1> QED
  BY <1>1, <1>2, <1>3 DEF HInv

\* A step of the history is a step of the breaker.
LEMMA HistoryRefines == HNext => Next
  BY DEF HNext, Next, HCanRequest, HFailOver, HRecordSuccess, HRecordFailure,
         HEndUncounted, HTick

\* Every step keeps the history sound.
LEMMA HNextPreservesHInv == HInv /\ [HNext]_hvars => HInv'
<1> SUFFICES ASSUME HInv, [HNext]_hvars PROVE HInv'
  OBVIOUS
<1>1. CASE UNCHANGED hvars
  BY <1>1 DEF HInv, HTypes, IInv, TypeOK, CircuitConsistent, LedgerSound, StreakSound, hvars
<1>2. ASSUME NEW k \in Calls,
             \/ \E t \in Services : HCanRequest(k, t) \/ HFailOver(k, t)
             \/ HRecordSuccess(k)
             \/ HRecordFailure(k)
             \/ HEndUncounted(k)
      PROVE  HInv'
  <2>1. HNext
    BY <1>2 DEF HNext
  <2>2. IInv'
    BY <2>1, HistoryRefines, NextPreservesIInv DEF HInv
  <2>3. Ledger(k)
    BY <1>2 DEF HCanRequest, HFailOver, HRecordSuccess, HRecordFailure, HEndUncounted
  <2>4. CallStep(k)
    BY <1>2, OperationsAreCallSteps
    DEF HInv, HCanRequest, HFailOver, HRecordSuccess, HRecordFailure, HEndUncounted
  <2>5. \A s \in Services : LedgerSound(s)'
    BY <2>2, <2>3, <2>4, LedgerIsKept
  <2> QED
    BY <2>1, <2>2, <2>3, <2>5, HistoryTypes, StreakIsKept DEF HInv, HTypes
<1>3. ASSUME HTick PROVE HInv'
  <2>1. HNext
    BY <1>3 DEF HNext
  <2>2. IInv'
    BY <2>1, HistoryRefines, NextPreservesIInv DEF HInv
  <2>3. UNCHANGED <<serving, holder, leaked, probing>>
    BY <1>3 DEF HTick, Tick
  <2>4. \A s \in Services : circuit'[s].activeProbes = circuit[s].activeProbes
    BY <1>3, AgingEffect DEF HTick, Tick, HInv, IInv, TypeOK, CircuitConsistent, Sound
  <2>5. \A s \in Services : LedgerSound(s)'
    BY <2>3, <2>4 DEF HInv, LedgerSound
  <2> QED
    BY <2>1, <2>2, <2>3, <2>5, StreakIsKept DEF HInv, HTypes
<1> QED
  BY <1>1, <1>2, <1>3 DEF HNext

\* What the invariant says of the state the runs look at.
LEMMA HInvImplies == HInv => HTypeOK /\ SlotAccounting /\ StreakCounted
<1> SUFFICES ASSUME HInv PROVE HTypeOK /\ SlotAccounting /\ StreakCounted
  OBVIOUS
<1>1. SlotAccounting
  BY DEF HInv, LedgerSound, SlotAccounting, ProbesInFlight
<1>2. StreakCounted
  BY DEF HInv, StreakSound, StreakCounted
<1>3. ASSUME NEW s \in Services PROVE leaked[s] \in 0..HalfOpenMax
  <2>1. /\ circuit[s].activeProbes = Cardinality(holder[s]) + leaked[s]
        /\ Cardinality(holder[s]) \in Nat
        /\ leaked[s] \in Nat
    BY FS_CardinalityType DEF HInv, HTypes, LedgerSound
  <2>2. circuit[s].activeProbes <= HalfOpenMax
    BY DEF HInv, IInv, CircuitConsistent, Consistent
  <2> QED
    BY <2>1, <2>2, CircuitAssumption
<1>4. HTypeOK
  BY <1>3 DEF HInv, HTypes, IInv, HTypeOK
<1> QED
  BY <1>1, <1>2, <1>4

\* The variables keep their types; in particular a half-open period never has
\* more abandoned slots than halfOpenMaxRequests.
THEOREM HistoryTypeCorrect == HSpec => []HTypeOK
  BY HInitEstablishesHInv, HNextPreservesHInv, HInvImplies, PTL DEF HSpec

\* Every reserved probe slot belongs to a probe of this half-open period that
\* is still in flight, or was abandoned by a call that recorded no outcome.
THEOREM SlotsAreAccountedFor == HSpec => []SlotAccounting
  BY HInitEstablishesHInv, HNextPreservesHInv, HInvImplies, PTL DEF HSpec

\* A CLOSED circuit has counted exactly the failures in a row, whatever the
\* order in which outcomes arrive.
THEOREM StreaksAreCounted == HSpec => []StreakCounted
  BY HInitEstablishesHInv, HNextPreservesHInv, HInvImplies, PTL DEF HSpec

=============================================================================
