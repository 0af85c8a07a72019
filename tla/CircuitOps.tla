------------------------------ MODULE CircuitOps ------------------------------
(***************************************************************************)
(* One circuit of backend/src/services/circuitBreaker.service.ts as a      *)
(* value, and the breaker's operations as functions on it.  Each operation *)
(* of the class runs without an await, so each is one atomic update; the   *)
(* specifications that use this module apply them inside their actions.    *)
(*                                                                         *)
(* The code stores the time at which the circuit opened and only ever      *)
(* compares "now - openedAtMs" with openDurationMs.  The model stores that *)
(* difference, counted in clock ticks and kept at OpenDuration once it is  *)
(* reached, so that time has no bound.                                     *)
(***************************************************************************)
EXTENDS Naturals

CONSTANTS
  FailureThreshold,   \* consecutive failed requests that trip a circuit
  OpenDuration,       \* ticks an OPEN circuit rejects before it probes
  HalfOpenMax,        \* requests admitted while HALF_OPEN
  CountBound,         \* BOUND: failureCount is kept at this value once reached
  NotOpened           \* openedAtMs = null

\* env.ts accepts 1..100, 100..300000 ms and 1..10; the count bound must not
\* hide the threshold.
ASSUME CircuitAssumption ==
  /\ FailureThreshold \in Nat \ {0}
  /\ OpenDuration \in Nat \ {0}
  /\ HalfOpenMax \in Nat \ {0}
  /\ CountBound \in Nat
  /\ CountBound >= FailureThreshold
  /\ NotOpened \notin Nat

Circuit ==
  [state        : {"CLOSED", "OPEN", "HALF_OPEN"},
   failureCount : 0..CountBound,
   openAge      : (0..OpenDuration) \cup {NotOpened},
   activeProbes : Nat]

NewCircuit ==
  [state |-> "CLOSED", failureCount |-> 0, openAge |-> NotOpened, activeProbes |-> 0]

Counted(n) == IF n < CountBound THEN n + 1 ELSE n

Released(n) == IF n > 0 THEN n - 1 ELSE 0

-----------------------------------------------------------------------------
(* transition(): the resets that go with entering OPEN and CLOSED.          *)

Transition(c, new) ==
  IF c.state = new /\ new # "CLOSED" THEN c
  ELSE IF new = "OPEN" THEN [c EXCEPT !.state = "OPEN", !.openAge = 0, !.activeProbes = 0]
  ELSE IF new = "CLOSED" THEN NewCircuit
  ELSE [c EXCEPT !.state = new]

-----------------------------------------------------------------------------
(* canRequest(): wake an OPEN circuit whose cool-off is over, then admit.   *)

CoolOffElapsed(c) ==
  /\ c.state = "OPEN"
  /\ c.openAge # NotOpened
  /\ c.openAge >= OpenDuration

\* A breaker that never leaves OPEN by itself.
NeverWoken(c) == c

Woken(c) == IF CoolOffElapsed(c) THEN Transition(c, "HALF_OPEN") ELSE c

HasFreeProbe(c) == c.state = "HALF_OPEN" /\ c.activeProbes < HalfOpenMax

Admits(c) == Woken(c).state = "CLOSED" \/ HasFreeProbe(Woken(c))

\* The request that wakes the circuit takes no slot.
WakingProbeUncounted(c) ==
  IF HasFreeProbe(c) THEN [c EXCEPT !.activeProbes = @ + 1] ELSE Woken(c)

AfterCanRequest(c) ==
  LET w == Woken(c) IN
  IF HasFreeProbe(w) THEN [w EXCEPT !.activeProbes = @ + 1] ELSE w

-----------------------------------------------------------------------------
(* recordSuccess() and recordFailure().                                     *)

\* A success that does not end the run of failures.
SuccessKeepsCount(c) ==
  IF c.state = "HALF_OPEN" THEN NewCircuit ELSE c

AfterSuccess(c) ==
  LET verdict == IF c.state = "HALF_OPEN"
                 THEN Transition([c EXCEPT !.activeProbes = Released(@)], "CLOSED")
                 ELSE c
  IN  [verdict EXCEPT !.failureCount = 0]

\* A breaker in which a straggler's failure re-opens a circuit already OPEN.
StragglerReopens(c) ==
  LET counted == [c EXCEPT !.failureCount = Counted(@), !.activeProbes = Released(@)] IN
  IF \/ c.state # "CLOSED"
     \/ counted.failureCount >= FailureThreshold
  THEN [counted EXCEPT !.state = "OPEN", !.openAge = 0, !.activeProbes = 0]
  ELSE counted

\* A breaker whose threshold test is off by one.
TripsOneLate(c) ==
  LET counted == [c EXCEPT !.failureCount = Counted(@)] IN
  IF c.state = "HALF_OPEN"
  THEN Transition([counted EXCEPT !.activeProbes = Released(@)], "OPEN")
  ELSE IF c.state # "CLOSED" THEN c
  ELSE IF counted.failureCount > FailureThreshold THEN Transition(counted, "OPEN")
  ELSE counted

AfterFailure(c) ==
  LET counted == [c EXCEPT !.failureCount = Counted(@)] IN
  IF c.state = "HALF_OPEN"
  THEN Transition([counted EXCEPT !.activeProbes = Released(@)], "OPEN")
  ELSE IF c.state # "CLOSED" THEN c
  ELSE IF counted.failureCount >= FailureThreshold THEN Transition(counted, "OPEN")
  ELSE counted

-----------------------------------------------------------------------------
(* One tick of the clock, as a circuit sees it.                             *)

Aged(c) ==
  IF c.openAge \in 0..(OpenDuration - 1) THEN [c EXCEPT !.openAge = @ + 1] ELSE c

-----------------------------------------------------------------------------

\* The fields of a circuit agree with its state.
Consistent(c) ==
  /\ c.activeProbes <= HalfOpenMax
  /\ c.state # "HALF_OPEN" => c.activeProbes = 0
  /\ c.openAge = NotOpened <=> c.state = "CLOSED"
  /\ c.state = "CLOSED" => c.failureCount < FailureThreshold

=============================================================================
