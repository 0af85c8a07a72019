----------------------------- MODULE HealthHistory -----------------------------
(***************************************************************************)
(* HealthMonitor with the history its snapshot is to be compared with: how *)
(* long ago each service was checked and was up, how many of its probes    *)
(* have failed in a row, and since when the monitor runs.                  *)
(***************************************************************************)
EXTENDS HealthMonitor

CONSTANT AgeBound     \* BOUND: ages are kept at this value

\* The longest time between two checks of one service: a round in which it is
\* probed first lasts ProbeTimeout, the interval that fires meanwhile is skipped,
\* and the next round may take as long to get to it.
MaxAge == 2 * ProbeTimeout + Interval

ASSUME AgeAssumption == AgeBound \in Nat /\ AgeBound > MaxAge

VARIABLES
  checkedAge,   \* checkedAge[s]: ticks since a probe of s ended or monitoring started
  upAge,        \* upAge[s]: ticks since s was up
  runningFor,   \* ticks since monitoring started
  streak        \* streak[s]: failed probes of s since its last successful one

hvars == <<states, timer, roundInFlight, rounds, changes, up,
           checkedAge, upAge, runningFor, streak>>

\* The monitor's own types, and ages and counts within their bounds.
\* healthMonitor.service.ts:40-51, 117-123, 153-163.
HTypeOK ==
  /\ TypeOK
  /\ checkedAge \in [Services -> 0..AgeBound]
  /\ upAge \in [Services -> 0..AgeBound]
  /\ runningFor \in 0..AgeBound
  /\ streak \in [Services -> 0..FailBound]

Older(age) == IF age < AgeBound THEN age + 1 ELSE age

HInit ==
  /\ Init
  /\ checkedAge = [s \in Services |-> 0]
  /\ upAge = [s \in Services |-> IF up[s] THEN 0 ELSE AgeBound]
  /\ runningFor = 0
  /\ streak = [s \in Services |-> 0]

-----------------------------------------------------------------------------

HStart ==
  /\ Start
  /\ checkedAge' = [s \in Services |-> 0]
  /\ runningFor' = 0
  /\ UNCHANGED <<upAge, streak>>

HRuns ==
  /\ Stop \/ IntervalFires \/ ForceCheck \/ \E i \in DOMAIN rounds, s \in Services : Answered(i, s)
  /\ UNCHANGED <<checkedAge, upAge, runningFor, streak>>

HProbeEnds(i, s, healthy) ==
  /\ ProbeEnds(i, s, healthy)
  /\ checkedAge' = [checkedAge EXCEPT ![s] = 0]
  /\ streak' = [streak EXCEPT ![s] =
       IF healthy THEN 0 ELSE IF @ < FailBound THEN @ + 1 ELSE @]
  /\ UNCHANGED <<upAge, runningFor>>

HSwitch(s) ==
  /\ Switch(s)
  /\ upAge' = [upAge EXCEPT ![s] = 0]
  /\ UNCHANGED <<checkedAge, runningFor, streak>>

HTick ==
  /\ Tick
  /\ checkedAge' = [s \in Services |-> Older(checkedAge[s])]
  /\ upAge' = [s \in Services |-> IF up[s] THEN 0 ELSE Older(upAge[s])]
  /\ runningFor' = Older(runningFor)
  /\ UNCHANGED streak

HNext ==
  \/ HStart
  \/ HRuns
  \/ \E i \in DOMAIN rounds, s \in Services, healthy \in BOOLEAN : HProbeEnds(i, s, healthy)
  \/ \E s \in Services : HSwitch(s)
  \/ HTick

HSpec == HInit /\ [][HNext]_hvars

-----------------------------------------------------------------------------

\* consecutiveFailures is the number of probes that failed in a row, although
\* it is computed from a state read before the probe was sent.
\* healthMonitor.service.ts:118, 161.
FailuresCounted ==
  \A s \in Services : states[s].consecutiveFailures = streak[s]

\* The last event of a service names its present status.
\* healthMonitor.service.ts:165-179; server.ts:39-54.
ChangesTellStatus ==
  \A s \in Services : changes[s].to = states[s].status

\* Each event of a service takes up where the one before it ended, so that none
\* is missing between them.  healthMonitor.service.ts:118, 165-179.
ChangesChain ==
  [][\A s \in Services :
       changes'[s] # changes[s] => changes'[s].from = changes[s].to]_hvars

\* The events of a service, read in a row, are the history of its status.
\* healthMonitor.service.ts:118, 165-179.
ChangesFaithful == []ChangesTellStatus /\ ChangesChain

\* While the monitor runs no service goes unchecked for longer than MaxAge,
\* whatever forced checks and slow services do to the rounds.
\* healthMonitor.service.ts:54-82; failover.service.ts:184.
AgesBounded ==
  timer # None => \A s \in Services : checkedAge[s] <= MaxAge

\* The unknown window of the start ends with the first round.
\* healthMonitor.service.ts:106-110; backend/README.md:668-669.
BootWindowBounded ==
  timer # None /\ runningFor > ProbeTimeout =>
    \A s \in Services : states[s].status # "unknown"

\* Whoever reads a snapshot reads one that was checked, and lately.
\* healthMonitor.service.ts:54-82, 106-110.
SnapshotsAreFresh == AgesBounded /\ BootWindowBounded

\* A service that passes the health gate was up not longer than MaxAge ago.
\* healthMonitor.service.ts:104-115; failover.service.ts:184.
HealthyWasUp ==
  timer # None /\ runningFor > ProbeTimeout =>
    \A s \in Services : IsHealthy(s) => upAge[s] <= MaxAge

=============================================================================
