---------------------------- MODULE MonitoringProofs ----------------------------
(***************************************************************************)
(* Theorems about the two monitors of a service, which share nothing.      *)
(*                                                                         *)
(* The health monitor: rounds never overlap, so the count of failures and  *)
(* the events tell the truth; no snapshot is older, and no service that    *)
(* passes the health gate was last up longer ago, than MaxAge.             *)
(*                                                                         *)
(* The anomaly detector: the median is the middle of the window, an alarm  *)
(* rests on a value above half of one, a jump is noticed, and what is      *)
(* emitted is the alarm's history.                                         *)
(***************************************************************************)
EXTENDS HealthHistory, AnomalyDetection, ArraysProofs

-----------------------------------------------------------------------------
(* HealthMonitor                                                            *)

\* The monitor between two rounds, and in the one round there is.
Busy == Len(rounds) = 1

Probing(s) == Busy /\ rounds[1].probes[s] # None

Sound == TypeOK /\ RoundsNeverOverlap

-----------------------------------------------------------------------------
(* What the operations do to the one round.                                 *)

\* The rounds in flight are none or one.
LEMMA OneRound ==
  ASSUME Sound
  PROVE  /\ Len(rounds) \in {0, 1}
         /\ ~Busy => rounds = <<>>
         /\ Busy => /\ DOMAIN rounds = {1}
                    /\ rounds[1] \in Rounds
                    /\ rounds[1].age \in 0..ProbeTimeout
                    /\ rounds[1].probes \in [Services -> Probes \cup {None}]
                    /\ rounds = <<rounds[1]>>
         /\ roundInFlight <=> Busy
<1>0. rounds \in Seq(Rounds)
  BY DEF Sound, TypeOK
<1>1. rounds \in Seq(Rounds) /\ Len(rounds) \in {0, 1}
  <2>1. Len(rounds) \in Nat
    BY <1>0
  <2>2. Len(rounds) <= 1
    BY DEF Sound, RoundsNeverOverlap
  <2>3. Len(rounds) = 0 \/ Len(rounds) = 1
    BY <2>1, <2>2
  <2> QED
    BY <1>0, <2>3
<1>2. ~Busy => rounds = <<>>
  BY <1>1 DEF Busy
<1>3. Busy => rounds[1] \in Rounds /\ DOMAIN rounds = {1}
  <2>1. SUFFICES ASSUME Busy PROVE rounds[1] \in Rounds /\ DOMAIN rounds = {1}
    OBVIOUS
  <2>2. DOMAIN rounds = 1..1
    BY <1>0, <2>1, LenProperties DEF Busy
  <2>3. 1 \in 1..Len(rounds)
    BY <2>1 DEF Busy
  <2>4. rounds[1] \in Rounds
    BY <1>0, <2>3, ElementOfSeq
  <2>5. 1..1 = {1}
    OBVIOUS
  <2> QED
    BY <2>2, <2>4, <2>5
<1>4. Busy => rounds = <<rounds[1]>>
  BY <1>1 DEF Busy
<1>5. roundInFlight <=> Busy
  <2>1. Busy => rounds # <<>>
    BY <1>1 DEF Busy
  <2>2. roundInFlight <=> rounds # <<>>
    BY DEF Sound, RoundsNeverOverlap
  <2> QED
    BY <1>2, <2>1, <2>2
<1>6. Busy => /\ rounds[1].age \in 0..ProbeTimeout
              /\ rounds[1].probes \in [Services -> Probes \cup {None}]
  BY <1>3 DEF Rounds
<1> QED
  BY <1>1, <1>2, <1>3, <1>4, <1>5, <1>6

\* To replace the one round is to replace the sequence.
LEMMA OneReplaced ==
  ASSUME Sound, Busy, NEW r \in Rounds
  PROVE  /\ [rounds EXCEPT ![1] = r] \in Seq(Rounds)
         /\ Len([rounds EXCEPT ![1] = r]) = 1
         /\ [rounds EXCEPT ![1] = r][1] = r
<1>1. rounds \in Seq(Rounds)
  BY DEF Sound, TypeOK
<1>2. 1 \in 1..Len(rounds)
  BY DEF Busy
<1> QED
  BY <1>1, <1>2, ExceptSeq DEF Busy

\* A new round probes every service.
LEMMA NewRoundTyped ==
  ASSUME Sound
  PROVE  /\ NewRound \in Rounds
         /\ NewRound.age = 0
         /\ \A s \in Services :
              /\ NewRound.probes[s] # None
              /\ NewRound.probes[s].previous = states[s]
              /\ NewRound.probes[s].answer = "none"
<1> DEFINE P(s) == [previous |-> states[s], answer |-> "none"]
<1>1. \A s \in Services : P(s) \in Probes /\ P(s) # None
  BY NoneAssumption DEF Sound, TypeOK, Probes
<1>2. [s \in Services |-> P(s)] \in [Services -> Probes \cup {None}]
  BY <1>1
<1>3. 0 \in 0..ProbeTimeout
  BY MonitorAssumption
<1> HIDE DEF P
<1>4. NewRound.age = 0 /\ NewRound.probes = [s \in Services |-> P(s)]
  BY DEF NewRound, P
<1>5. NewRound \in Rounds
  <2>1. NewRound = [age |-> 0, probes |-> [s \in Services |-> P(s)]]
    BY DEF NewRound, P
  <2> QED
    BY <1>2, <1>3, <2>1 DEF Rounds
<1> QED
  BY <1>1, <1>4, <1>5 DEF P

\* runRound() starts the one round or leaves it alone.
LEMMA RunRoundEffect ==
  ASSUME Sound, RunRound
  PROVE  /\ rounds' \in Seq(Rounds)
         /\ Len(rounds') = 1
         /\ roundInFlight' = TRUE
         /\ Busy => rounds' = rounds
         /\ ~Busy => rounds'[1] = NewRound
<1>1. CASE Busy
  BY <1>1, OneRound DEF RunRound, Busy, Sound, TypeOK
<1>2. CASE ~Busy
  <2>1. rounds' = <<NewRound>>
    BY <1>2, OneRound DEF RunRound
  <2> QED
    BY <1>2, <2>1, NewRoundTyped, OneRound DEF RunRound, Busy
<1> QED
  BY <1>1, <1>2

\* An answer changes one probe.
LEMMA AnsweredEffect ==
  ASSUME Sound, NEW i \in DOMAIN rounds, NEW s \in Services, Answered(i, s)
  PROVE  /\ i = 1 /\ Busy /\ Probing(s)
         /\ rounds' \in Seq(Rounds)
         /\ Len(rounds') = 1
         /\ rounds'[1].age = rounds[1].age
         /\ rounds'[1].probes[s] # None
         /\ rounds'[1].probes[s].previous = rounds[1].probes[s].previous
         /\ rounds'[1].probes[s].answer = IF up[s] THEN "healthy" ELSE "unhealthy"
         /\ \A o \in Services \ {s} : rounds'[1].probes[o] = rounds[1].probes[o]
<1>1. i = 1 /\ Busy
  BY OneRound DEF Busy
<1>2. Probing(s)
  BY <1>1 DEF Answered, InFlight, Probing
<1> DEFINE a == IF up[s] THEN "healthy" ELSE "unhealthy"
           p == [rounds[1].probes[s] EXCEPT !.answer = a]
           r == [rounds[1] EXCEPT !.probes = [rounds[1].probes EXCEPT ![s] = p]]
<1>3. rounds[1].probes[s] \in Probes
  BY <1>1, <1>2, OneRound DEF Probing
<1>4. p \in Probes /\ p.previous = rounds[1].probes[s].previous /\ p.answer = a
  BY <1>3 DEF Probes
<1>5. p # None
  BY <1>4, NoneAssumption
<1> HIDE DEF p
<1>6. /\ [rounds[1].probes EXCEPT ![s] = p] \in [Services -> Probes \cup {None}]
      /\ [rounds[1].probes EXCEPT ![s] = p][s] = p
      /\ \A o \in Services \ {s} : [rounds[1].probes EXCEPT ![s] = p][o] = rounds[1].probes[o]
  BY <1>1, <1>4, OneRound
<1>7. r \in Rounds /\ r.age = rounds[1].age /\ r.probes = [rounds[1].probes EXCEPT ![s] = p]
  BY <1>1, <1>6, OneRound DEF Rounds
<1> HIDE DEF r
<1>8. rounds' = [rounds EXCEPT ![1] = r]
  BY <1>1 DEF Answered, r, p
<1>9. rounds' \in Seq(Rounds) /\ Len(rounds') = 1 /\ rounds'[1] = r
  BY <1>1, <1>7, <1>8, OneRound, OneReplaced DEF Busy
<1> QED
  BY <1>1, <1>2, <1>4, <1>5, <1>6, <1>7, <1>9

\* A probe that ends is done; the last one takes the round with it.
LEMMA AfterRoundEffect ==
  ASSUME Sound, NEW i \in DOMAIN rounds, NEW s \in Services, NEW healthy \in BOOLEAN,
         InFlight(i, s), AfterRound(i, s, healthy)
  PROVE  /\ i = 1 /\ Busy /\ Probing(s)
         /\ rounds' \in Seq(Rounds)
         /\ Len(rounds') \in {0, 1}
         /\ roundInFlight' <=> Len(rounds') = 1
         /\ Len(rounds') = 1 =>
              /\ rounds'[1].age = rounds[1].age
              /\ rounds'[1].probes[s] = None
              /\ \A o \in Services \ {s} : rounds'[1].probes[o] = rounds[1].probes[o]
         /\ Len(rounds') = 0 => \A o \in Services \ {s} : ~Probing(o)
<1>1. i = 1 /\ Busy
  BY OneRound DEF Busy
<1>2. Probing(s)
  BY <1>1 DEF InFlight, Probing
<1> DEFINE probes == [rounds[1].probes EXCEPT ![s] = None]
           r == [rounds[1] EXCEPT !.probes = probes]
<1>3. /\ probes \in [Services -> Probes \cup {None}]
      /\ probes[s] = None
      /\ \A o \in Services \ {s} : probes[o] = rounds[1].probes[o]
  BY <1>1, OneRound
<1>4. r \in Rounds /\ r.age = rounds[1].age /\ r.probes = probes
  BY <1>1, <1>3, OneRound DEF Rounds
<1> HIDE DEF probes
<1>5. CASE \A o \in Services : probes[o] = None
  <2>1. rounds' = RemoveAt(rounds, 1) /\ roundInFlight' = FALSE
    BY <1>1, <1>5 DEF AfterRound, probes
  <2>2. rounds' = <<>> /\ rounds' \in Seq(Rounds) /\ Len(rounds') = 0
    <3>1. rounds = <<rounds[1]>>
      BY <1>1, OneRound
    <3>2. RemoveAt(<<rounds[1]>>, 1) = <<>>
      BY DEF RemoveAt
    <3>3. rounds' = <<>>
      BY <2>1, <3>1, <3>2
    <3>4. <<>> \in Seq(Rounds) /\ Len(<<>>) = 0
      OBVIOUS
    <3> QED
      BY <3>3, <3>4
  <2>3. \A o \in Services \ {s} : ~Probing(o)
    BY <1>3, <1>5 DEF Probing
  <2>4. roundInFlight' <=> Len(rounds') = 1
    <3>1. Len(rounds') # 1
      BY <2>2
    <3> QED
      BY <2>1, <3>1
  <2> QED
    BY <1>1, <1>2, <2>2, <2>3, <2>4
<1>6. CASE ~\A o \in Services : probes[o] = None
  <2>1. rounds' = [rounds EXCEPT ![1] = r] /\ roundInFlight' = roundInFlight
    BY <1>1, <1>6, OneRound DEF AfterRound, probes
  <2> HIDE DEF r
  <2>2. rounds' \in Seq(Rounds) /\ Len(rounds') = 1 /\ rounds'[1] = r
    BY <1>1, <1>4, <2>1, OneRound, OneReplaced DEF Busy
  <2> QED
    BY <1>1, <1>2, <1>3, <1>4, <2>1, <2>2, OneRound
<1> QED
  BY <1>5, <1>6

\* A tick ages the round.
LEMMA TickEffect ==
  ASSUME Sound, Tick
  PROVE  /\ rounds' \in Seq(Rounds)
         /\ Len(rounds') = Len(rounds)
         /\ Busy => /\ rounds[1].age < ProbeTimeout
                    /\ rounds'[1].age = rounds[1].age + 1
                    /\ rounds'[1].probes = rounds[1].probes
<1>1. CASE Busy
  <2> DEFINE r == [rounds[1] EXCEPT !.age = @ + 1]
  <2>1. rounds[1].age < ProbeTimeout
    BY <1>1, OneRound DEF Tick
  <2>2. r \in Rounds /\ r.age = rounds[1].age + 1 /\ r.probes = rounds[1].probes
    BY <1>1, <2>1, OneRound, MonitorAssumption DEF Rounds
  <2>3. rounds' = <<r>>
    BY <1>1, OneRound DEF Tick
  <2> HIDE DEF r
  <2> QED
    BY <1>1, <2>1, <2>2, <2>3 DEF Busy
<1>2. CASE ~Busy
  <2>1. rounds' = <<>>
    BY <1>2, OneRound DEF Tick
  <2> QED
    BY <1>2, <2>1, OneRound
<1> QED
  BY <1>1, <1>2

-----------------------------------------------------------------------------
(* Types, and rounds that never overlap.                                    *)

\* The state a probe leaves.
LEMMA NextStateTyped ==
  ASSUME NEW previous \in States, NEW healthy \in BOOLEAN
  PROVE  /\ NextState(previous, healthy) \in States
         /\ NextState(previous, healthy).status = IF healthy THEN "healthy" ELSE "unhealthy"
         /\ NextState(previous, healthy).consecutiveFailures =
              IF healthy THEN 0
              ELSE IF previous.consecutiveFailures = FailBound THEN FailBound
              ELSE previous.consecutiveFailures + 1
<1>1. previous.consecutiveFailures \in 0..FailBound
  BY DEF States
<1> DEFINE n == IF healthy THEN 0
                ELSE IF previous.consecutiveFailures = FailBound THEN FailBound
                ELSE previous.consecutiveFailures + 1
<1>2. n \in 0..FailBound
  BY <1>1, MonitorAssumption
<1> QED
  BY <1>2 DEF NextState, States, Statuses

\* The probe that ends finds a typed previous state.
LEMMA PreviousTyped ==
  ASSUME Sound, NEW s \in Services, Probing(s)
  PROVE  /\ rounds[1].probes[s] \in Probes
         /\ rounds[1].probes[s].previous \in States
BY OneRound DEF Probing, Probes

HSound == HTypeOK /\ RoundsNeverOverlap

\* Nothing is probed and nothing counted at first.
LEMMA InitSound == HInit => HSound
<1> SUFFICES ASSUME HInit PROVE HSound
  OBVIOUS
<1>1. TypeOK
  <2>1. states \in [Services -> States]
    BY MonitorAssumption DEF HInit, Init, States, Statuses
  <2>2. changes \in [Services -> [from : Statuses, to : Statuses]]
    BY DEF HInit, Init, Statuses
  <2>3. rounds \in Seq(Rounds)
    BY DEF HInit, Init
  <2> QED
    BY <2>1, <2>2, <2>3 DEF HInit, Init, TypeOK
<1>2. RoundsNeverOverlap
  BY DEF HInit, Init, RoundsNeverOverlap
<1>3. AgeBound \in Nat /\ FailBound \in Nat
  BY MonitorAssumption, AgeAssumption
<1> QED
  BY <1>1, <1>2, <1>3 DEF HInit, HSound, HTypeOK

\* Age stays within its bound.
LEMMA OlderTyped ==
  ASSUME NEW age \in 0..AgeBound
  PROVE  /\ Older(age) \in 0..AgeBound
         /\ Older(age) <= age + 1
         /\ Older(age) = age + 1 \/ Older(age) = AgeBound
BY AgeAssumption DEF Older

\* What one step does to the monitor's own variables is typed.
LEMMA SoundStep == HSound /\ [HNext]_hvars => HSound'
<1> SUFFICES ASSUME HSound, [HNext]_hvars PROVE HSound'
  OBVIOUS
<1>0. Sound /\ HTypeOK /\ TypeOK
  BY DEF HSound, HTypeOK, Sound
<1> DEFINE Quiet == rounds' \in Seq(Rounds) /\ Len(rounds') \in {0, 1}
                    /\ (roundInFlight' <=> Len(rounds') = 1) /\ roundInFlight' \in BOOLEAN
<1>q. ASSUME Quiet PROVE RoundsNeverOverlap'
  <2>1. Len(rounds') = 0 => rounds' = <<>>
    BY <1>q
  <2>2. rounds' = <<>> => Len(rounds') = 0
    OBVIOUS
  <2>3. Len(rounds') <= 1
    <3>1. \A n \in {0, 1} : n <= 1
      OBVIOUS
    <3> QED
      BY <1>q, <3>1, Zenon
  <2>4. Len(rounds') = 1 <=> rounds' # <<>>
    BY <1>q, <2>1, <2>2
  <2>5. roundInFlight' <=> rounds' # <<>>
    BY <1>q, <2>4
  <2> QED
    BY <2>3, <2>5 DEF RoundsNeverOverlap
<1>r. ASSUME RunRound PROVE Quiet
  BY <1>0, <1>r, RunRoundEffect
<1>u. ASSUME rounds' = rounds, roundInFlight' = roundInFlight PROVE Quiet
  BY <1>0, <1>u, OneRound DEF TypeOK, Busy
<1> HIDE DEF Quiet
<1>1. CASE HStart
  <2>1. Quiet
    BY <1>1, <1>r DEF HStart, Start
  <2>2. timer' \in 0..Interval \cup {None}
    BY <1>1, MonitorAssumption DEF HStart, Start
  <2>3. TypeOK'
    BY <1>0, <1>1, <2>1, <2>2 DEF HStart, Start, TypeOK, Quiet
  <2>4. HTypeOK'
    BY <1>0, <1>1, <2>3, AgeAssumption DEF HStart, HTypeOK
  <2> QED
    BY <2>1, <2>4, <1>q DEF HSound
<1>2. CASE HRuns
  <2>1. CASE Stop
    <3>1. Quiet
      BY <2>1, <1>u DEF Stop
    <3>2. TypeOK'
      BY <1>0, <2>1 DEF Stop, TypeOK
    <3> QED
      BY <1>0, <1>2, <3>1, <3>2, <1>q DEF HRuns, HTypeOK, HSound
  <2>2. CASE IntervalFires
    <3>1. Quiet
      BY <2>2, <1>r DEF IntervalFires
    <3>2. timer' \in 0..Interval \cup {None}
      BY <2>2, MonitorAssumption DEF IntervalFires
    <3>3. TypeOK'
      BY <1>0, <2>2, <3>1, <3>2 DEF IntervalFires, TypeOK, Quiet
    <3> QED
      BY <1>0, <1>2, <3>1, <3>3, <1>q DEF HRuns, HTypeOK, HSound
  <2>3. CASE ForceCheck
    <3>1. Quiet
      BY <2>3, <1>r DEF ForceCheck
    <3>2. TypeOK'
      BY <1>0, <2>3, <3>1 DEF ForceCheck, TypeOK, Quiet
    <3> QED
      BY <1>0, <1>2, <3>1, <3>2, <1>q DEF HRuns, HTypeOK, HSound
  <2>4. ASSUME NEW i \in DOMAIN rounds, NEW s \in Services, Answered(i, s)
        PROVE  HSound'
    <3>1. Quiet
      BY <1>0, <2>4, AnsweredEffect, OneRound DEF Quiet, Answered
    <3>2. TypeOK'
      BY <1>0, <2>4, <3>1 DEF Answered, TypeOK, Quiet
    <3> QED
      BY <1>0, <1>2, <3>1, <3>2, <1>q DEF HRuns, HTypeOK, HSound
  <2> QED
    BY <1>2, <2>1, <2>2, <2>3, <2>4 DEF HRuns
<1>3. ASSUME NEW i \in DOMAIN rounds, NEW s \in Services, NEW healthy \in BOOLEAN,
             HProbeEnds(i, s, healthy)
      PROVE  HSound'
  <2>0. AfterRound(i, s, healthy) /\ InFlight(i, s)
    BY <1>3 DEF HProbeEnds, ProbeEnds
  <2>1. Quiet
    <3>1. roundInFlight' \in BOOLEAN
      BY <2>0 DEF AfterRound
    <3> QED
      BY <1>0, <2>0, <3>1, AfterRoundEffect DEF Quiet
  <2> DEFINE previous == rounds[1].probes[s].previous
             next == NextState(previous, healthy)
  <2>2. i = 1 /\ Probing(s)
    BY <1>0, <2>0, AfterRoundEffect
  <2>3. previous \in States /\ next \in States
    BY <1>0, <2>2, PreviousTyped, NextStateTyped
  <2>4. /\ states' = [states EXCEPT ![s] = next]
        /\ changes' = [changes EXCEPT ![s] = Reported(s, previous, next)]
        /\ timer' = timer /\ up' = up
    BY <1>3, <2>2 DEF HProbeEnds, ProbeEnds
  <2>5. Reported(s, previous, next) \in [from : Statuses, to : Statuses]
    BY <1>0, <2>3 DEF Reported, TypeOK, States
  <2>6. TypeOK'
    BY <1>0, <2>1, <2>3, <2>4, <2>5 DEF TypeOK, Quiet
  <2>7. /\ checkedAge' \in [Services -> 0..AgeBound]
        /\ streak' \in [Services -> 0..FailBound]
        /\ UNCHANGED <<upAge, runningFor>>
    BY <1>0, <1>3, AgeAssumption, MonitorAssumption DEF HProbeEnds, HTypeOK
  <2> QED
    BY <1>0, <2>1, <2>6, <2>7, <1>q DEF HTypeOK, HSound
<1>4. ASSUME NEW s \in Services, HSwitch(s)
      PROVE  HSound'
  <2>1. Quiet
    BY <1>4, <1>u DEF HSwitch, Switch
  <2>2. TypeOK'
    BY <1>0, <1>4 DEF HSwitch, Switch, TypeOK
  <2> QED
    BY <1>0, <1>4, <2>1, <2>2, <1>q, AgeAssumption DEF HSwitch, HTypeOK, HSound
<1>5. CASE HTick
  <2>1. Quiet
    <3>1. rounds' \in Seq(Rounds) /\ Len(rounds') = Len(rounds)
      BY <1>0, <1>5, TickEffect DEF HTick
    <3>2. roundInFlight' = roundInFlight
      BY <1>5 DEF HTick, Tick
    <3>3. roundInFlight' <=> Len(rounds') = 1
      BY <1>0, <3>1, <3>2, OneRound DEF Busy
    <3>4. Len(rounds') \in {0, 1}
      BY <1>0, <3>1, OneRound
    <3>5. roundInFlight' \in BOOLEAN
      BY <1>0, <3>2 DEF TypeOK
    <3> QED
      BY <3>1, <3>3, <3>4, <3>5 DEF Quiet
  <2>2. timer' \in 0..Interval \cup {None}
    BY <1>0, <1>5, MonitorAssumption DEF HTick, Tick, TypeOK
  <2>3. TypeOK'
    BY <1>0, <1>5, <2>1, <2>2 DEF HTick, Tick, TypeOK, Quiet
  <2>4. /\ checkedAge' \in [Services -> 0..AgeBound]
        /\ upAge' \in [Services -> 0..AgeBound]
        /\ runningFor' \in 0..AgeBound
    BY <1>0, <1>5, OlderTyped, AgeAssumption DEF HTick, HTypeOK
  <2> QED
    BY <1>0, <1>5, <2>1, <2>3, <2>4, <1>q DEF HTick, HTypeOK, HSound
<1>6. CASE UNCHANGED hvars
  BY <1>6 DEF hvars, HSound, HTypeOK, TypeOK, RoundsNeverOverlap
<1> QED
  BY <1>1, <1>2, <1>3, <1>4, <1>5, <1>6 DEF HNext

-----------------------------------------------------------------------------
(* Counts and events tell the truth.                                        *)

\* A probe in flight still finds the state it read, which is why the count of
\* failures and the events it computes from it are right.
Truthful ==
  \A s \in Services :
    /\ states[s].consecutiveFailures = streak[s]
    /\ changes[s].to = states[s].status
    /\ Probing(s) => rounds[1].probes[s].previous = states[s]

\* A round that starts or goes on probes the states it finds.
LEMMA TruthfulRun ==
  ASSUME Sound, Truthful, RunRound, UNCHANGED <<states, changes, streak>>
  PROVE  Truthful'
<1> SUFFICES ASSUME NEW s \in Services, Probing(s)'
             PROVE  (rounds[1].probes[s].previous = states[s])'
  BY DEF Truthful
<1>1. CASE Busy
  BY <1>1, RunRoundEffect DEF Truthful, Probing
<1>2. CASE ~Busy
  BY <1>2, RunRoundEffect, NewRoundTyped DEF Probing
<1> QED
  BY <1>1, <1>2

\* The event of a probe's end, and its count.
LEMMA TruthfulProbe ==
  ASSUME HSound, Truthful, NEW i \in DOMAIN rounds, NEW s \in Services,
         NEW healthy \in BOOLEAN, HProbeEnds(i, s, healthy)
  PROVE  /\ Truthful'
         /\ \A o \in Services : changes'[o] # changes[o] => changes'[o].from = changes[o].to
<1>0. Sound /\ TypeOK /\ HTypeOK
  BY DEF HSound, HTypeOK, Sound
<1>1. AfterRound(i, s, healthy) /\ InFlight(i, s)
  BY DEF HProbeEnds, ProbeEnds
<1>2. i = 1 /\ Probing(s)
  BY <1>0, <1>1, AfterRoundEffect
<1>3. rounds[1].probes[s].previous = states[s] /\ states[s] \in States
  BY <1>0, <1>2 DEF Truthful, TypeOK
<1> DEFINE next == NextState(states[s], healthy)
<1>4. /\ states' = [states EXCEPT ![s] = next]
      /\ changes' = [changes EXCEPT ![s] = Reported(s, states[s], next)]
      /\ streak' = [streak EXCEPT ![s] =
           IF healthy THEN 0 ELSE IF @ < FailBound THEN @ + 1 ELSE @]
  BY <1>2, <1>3 DEF HProbeEnds, ProbeEnds
<1>5. /\ states[s].consecutiveFailures = streak[s]
      /\ streak[s] \in 0..FailBound
      /\ changes[s].to = states[s].status
  BY <1>0 DEF Truthful, HTypeOK
<1>6. next.consecutiveFailures = streak'[s]
  <2>1. streak'[s] = IF healthy THEN 0 ELSE IF streak[s] < FailBound THEN streak[s] + 1 ELSE streak[s]
    BY <1>0, <1>4 DEF HTypeOK
  <2>2. streak[s] < FailBound <=> streak[s] # FailBound
    BY <1>5, MonitorAssumption
  <2> QED
    BY <1>3, <1>5, <2>1, <2>2, NextStateTyped
<1>7. /\ Reported(s, states[s], next).to = next.status
      /\ Reported(s, states[s], next) # changes[s] =>
           Reported(s, states[s], next).from = changes[s].to
  BY <1>5 DEF Reported
<1> HIDE DEF next
<1>8. /\ states'[s] = next
      /\ changes'[s] = Reported(s, states[s], next)
      /\ \A o \in Services \ {s} :
           states'[o] = states[o] /\ changes'[o] = changes[o] /\ streak'[o] = streak[o]
  BY <1>0, <1>4 DEF TypeOK, HTypeOK
<1>9. ASSUME NEW o \in Services, Probing(o)'
      PROVE  rounds'[1].probes[o].previous = states'[o]
  <2>1. Len(rounds') = 1
    BY <1>9 DEF Probing, Busy
  <2>2. rounds'[1].probes[o] # None
    BY <1>9 DEF Probing
  <2>3. o # s /\ rounds'[1].probes[o] = rounds[1].probes[o]
    BY <1>0, <1>1, <2>1, <2>2, AfterRoundEffect
  <2>4. Probing(o)
    BY <1>2, <2>2, <2>3 DEF Probing
  <2> QED
    BY <1>8, <2>3, <2>4 DEF Truthful
<1>10. Truthful'
  <2> SUFFICES ASSUME NEW o \in Services
               PROVE  /\ states'[o].consecutiveFailures = streak'[o]
                      /\ changes'[o].to = states'[o].status
    BY <1>9 DEF Truthful
  <2>1. CASE o = s
    BY <1>6, <1>7, <1>8, <2>1
  <2>2. CASE o # s
    BY <1>8, <2>2 DEF Truthful
  <2> QED
    BY <2>1, <2>2
<1> QED
  BY <1>7, <1>8, <1>10

\* Every other step leaves the events alone.
LEMMA TruthfulStep ==
  ASSUME HSound, Truthful, [HNext]_hvars
  PROVE  /\ Truthful'
         /\ \A o \in Services : changes'[o] # changes[o] => changes'[o].from = changes[o].to
<1>0. Sound
  BY DEF HSound, HTypeOK, Sound
<1>1. CASE HStart
  BY <1>0, <1>1, TruthfulRun DEF HStart, Start
<1>2. CASE HRuns
  <2>1. CASE Stop
    BY <1>2, <2>1 DEF HRuns, Stop, Truthful, Probing, Busy
  <2>2. CASE IntervalFires
    BY <1>0, <1>2, <2>2, TruthfulRun DEF HRuns, IntervalFires
  <2>3. CASE ForceCheck
    BY <1>0, <1>2, <2>3, TruthfulRun DEF HRuns, ForceCheck
  <2>4. ASSUME NEW i \in DOMAIN rounds, NEW s \in Services, Answered(i, s)
        PROVE  Truthful' /\ changes' = changes
    <3>1. UNCHANGED <<states, changes, streak>>
      BY <1>2, <2>4 DEF HRuns, Answered
    <3>2. ASSUME NEW o \in Services, Probing(o)'
          PROVE  rounds'[1].probes[o].previous = states'[o]
      <4>1. CASE o = s
        BY <1>0, <2>4, <3>1, <4>1, AnsweredEffect DEF Truthful
      <4>2. CASE o # s
        <5>1. rounds'[1].probes[o] = rounds[1].probes[o] /\ Busy
          BY <1>0, <2>4, <4>2, AnsweredEffect
        <5>2. Probing(o)
          BY <3>2, <5>1 DEF Probing
        <5> QED
          BY <3>1, <5>1, <5>2 DEF Truthful
      <4> QED
        BY <4>1, <4>2
    <3> QED
      BY <3>1, <3>2 DEF Truthful
  <2> QED
    BY <1>2, <2>1, <2>2, <2>3, <2>4 DEF HRuns, Stop, IntervalFires, ForceCheck
<1>3. ASSUME NEW i \in DOMAIN rounds, NEW s \in Services, NEW healthy \in BOOLEAN,
             HProbeEnds(i, s, healthy)
      PROVE  /\ Truthful'
             /\ \A o \in Services : changes'[o] # changes[o] => changes'[o].from = changes[o].to
  BY <1>3, TruthfulProbe
<1>4. ASSUME NEW s \in Services, HSwitch(s)
      PROVE  Truthful' /\ changes' = changes
  BY <1>4 DEF HSwitch, Switch, Truthful, Probing, Busy
<1>5. CASE HTick
  <2>1. UNCHANGED <<states, changes, streak>>
    BY <1>5 DEF HTick, Tick
  <2>2. ASSUME NEW o \in Services, Probing(o)'
        PROVE  Probing(o) /\ rounds'[1].probes[o] = rounds[1].probes[o]
    BY <1>0, <1>5, <2>2, TickEffect DEF HTick, Probing, Busy
  <2> QED
    BY <2>1, <2>2 DEF Truthful
<1>6. CASE UNCHANGED hvars
  BY <1>6 DEF hvars, Truthful, Probing, Busy
<1> QED
  BY <1>1, <1>2, <1>3, <1>4, <1>5, <1>6 DEF HNext, HStart, Start

-----------------------------------------------------------------------------
(* Snapshots are fresh.                                                     *)

\* The time to the next look at a service that has none under way.
Reach == ProbeTimeout + Interval

\* A check in this round is no older than the round.  Between two rounds the
\* interval has not fired since the last check but for the ProbeTimeout ticks
\* of a round that made it skip; a probe under way adds the round's age.
CheckedInv(s) ==
  /\ Busy /\ ~Probing(s) => checkedAge[s] <= rounds[1].age
  /\ timer # None /\ ~Busy => checkedAge[s] + timer <= Reach
  /\ timer # None /\ Probing(s) => checkedAge[s] <= Reach + rounds[1].age

\* Only a service whose first probe is under way is unknown to a running monitor.
KnownInv(s) ==
  /\ Busy /\ ~Probing(s) => states[s].status # "unknown"
  /\ timer # None /\ ~Busy => states[s].status # "unknown"
  /\ timer # None /\ Probing(s) /\ states[s].status = "unknown" =>
       runningFor <= rounds[1].age

\* The same for the time since a service taken for healthy was up; what was
\* found before monitoring started may be older.
UpInv(s) ==
  /\ up[s] => upAge[s] = 0
  /\ Probing(s) /\ rounds[1].probes[s].answer = "healthy" => upAge[s] <= rounds[1].age
  /\ Busy /\ ~Probing(s) /\ IsHealthy(s) => upAge[s] <= rounds[1].age
  /\ timer # None /\ ~Busy /\ IsHealthy(s) => upAge[s] + timer <= Reach
  /\ timer # None /\ Probing(s) /\ IsHealthy(s) =>
       upAge[s] <= Reach + rounds[1].age \/ runningFor <= rounds[1].age

AgesInv(s) == CheckedInv(s) /\ KnownInv(s) /\ UpInv(s)

\* The numbers the invariant is about.
LEMMA Numbers ==
  ASSUME HSound, NEW s \in Services
  PROVE  /\ checkedAge[s] \in 0..AgeBound /\ upAge[s] \in 0..AgeBound
         /\ runningFor \in 0..AgeBound
         /\ timer # None => timer \in 0..Interval
         /\ Busy => rounds[1].age \in 0..ProbeTimeout
         /\ ProbeTimeout \in Nat /\ Interval \in Nat /\ Reach \in Nat /\ AgeBound \in Nat
         /\ up[s] \in BOOLEAN
         /\ None # Interval
<1>1. Sound
  BY DEF HSound, HTypeOK, Sound
<1> QED
  BY <1>1, OneRound, MonitorAssumption, AgeAssumption DEF HSound, HTypeOK, TypeOK, Reach

\* A round starts, or the interval finds one in flight.
LEMMA AgesFire ==
  ASSUME HSound, NEW s \in Services, AgesInv(s), IntervalFires \/ ForceCheck,
         UNCHANGED <<checkedAge, upAge, runningFor, streak>>
  PROVE  AgesInv(s)'
<1>0. Sound /\ RunRound
  BY DEF HSound, HTypeOK, Sound, IntervalFires, ForceCheck
<1>1. UNCHANGED <<states, up>> /\ (timer' # None => timer # None)
  BY MonitorAssumption DEF IntervalFires, ForceCheck
<1>2. CASE Busy
  <2>1. rounds' = rounds /\ Busy' /\ (Probing(s)' <=> Probing(s))
    BY <1>0, <1>2, RunRoundEffect DEF Busy, Probing
  <2> QED
    BY <1>1, <1>2, <2>1 DEF AgesInv, CheckedInv, KnownInv, UpInv, IsHealthy
<1>3. CASE ~Busy
  <2>1. /\ Busy' /\ Probing(s)'
        /\ (rounds[1].age)' = 0
        /\ (rounds[1].probes[s].answer)' = "none"
    BY <1>0, <1>3, RunRoundEffect, NewRoundTyped DEF Busy, Probing
  <2>2. CheckedInv(s)'
    BY <1>1, <1>3, <2>1, Numbers DEF AgesInv, CheckedInv, Reach
  <2>3. KnownInv(s)'
    BY <1>1, <1>3, <2>1 DEF AgesInv, KnownInv
  <2>4. UpInv(s)'
    BY <1>1, <1>3, <2>1, Numbers DEF AgesInv, UpInv, IsHealthy, Reach
  <2> QED
    BY <2>2, <2>3, <2>4 DEF AgesInv
<1> QED
  BY <1>2, <1>3

\* Monitoring starts, possibly in the middle of a forced round.
LEMMA AgesStart ==
  ASSUME HSound, NEW s \in Services, AgesInv(s), HStart
  PROVE  AgesInv(s)'
<1>0. Sound /\ RunRound
  BY DEF HSound, HTypeOK, Sound, HStart, Start
<1>1. UNCHANGED <<states, up, upAge>> /\ runningFor' = 0 /\ checkedAge'[s] = 0
  BY DEF HStart, Start
<1>2. CASE Busy
  <2>1. rounds' = rounds /\ Busy' /\ (Probing(s)' <=> Probing(s))
    BY <1>0, <1>2, RunRoundEffect DEF Busy, Probing
  <2> QED
    BY <1>1, <1>2, <2>1, Numbers DEF AgesInv, CheckedInv, KnownInv, UpInv, IsHealthy
<1>3. CASE ~Busy
  <2>1. /\ Busy' /\ Probing(s)'
        /\ (rounds[1].age)' = 0
        /\ (rounds[1].probes[s].answer)' = "none"
    BY <1>0, <1>3, RunRoundEffect, NewRoundTyped DEF Busy, Probing
  <2> QED
    BY <1>1, <2>1, Numbers DEF AgesInv, CheckedInv, KnownInv, UpInv, IsHealthy
<1> QED
  BY <1>2, <1>3

\* The service answers.
LEMMA AgesAnswered ==
  ASSUME HSound, NEW s \in Services, AgesInv(s),
         NEW i \in DOMAIN rounds, NEW o \in Services, Answered(i, o),
         UNCHANGED <<checkedAge, upAge, runningFor, streak>>
  PROVE  AgesInv(s)'
<1>0. Sound
  BY DEF HSound, HTypeOK, Sound
<1>1. UNCHANGED <<states, up, timer>>
  BY DEF Answered
<1>2. Busy /\ Busy' /\ (rounds[1].age)' = rounds[1].age
  BY <1>0, AnsweredEffect DEF Busy
<1>3. Probing(s)' <=> Probing(s)
  BY <1>0, <1>2, AnsweredEffect DEF Probing
<1>4. (rounds[1].probes[s].answer)' = "healthy" =>
        up[s] \/ (rounds[1].probes[s].answer)' = rounds[1].probes[s].answer
  BY <1>0, AnsweredEffect
<1>5. CheckedInv(s)' /\ KnownInv(s)'
  BY <1>1, <1>2, <1>3 DEF AgesInv, CheckedInv, KnownInv
<1>6. UpInv(s)'
  BY <1>1, <1>2, <1>3, <1>4, Numbers DEF AgesInv, UpInv, IsHealthy
<1> QED
  BY <1>5, <1>6 DEF AgesInv

\* A probe ends, and perhaps the round with it.
LEMMA AgesProbe ==
  ASSUME HSound, \A o \in Services : AgesInv(o), NEW s \in Services,
         NEW i \in DOMAIN rounds, NEW o \in Services, NEW healthy \in BOOLEAN,
         HProbeEnds(i, o, healthy)
  PROVE  AgesInv(s)'
<1>0. Sound /\ TypeOK /\ HTypeOK
  BY DEF HSound, HTypeOK, Sound
<1>1. AfterRound(i, o, healthy) /\ InFlight(i, o)
  BY DEF HProbeEnds, ProbeEnds
<1>2. i = 1 /\ Busy /\ Probing(o)
  BY <1>0, <1>1, AfterRoundEffect
<1>3. /\ UNCHANGED <<timer, up, upAge, runningFor>>
      /\ healthy => rounds[1].probes[o].answer = "healthy"
  BY <1>2 DEF HProbeEnds, ProbeEnds, Verdicts
<1>4. /\ states'[o].status = IF healthy THEN "healthy" ELSE "unhealthy"
      /\ checkedAge'[o] = 0
      /\ o # s => states'[s] = states[s] /\ checkedAge'[s] = checkedAge[s]
  <2>1. /\ states' = [states EXCEPT ![o] = NextState(rounds[1].probes[o].previous, healthy)]
        /\ checkedAge' = [checkedAge EXCEPT ![o] = 0]
    BY <1>2 DEF HProbeEnds, ProbeEnds
  <2> QED
    BY <1>0, <1>2, <2>1, PreviousTyped, NextStateTyped DEF TypeOK, HTypeOK
<1>5. AgesInv(s) /\ AgesInv(o)
  OBVIOUS
<1>6. CASE Len(rounds') = 1
  <2>1. Busy' /\ (rounds[1].age)' = rounds[1].age
    BY <1>0, <1>1, <1>6, AfterRoundEffect DEF Busy
  <2>2. CASE o = s
    <3>1. ~Probing(s)'
      BY <1>0, <1>1, <1>6, <2>2, AfterRoundEffect DEF Probing
    <3> QED
      BY <1>2, <1>3, <1>4, <1>5, <2>1, <2>2, <3>1, Numbers
      DEF AgesInv, CheckedInv, KnownInv, UpInv, IsHealthy
  <2>3. CASE o # s
    <3>1. rounds'[1].probes[s] = rounds[1].probes[s]
      BY <1>0, <1>1, <1>6, <2>3, AfterRoundEffect
    <3>2. Probing(s)' <=> Probing(s)
      BY <1>2, <2>1, <3>1 DEF Probing
    <3> QED
      BY <1>2, <1>3, <1>4, <1>5, <2>1, <2>3, <3>1, <3>2
      DEF AgesInv, CheckedInv, KnownInv, UpInv, IsHealthy
  <2> QED
    BY <2>2, <2>3
<1>7. CASE Len(rounds') = 0
  <2>1. ~Busy' /\ ~Probing(s)'
    BY <1>7 DEF Busy, Probing
  <2>2. o # s => ~Probing(s)
    BY <1>0, <1>1, <1>7, AfterRoundEffect
  <2>3. checkedAge'[s] <= ProbeTimeout
    BY <1>2, <1>4, <1>5, <2>2, Numbers DEF AgesInv, CheckedInv
  <2>4. states'[s].status # "unknown"
    BY <1>2, <1>4, <1>5, <2>2 DEF AgesInv, KnownInv
  <2>5. states'[s].status = "healthy" => upAge[s] <= ProbeTimeout
    <3>1. CASE o = s
      BY <1>2, <1>3, <1>4, <1>5, <3>1, Numbers DEF AgesInv, UpInv
    <3>2. CASE o # s
      BY <1>2, <1>4, <1>5, <2>2, <3>2, Numbers DEF AgesInv, UpInv, IsHealthy
    <3> QED
      BY <3>1, <3>2
  <2>6. timer # None => timer <= Interval
    BY Numbers
  <2>7. checkedAge'[s] \in Nat
    BY <1>0, <1>4, Numbers
  <2>8. CheckedInv(s)'
    BY <1>3, <2>1, <2>3, <2>6, <2>7, Numbers DEF CheckedInv, Reach
  <2>9. KnownInv(s)'
    BY <2>1, <2>4 DEF KnownInv
  <2>10. UpInv(s)'
    BY <1>3, <1>5, <2>1, <2>5, <2>6, Numbers DEF AgesInv, UpInv, IsHealthy, Reach
  <2> QED
    BY <2>8, <2>9, <2>10 DEF AgesInv
<1> QED
  BY <1>0, <1>1, <1>6, <1>7, AfterRoundEffect

\* Time passes.
LEMMA AgesTick ==
  ASSUME HSound, NEW s \in Services, AgesInv(s), HTick
  PROVE  AgesInv(s)'
<1>0. Sound
  BY DEF HSound, HTypeOK, Sound
<1>1. UNCHANGED <<states, up>>
  BY DEF HTick, Tick
<1>2. /\ checkedAge'[s] \in Nat /\ checkedAge'[s] <= checkedAge[s] + 1
      /\ upAge'[s] \in Nat /\ upAge'[s] <= upAge[s] + 1
      /\ up[s] => upAge'[s] = 0
      /\ runningFor' \in Nat /\ runningFor' <= runningFor + 1
  BY Numbers, OlderTyped DEF HTick
<1>3. timer' # None => timer # None /\ timer \in Nat /\ timer' = timer - 1 /\ timer' \in Nat
  BY Numbers, MonitorAssumption DEF HTick, Tick
<1>4. CASE Busy
  <2>1. /\ Busy' /\ (Probing(s)' <=> Probing(s))
        /\ (rounds[1].age)' = rounds[1].age + 1
        /\ rounds'[1].probes[s] = rounds[1].probes[s]
    BY <1>0, <1>4, TickEffect DEF HTick, Busy, Probing
  <2>2. CheckedInv(s)'
    BY <1>2, <1>3, <1>4, <2>1, Numbers DEF AgesInv, CheckedInv
  <2>3. KnownInv(s)'
    BY <1>1, <1>2, <1>3, <1>4, <2>1, Numbers DEF AgesInv, KnownInv
  <2>4. UpInv(s)'
    BY <1>1, <1>2, <1>3, <1>4, <2>1, Numbers DEF AgesInv, UpInv, IsHealthy
  <2> QED
    BY <2>2, <2>3, <2>4 DEF AgesInv
<1>5. CASE ~Busy
  <2>1. ~Busy' /\ ~Probing(s)'
    BY <1>0, <1>5, TickEffect DEF HTick, Busy, Probing
  <2>2. CheckedInv(s)'
    BY <1>2, <1>3, <1>5, <2>1, Numbers DEF AgesInv, CheckedInv
  <2>3. KnownInv(s)'
    BY <1>1, <1>3, <1>5, <2>1 DEF AgesInv, KnownInv
  <2>4. UpInv(s)'
    BY <1>1, <1>2, <1>3, <1>5, <2>1, Numbers DEF AgesInv, UpInv, IsHealthy
  <2> QED
    BY <2>2, <2>3, <2>4 DEF AgesInv
<1> QED
  BY <1>4, <1>5

-----------------------------------------------------------------------------
(* The theorems.                                                            *)

HealthInv == HSound /\ Truthful /\ \A s \in Services : AgesInv(s)

\* All parts of the invariant hold at first.
LEMMA HealthInvInit == HInit => HealthInv
<1> SUFFICES ASSUME HInit PROVE HealthInv
  OBVIOUS
<1>1. ~Busy /\ timer = None
  BY DEF HInit, Init, Busy
<1>2. Truthful
  BY <1>1 DEF HInit, Init, Truthful, Probing
<1>3. ASSUME NEW s \in Services PROVE AgesInv(s)
  BY <1>1 DEF HInit, Init, AgesInv, CheckedInv, KnownInv, UpInv, Probing
<1> QED
  BY <1>2, <1>3, InitSound DEF HealthInv

\* Every step preserves them.
LEMMA HealthInvStep == HealthInv /\ [HNext]_hvars => HealthInv'
<1> SUFFICES ASSUME HealthInv, [HNext]_hvars PROVE HealthInv'
  OBVIOUS
<1>0. HSound /\ Truthful /\ \A s \in Services : AgesInv(s)
  BY DEF HealthInv
<1>1. HSound' /\ Truthful'
  BY <1>0, SoundStep, TruthfulStep
<1>2. ASSUME NEW s \in Services PROVE AgesInv(s)'
  <2>1. CASE HStart
    BY <1>0, <2>1, AgesStart
  <2>2. CASE HRuns
    <3>1. CASE Stop
      <4>1. timer' = None /\ UNCHANGED <<states, up, rounds, checkedAge, upAge, runningFor>>
        BY <2>2, <3>1 DEF HRuns, Stop
      <4> QED
        BY <1>0, <4>1 DEF AgesInv, CheckedInv, KnownInv, UpInv, IsHealthy, Probing, Busy
    <3>2. CASE IntervalFires \/ ForceCheck
      BY <1>0, <2>2, <3>2, AgesFire DEF HRuns
    <3>3. CASE \E i \in DOMAIN rounds, o \in Services : Answered(i, o)
      BY <1>0, <2>2, <3>3, AgesAnswered DEF HRuns
    <3> QED
      BY <2>2, <3>1, <3>2, <3>3 DEF HRuns
  <2>3. ASSUME NEW i \in DOMAIN rounds, NEW o \in Services, NEW healthy \in BOOLEAN,
               HProbeEnds(i, o, healthy)
        PROVE  AgesInv(s)'
    BY <1>0, <2>3, AgesProbe
  <2>4. ASSUME NEW o \in Services, HSwitch(o)
        PROVE  AgesInv(s)'
    <3>1. UNCHANGED <<states, rounds, timer, checkedAge, runningFor>>
      BY <2>4 DEF HSwitch, Switch
    <3>2. IF s = o THEN upAge'[s] = 0 ELSE upAge'[s] = upAge[s] /\ up'[s] = up[s]
      BY <1>0, <2>4 DEF HSwitch, Switch, HSound, HTypeOK, TypeOK
    <3>3. AgesInv(s)
      BY <1>0
    <3>4. CheckedInv(s)' /\ KnownInv(s)'
      BY <3>1, <3>3 DEF AgesInv, CheckedInv, KnownInv, Probing, Busy
    <3>5. CASE s = o
      <4>1. upAge'[s] = 0 /\ HSound
        BY <1>0, <3>2, <3>5
      <4> QED
        BY <3>1, <3>4, <4>1, Numbers DEF AgesInv, UpInv, Reach, Busy, Probing
    <3>6. CASE s # o
      <4>1. upAge'[s] = upAge[s] /\ up'[s] = up[s]
        BY <3>2, <3>6
      <4> QED
        BY <3>1, <3>3, <3>4, <4>1 DEF AgesInv, UpInv, IsHealthy, Probing, Busy
    <3> QED
      BY <3>5, <3>6
  <2>5. CASE HTick
    BY <1>0, <2>5, AgesTick
  <2>6. CASE UNCHANGED hvars
    BY <1>0, <2>6 DEF hvars, AgesInv, CheckedInv, KnownInv, UpInv, IsHealthy, Probing, Busy
  <2> QED
    BY <2>1, <2>2, <2>3, <2>4, <2>5, <2>6 DEF HNext
<1> QED
  BY <1>1, <1>2 DEF HealthInv

\* The strengthening of everything below.
LEMMA HealthInvariant == HSpec => []HealthInv
  BY HealthInvInit, HealthInvStep, PTL DEF HSpec

\* Snapshots stay well formed and no probe outlives its deadline.
THEOREM HealthTypeCorrect == HSpec => []HTypeOK
<1>1. HealthInv => HTypeOK
  BY DEF HealthInv, HSound
<1> QED
  BY <1>1, HealthInvariant, PTL

\* Rounds never overlap, whatever mixture of interval and forced checks starts them.
THEOREM RoundsAreDisjoint == HSpec => []RoundsNeverOverlap
<1>1. HealthInv => RoundsNeverOverlap
  BY DEF HealthInv, HSound
<1> QED
  BY <1>1, HealthInvariant, PTL

\* consecutiveFailures counts the probes that failed in a row.
THEOREM FailuresAreCounted == HSpec => []FailuresCounted
<1>1. HealthInv => FailuresCounted
  BY DEF HealthInv, Truthful, FailuresCounted
<1> QED
  BY <1>1, HealthInvariant, PTL

\* The last HEALTH_CHANGED event of a service names its status.
THEOREM ChangesAreTold == HSpec => []ChangesTellStatus
<1>1. HealthInv => ChangesTellStatus
  BY DEF HealthInv, Truthful, ChangesTellStatus
<1> QED
  BY <1>1, HealthInvariant, PTL

\* Each HEALTH_CHANGED event takes up where the last one of its service ended.
THEOREM ChangesAreChained == HSpec => ChangesChain
<1>1. HealthInv /\ [HNext]_hvars =>
        [\A s \in Services : changes'[s] # changes[s] => changes'[s].from = changes[s].to]_hvars
  BY TruthfulStep DEF HealthInv
<1> QED
  BY <1>1, HealthInvariant, PTL DEF HSpec, ChangesChain

\* The events of every service, read in a row, are the history of its status.
THEOREM ChangesAreFaithful == HSpec => ChangesFaithful
  BY ChangesAreTold, ChangesAreChained DEF ChangesFaithful

\* A running monitor checks every service again within MaxAge.
THEOREM AgesStayBounded == HSpec => []AgesBounded
<1>1. HealthInv => AgesBounded
  <2> SUFFICES ASSUME HealthInv, timer # None, NEW s \in Services
               PROVE  checkedAge[s] <= MaxAge
    BY DEF AgesBounded
  <2>1. HSound /\ CheckedInv(s)
    BY DEF HealthInv, AgesInv
  <2>2. CASE Busy
    BY <2>1, <2>2, Numbers DEF CheckedInv, Reach, MaxAge
  <2>3. CASE ~Busy
    BY <2>1, <2>3, Numbers DEF CheckedInv, Reach, MaxAge
  <2> QED
    BY <2>2, <2>3
<1> QED
  BY <1>1, HealthInvariant, PTL

\* A monitor that has run for longer than a probe may take knows every service.
THEOREM BootWindowEnds == HSpec => []BootWindowBounded
<1>1. HealthInv => BootWindowBounded
  <2> SUFFICES ASSUME HealthInv, timer # None, runningFor > ProbeTimeout, NEW s \in Services,
                      states[s].status = "unknown"
               PROVE  FALSE
    BY DEF BootWindowBounded
  <2>1. HSound /\ KnownInv(s)
    BY DEF HealthInv, AgesInv
  <2>2. Busy /\ Probing(s) /\ runningFor <= rounds[1].age
    BY <2>1 DEF KnownInv
  <2> QED
    BY <2>1, <2>2, Numbers
<1> QED
  BY <1>1, HealthInvariant, PTL

\* Every snapshot of a running monitor was checked, and within MaxAge.
THEOREM SnapshotsStayFresh == HSpec => []SnapshotsAreFresh
  BY AgesStayBounded, BootWindowEnds, PTL DEF SnapshotsAreFresh

\* A service that passes the health gate was up within MaxAge.
THEOREM HealthyIsRecent == HSpec => []HealthyWasUp
<1>1. HealthInv => HealthyWasUp
  <2> SUFFICES ASSUME HealthInv, timer # None, runningFor > ProbeTimeout, NEW s \in Services,
                      IsHealthy(s)
               PROVE  upAge[s] <= MaxAge
    BY DEF HealthyWasUp
  <2>1. HSound /\ UpInv(s)
    BY DEF HealthInv, AgesInv
  <2>2. CASE Busy
    <3>1. CASE Probing(s)
      BY <2>1, <2>2, <3>1, Numbers DEF UpInv, Reach, MaxAge
    <3>2. CASE ~Probing(s)
      BY <2>1, <2>2, <3>2, Numbers DEF UpInv, Reach, MaxAge
    <3> QED
      BY <3>1, <3>2
  <2>3. CASE ~Busy
    BY <2>1, <2>3, Numbers DEF UpInv, Reach, MaxAge
  <2> QED
    BY <2>2, <2>3
<1> QED
  BY <1>1, HealthInvariant, PTL

-----------------------------------------------------------------------------
(* AnomalyDetection                                                         *)

(* A window grows to its size and no further, and keeps to the values it is *)
(* given.                                                                   *)
LEMMA PushedFits ==
  ASSUME NEW S, NEW w \in Seq(S), NEW v \in S, Len(w) <= WindowSize
  PROVE  /\ Pushed(w, v) \in Seq(S)
         /\ Len(Pushed(w, v)) <= WindowSize
<1> DEFINE all == Append(w, v)
<1>1. all \in Seq(S) /\ Len(all) = Len(w) + 1 /\ Len(w) \in Nat
  OBVIOUS
<1>2. CASE Len(all) > WindowSize
  <2>1. Len(all) = WindowSize + 1 /\ WindowSize \in Nat
    BY <1>1, <1>2, WindowAssumption
  <2>2. /\ SubSeq(all, 2, Len(all)) \in Seq(S)
        /\ Len(SubSeq(all, 2, Len(all))) = WindowSize
    BY <1>1, <2>1
  <2> QED
    BY <1>2, <2>1, <2>2 DEF Pushed
<1>3. CASE ~(Len(all) > WindowSize)
  BY <1>1, <1>3, WindowAssumption DEF Pushed
<1> QED
  BY <1>2, <1>3

(* The error rate of an interval is a proportion.                          *)
LEMMA ErrorRateIsProportion ==
  ASSUME growth.requests \in Nat, growth.failures \in Nat
  PROVE  ErrorRate \in 0..RateScale
<1>1. CASE growth.failures >= growth.requests
  BY <1>1, DetectorAssumption DEF ErrorRate
<1>2. CASE growth.failures < growth.requests
  <2> DEFINE f == growth.failures
             r == growth.requests
             q == (RateScale * f) \div r
  <2>1. r \in Nat \ {0} /\ f \in Nat /\ RateScale \in Nat /\ f < r
    BY <1>2, DetectorAssumption
  <2>2. RateScale * f \in Nat /\ RateScale * f <= RateScale * r
    <3> HIDE DEF f, r
    <3> QED BY <2>1
  <2>3. q \in 0..RateScale
    <3> HIDE DEF f, r
    <3>1. \A a, c \in Nat, b \in Nat \ {0} : a <= c * b => a \div b \in 0..c
      OBVIOUS
    <3> QED BY <2>1, <2>2, <3>1
  <2> QED
    BY <1>2, <2>1, <2>3 DEF ErrorRate
<1> QED
  BY <1>1, <1>2

-----------------------------------------------------------------------------

(* A sequence is one over any set that holds its elements.                 *)
LEMMA SeqOfElements ==
  ASSUME NEW S, NEW T, NEW w \in Seq(S), \A i \in DOMAIN w : w[i] \in T
  PROVE  w \in Seq(T)
<1>1. DOMAIN w = 1..Len(w) /\ Len(w) \in Nat /\ w = [i \in 1..Len(w) |-> w[i]]
  OBVIOUS
<1>2. w \in [1..Len(w) -> T]
  BY <1>1
<1> QED
  BY <1>1, <1>2

(* observe() keeps windows, counts and verdicts in their types.            *)
LEMMA ObserveType ==
  ASSUME ADTypeOK, growth.requests > 0, Observe
  PROVE  /\ windows' \in [Metrics -> Seq(Nat)]
         /\ \A m \in Metrics : Len(windows'[m]) <= WindowSize
         /\ \A i \in DOMAIN windows'["errorRate"] :
              windows'["errorRate"][i] \in 0..RateScale
         /\ observations' \in 0..MinSamples
         /\ lastStatus' \in AnomalyStatuses
         /\ emitted' \in ({"ANOMALY_DETECTED", "ANOMALY_RESOLVED"} \X (0..2)) \cup {Null}
<1>1. windows' = [m \in Metrics |->
        IF Features[m] = Null THEN windows[m] ELSE Pushed(windows[m], Features[m])]
  BY DEF Observe
<1>2. ErrorRate \in 0..RateScale /\ ErrorRate \in Nat /\ ErrorRate # Null
  <2>1. growth.requests \in Nat /\ growth.failures \in Nat
    BY DetectorAssumption DEF ADTypeOK
  <2> QED
    BY <2>1, ErrorRateIsProportion, DetectorAssumption
<1>3. /\ Features["errorRate"] = ErrorRate
      /\ Features["avgLatencyMs"] \in Nat \cup {Null}
  BY DetectorAssumption DEF Features, Metrics, ADTypeOK
<1>4. windows["errorRate"] \in Seq(0..RateScale)
  <2>1. windows["errorRate"] \in Seq(Nat)
    BY DEF ADTypeOK, Metrics
  <2> QED
    BY <2>1, SeqOfElements DEF ADTypeOK
<1>5. /\ windows'["errorRate"] \in Seq(0..RateScale)
      /\ Len(windows'["errorRate"]) <= WindowSize
  <2>1. windows'["errorRate"] = Pushed(windows["errorRate"], ErrorRate)
    BY <1>1, <1>2, <1>3 DEF Metrics
  <2>2. Len(windows["errorRate"]) <= WindowSize
    BY DEF ADTypeOK, Metrics
  <2> QED
    BY <1>2, <1>4, <2>1, <2>2, PushedFits
<1>6. /\ windows'["avgLatencyMs"] \in Seq(Nat)
      /\ Len(windows'["avgLatencyMs"]) <= WindowSize
  <2>1. windows["avgLatencyMs"] \in Seq(Nat) /\ Len(windows["avgLatencyMs"]) <= WindowSize
    BY DEF ADTypeOK, Metrics
  <2>2. windows'["avgLatencyMs"] =
          IF Features["avgLatencyMs"] = Null THEN windows["avgLatencyMs"]
          ELSE Pushed(windows["avgLatencyMs"], Features["avgLatencyMs"])
    BY <1>1 DEF Metrics
  <2>3. CASE Features["avgLatencyMs"] = Null
    BY <2>1, <2>2, <2>3
  <2>4. CASE Features["avgLatencyMs"] \in Nat /\ Features["avgLatencyMs"] # Null
    BY <2>1, <2>2, <2>4, PushedFits
  <2> QED
    BY <1>3, <2>3, <2>4
<1>7. windows'["errorRate"] \in Seq(Nat)
  <2>1. \A i \in DOMAIN windows'["errorRate"] : windows'["errorRate"][i] \in Nat
    BY <1>5, DetectorAssumption
  <2> QED
    BY <1>5, <2>1, SeqOfElements
<1>8. /\ windows' \in [Metrics -> Seq(Nat)]
      /\ \A m \in Metrics : Len(windows'[m]) <= WindowSize
      /\ \A i \in DOMAIN windows'["errorRate"] : windows'["errorRate"][i] \in 0..RateScale
  <2>1. \A m \in Metrics : windows'[m] \in Seq(Nat) /\ Len(windows'[m]) <= WindowSize
    BY <1>5, <1>6, <1>7 DEF Metrics
  <2>2. windows' \in [Metrics -> Seq(Nat)]
    <3>1. DOMAIN windows' = Metrics /\ windows' = [m \in Metrics |-> windows'[m]]
      BY <1>1
    <3> QED
      BY <2>1, <3>1
  <2>3. \A i \in DOMAIN windows'["errorRate"] : windows'["errorRate"][i] \in 0..RateScale
    <3> DEFINE rates == windows'["errorRate"]
    <3> SUFFICES ASSUME NEW i \in DOMAIN rates
                 PROVE  rates[i] \in 0..RateScale
      OBVIOUS
    <3>1. rates \in Seq(0..RateScale)
      BY <1>5
    <3> HIDE DEF rates
    <3> QED
      BY <3>1, ElementOfSeq, LenProperties
  <2> QED
    BY <2>1, <2>2, <2>3
<1>9. observations' \in 0..MinSamples
  BY DetectorAssumption, WindowAssumption DEF Observe, ADTypeOK
<1>10. lastStatus' \in AnomalyStatuses
  BY DEF Observe, StatusOf, AnomalyStatuses
<1>11. emitted' \in ({"ANOMALY_DETECTED", "ANOMALY_RESOLVED"} \X (0..2)) \cup {Null}
  <2>1. emitted' = Emission(lastStatus, lastStatus')
    BY DEF Observe
  <2>2. Level(lastStatus') \in 0..2
    BY <1>10 DEF Level, AnomalyStatuses
  <2> QED
    BY <2>1, <2>2 DEF Emission, ADTypeOK
<1> QED
  BY <1>8, <1>9, <1>10, <1>11

(* Every value of the detector has its type: windows stay within their     *)
(* size, and rates between 0 and 1 whatever order starts and ends of       *)
(* requests are counted in.                                                *)
THEOREM AnomalyTypeCorrect == ADSpec => []ADTypeOK
<1>1. ADInit => ADTypeOK
  <2> SUFFICES ASSUME ADInit
               PROVE  ADTypeOK
    OBVIOUS
  <2>1. /\ windows \in [Metrics -> Seq(Nat)]
        /\ \A m \in Metrics : Len(windows[m]) <= WindowSize
        /\ DOMAIN windows["errorRate"] = {}
    BY WindowAssumption DEF ADInit, Metrics
  <2>2. growth \in [requests : 0..MaxStarted, failures : 0..MaxFailed]
    BY DetectorAssumption DEF ADInit, NoGrowth
  <2>3. observations \in 0..MinSamples
    BY DetectorAssumption, WindowAssumption DEF ADInit
  <2> QED
    BY <2>1, <2>2, <2>3 DEF ADInit, ADTypeOK, AnomalyStatuses
<1>2. ADTypeOK /\ [ADNext]_advars => ADTypeOK'
  <2> SUFFICES ASSUME ADTypeOK, [ADNext]_advars
               PROVE  ADTypeOK'
    OBVIOUS
  <2>1. CASE Noticed
    BY <2>1 DEF Noticed, ADTypeOK
  <2>2. CASE RequestStarted
    <3>1. growth.requests + 1 \in 0..MaxStarted
      BY <2>2, DetectorAssumption DEF RequestStarted, ADTypeOK
    <3>2. growth' \in [requests : 0..MaxStarted, failures : 0..MaxFailed]
      BY <2>2, <3>1 DEF RequestStarted, ADTypeOK
    <3> QED
      BY <2>2, <3>2 DEF RequestStarted, ADTypeOK
  <2>3. ASSUME NEW failures \in {0, 1}, NEW average \in Latencies,
               RequestEnded(failures, average)
        PROVE  ADTypeOK'
    <3>1. growth' \in [requests : 0..MaxStarted, failures : 0..MaxFailed]
      <4>1. growth.failures + failures \in 0..MaxFailed
        BY <2>3, DetectorAssumption DEF RequestEnded, ADTypeOK
      <4> QED
        BY <2>3, <4>1 DEF RequestEnded, ADTypeOK
    <3>2. latency' \in Latencies \cup {Null}
      BY <2>3 DEF RequestEnded
    <3> QED
      BY <2>3, <3>1, <3>2 DEF RequestEnded, ADTypeOK
  <2>4. CASE Seed
    <3>1. growth' \in [requests : 0..MaxStarted, failures : 0..MaxFailed]
      BY <2>4, DetectorAssumption DEF Seed, NoGrowth
    <3> QED
      BY <2>4, <3>1 DEF Seed, ADTypeOK
  <2>5. CASE TickIdle
    BY <2>5, DetectorAssumption DEF TickIdle, NoGrowth, ADTypeOK
  <2>6. CASE TickSample
    <3>1. growth' \in [requests : 0..MaxStarted, failures : 0..MaxFailed]
      BY <2>6, DetectorAssumption DEF TickSample, NoGrowth
    <3>2. growth.requests > 0 /\ Observe /\ UNCHANGED <<tracked, position, latency>>
      BY <2>6 DEF TickSample
    <3> QED
      BY <3>1, <3>2, ObserveType DEF ADTypeOK
  <2>7. CASE UNCHANGED advars
    BY <2>7 DEF advars, ADTypeOK
  <2> QED
    BY <2>1, <2>2, <2>3, <2>4, <2>5, <2>6, <2>7 DEF ADNext
<1> QED
  BY <1>1, <1>2, PTL DEF ADSpec

-----------------------------------------------------------------------------

(* The verdict is that of the windows as they are: no step changes a window *)
(* without judging it, and none judges before it has seen enough, so that a *)
(* cold start cannot end an alarm that nobody heard the end of.             *)
VerdictFits ==
  lastStatus = IF observations < MinSamples THEN "INSUFFICIENT_DATA"
               ELSE StatusOf(Max(Scores(windows) \cup {0}))

(* It holds in every state.                                                 *)
LEMMA VerdictAlwaysFits == ADSpec => []VerdictFits
<1>1. ADInit => VerdictFits
  BY DetectorAssumption, WindowAssumption DEF ADInit, VerdictFits
<1>2. ADTypeOK /\ VerdictFits /\ [ADNext]_advars => VerdictFits'
  <2> SUFFICES ASSUME ADTypeOK, VerdictFits, [ADNext]_advars
               PROVE  VerdictFits'
    OBVIOUS
  <2>1. CASE TickSample
    <3>1. Observe
      BY <2>1 DEF TickSample
    <3>2. observations \in Int /\ MinSamples \in Int
      BY DetectorAssumption, WindowAssumption DEF ADTypeOK
    <3>3. observations' < MinSamples <=> observations + 1 < MinSamples
      BY <3>1, <3>2 DEF Observe
    <3>4. lastStatus' = IF observations + 1 < MinSamples THEN "INSUFFICIENT_DATA"
                        ELSE StatusOf(Max(Scores(windows') \cup {0}))
      BY <3>1 DEF Observe
    <3>5. (Scores(windows))' = Scores(windows')
      BY DEF Scores
    <3> QED
      BY <3>3, <3>4, <3>5 DEF VerdictFits, StatusOf
  <2>2. CASE UNCHANGED <<windows, observations, lastStatus>>
    BY <2>2 DEF VerdictFits, StatusOf, Scores
  <2> QED
    BY <2>1, <2>2 DEF ADNext, Noticed, RequestStarted, RequestEnded, Seed, TickIdle, advars
<1> QED
  BY <1>1, <1>2, AnomalyTypeCorrect, PTL DEF ADSpec

(* One verdict is one step of the alarm, or none.                          *)
LEMMA ObserveIsAlarm ==
  ASSUME ADTypeOK, VerdictFits, Observe
  PROVE  Ideal!Next \/ UNCHANGED <<Level(lastStatus), emitted>>
<1>1. emitted' = Emission(lastStatus, lastStatus')
  BY DEF Observe
<1>2. CASE observations + 1 < MinSamples
  <2>1. lastStatus = "INSUFFICIENT_DATA" /\ lastStatus' = "INSUFFICIENT_DATA"
    BY <1>2, DetectorAssumption, WindowAssumption DEF Observe, VerdictFits, ADTypeOK
  <2> QED
    BY <1>1, <2>1 DEF Emission, Severity, Level
<1>3. CASE ~(observations + 1 < MinSamples)
  <2>1. lastStatus' \in {"NORMAL", "WARNING", "ANOMALOUS"}
    BY <1>3 DEF Observe, StatusOf
  <2>2. lastStatus \in AnomalyStatuses
    BY DEF ADTypeOK
  <2>3. CASE lastStatus' = "NORMAL"
    <3>1. CASE lastStatus \in {"WARNING", "ANOMALOUS"}
      <4>1. emitted' = <<"ANOMALY_RESOLVED", 0>>
        BY <1>1, <2>3, <3>1 DEF Emission, Severity
      <4>2. Level(lastStatus) > 0 /\ Level(lastStatus)' = 0
        BY <2>3, <3>1 DEF Level
      <4> QED
        BY <4>1, <4>2 DEF Ideal!Next, Ideal!Ends
    <3>2. CASE lastStatus \in {"INSUFFICIENT_DATA", "NORMAL"}
      BY <1>1, <2>3, <3>2 DEF Emission, Severity, Level
    <3> QED
      BY <2>2, <3>1, <3>2 DEF AnomalyStatuses
  <2>4. CASE lastStatus' \in {"WARNING", "ANOMALOUS"} /\ Level(lastStatus') > Level(lastStatus)
    <3>1. Severity(lastStatus') > Severity(lastStatus)
      BY <2>2, <2>4 DEF Level, Severity, AnomalyStatuses
    <3>2. emitted' = <<"ANOMALY_DETECTED", Level(lastStatus')>>
      BY <1>1, <2>4, <3>1 DEF Emission
    <3>3. Level(lastStatus') \in 0..2
      BY <2>4 DEF Level
    <3> QED
      BY <2>4, <3>2, <3>3 DEF Ideal!Next, Ideal!Worsens
  <2>5. CASE lastStatus' \in {"WARNING", "ANOMALOUS"} /\ ~(Level(lastStatus') > Level(lastStatus))
    <3>1. CASE lastStatus = lastStatus'
      BY <1>1, <2>5, <3>1 DEF Emission, Severity, Level
    <3>2. CASE lastStatus = "ANOMALOUS" /\ lastStatus' = "WARNING"
      <4>1. emitted' = emitted
        BY <1>1, <3>2 DEF Emission, Severity
      <4>2. Level(lastStatus) = 2 /\ Level(lastStatus') = 1
        BY <3>2 DEF Level
      <4> QED
        BY <4>1, <4>2 DEF Ideal!Next, Ideal!Eases
    <3> QED
      BY <2>2, <2>5, <3>1, <3>2 DEF Level, AnomalyStatuses
  <2> QED
    BY <2>1, <2>3, <2>4, <2>5
<1> QED
  BY <1>2, <1>3

(* The detector implements the alarm: each worsening and each end of an    *)
(* alarm is emitted once, with its level, and nothing else is.             *)
THEOREM DetectorImplementsAlarm == ADSpec => ImplementsAlarm
<1>1. ADInit => Ideal!Init
  BY DEF ADInit, Ideal!Init, Level
<1>2. ADTypeOK /\ VerdictFits /\ [ADNext]_advars => [Ideal!Next]_<<Level(lastStatus), emitted>>
  <2> SUFFICES ASSUME ADTypeOK, VerdictFits, [ADNext]_advars
               PROVE  Ideal!Next \/ UNCHANGED <<Level(lastStatus), emitted>>
    OBVIOUS
  <2>1. CASE TickSample
    <3>1. Observe
      BY <2>1 DEF TickSample
    <3> QED
      BY <3>1, ObserveIsAlarm
  <2>2. CASE UNCHANGED <<lastStatus, emitted>>
    BY <2>2 DEF Level
  <2> QED
    BY <2>1, <2>2 DEF ADNext, Noticed, RequestStarted, RequestEnded, Seed, TickIdle, advars
<1> QED
  BY <1>1, <1>2, AnomalyTypeCorrect, VerdictAlwaysFits, PTL DEF ADSpec, ImplementsAlarm, Ideal!Spec

-----------------------------------------------------------------------------

(* The median of w is halfway between a and b, which lie in its middle:     *)
(* whatever is greater or smaller than both has too much of w on one side.  *)
Middles(w, a, b) ==
  /\ a \in Int /\ b \in Int /\ a <= b
  /\ TwiceMedian(w) = a + b
  /\ \E i \in 1..Len(w) : w[i] = a
  /\ \E i \in 1..Len(w) : w[i] = b
  /\ \A x \in {a, b} :
       /\ 2 * Cardinality(Below(w, x)) <= Len(w)
       /\ 2 * Cardinality(Above(w, x)) <= Len(w)
  /\ \A y \in Int : y < a => 2 * Cardinality(Above(w, y)) > Len(w)
  /\ \A y \in Int : y > b => 2 * Cardinality(Below(w, y)) > Len(w)
  /\ \A y \in Int : y > a => 2 * Cardinality(Below(w, y)) >= Len(w)

(* Every window but the empty one has such a middle, of odd length or even. *)
LEMMA MedianHasMiddles ==
  ASSUME NEW w \in Seq(Int), Len(w) > 0
  PROVE  \E a, b : Middles(w, a, b)
<1> DEFINE n == Len(w)
           lo == (n + 1) \div 2
           hi == n \div 2 + 1
<1>1. PICK p : Sorts(p, w)
  BY SortedAscends
<1>2. /\ n \in Nat /\ n > 0
      /\ lo \in 1..n /\ hi \in 1..n /\ lo <= hi
      /\ n <= 2 * lo /\ 2 * lo <= n + 1 /\ n < 2 * hi /\ 2 * hi <= n + 2
  <2>1. \A k \in Nat : k > 0 =>
          LET l == (k + 1) \div 2
              h == k \div 2 + 1
          IN  /\ l \in 1..k /\ h \in 1..k /\ l <= h
              /\ k <= 2 * l /\ 2 * l <= k + 1 /\ k < 2 * h /\ 2 * h <= k + 2
    OBVIOUS
  <2> QED
    BY <2>1
<1>3. /\ p \in [1..n -> 1..n]
      /\ Sorted(w) = [r \in 1..n |-> w[p[r]]]
      /\ w[p[lo]] <= w[p[hi]]
  BY <1>1, <1>2 DEF Sorts, Sorted, Bijection, Injection
<1> DEFINE a == w[p[lo]]
           b == w[p[hi]]
<1>4. TwiceMedian(w) = a + b
  <2>1. Len(Sorted(w)) = n /\ Sorted(w)[lo] = a /\ Sorted(w)[hi] = b
    BY <1>2, <1>3
  <2>2. a \in Int
    BY <1>1, <1>2, RanksCount
  <2>3. CASE n % 2 = 1
    <3>1. n \div 2 + 1 = lo /\ hi = lo
      <4>1. \A k \in Nat : k % 2 = 1 => k \div 2 + 1 = (k + 1) \div 2
        OBVIOUS
      <4> QED
        BY <1>2, <2>3, <4>1
    <3>2. TwiceMedian(w) = 2 * Sorted(w)[lo] /\ a = b
      BY <2>1, <2>3, <3>1 DEF TwiceMedian, TwiceMiddle
    <3> HIDE DEF a, b, lo, hi
    <3> QED
      BY <2>1, <2>2, <3>2
  <2>4. CASE n % 2 # 1
    <3>1. n \div 2 = lo
      <4>1. \A k \in Nat : k % 2 # 1 => k \div 2 = (k + 1) \div 2
        OBVIOUS
      <4> QED
        BY <1>2, <2>4, <4>1
    <3>2. TwiceMedian(w) = Sorted(w)[lo] + Sorted(w)[hi]
      BY <2>1, <2>4, <3>1 DEF TwiceMedian, TwiceMiddle
    <3> HIDE DEF a, b, lo, hi
    <3> QED
      BY <2>1, <3>2
  <2> QED
    BY <2>3, <2>4
<1>5. /\ a \in Int /\ b \in Int
      /\ Cardinality(Below(w, a)) <= lo - 1 /\ Cardinality(Above(w, a)) <= n - lo
      /\ Cardinality(Below(w, b)) <= hi - 1 /\ Cardinality(Above(w, b)) <= n - hi
      /\ \A y \in Int : y < a => Cardinality(Above(w, y)) >= n - lo + 1
      /\ \A y \in Int : b < y => Cardinality(Below(w, y)) >= hi
      /\ \A y \in Int : a < y => Cardinality(Below(w, y)) >= lo
      /\ \A y \in Int : Cardinality(Below(w, y)) \in Nat /\ Cardinality(Above(w, y)) \in Nat
  <2> HIDE DEF lo, hi
  <2> QED
    BY <1>1, <1>2, RanksCount
<1>6. a <= b /\ (\E i \in 1..n : w[i] = a) /\ (\E i \in 1..n : w[i] = b)
  BY <1>2, <1>3
<1> HIDE DEF a, b, lo, hi
<1> HIDE DEF n
<1>12. /\ lo \in Int /\ hi \in Int /\ n \in Int
       /\ n <= 2 * lo /\ 2 * lo <= n + 1 /\ n < 2 * hi /\ 2 * hi <= n + 2
  BY <1>2
<1>7. \A x \in {a, b} :
        2 * Cardinality(Below(w, x)) <= n /\ 2 * Cardinality(Above(w, x)) <= n
  <2>1. 2 * Cardinality(Below(w, a)) <= n /\ 2 * Cardinality(Above(w, a)) <= n
    <3>1. Cardinality(Below(w, a)) \in Int /\ Cardinality(Above(w, a)) \in Int
      BY <1>5
    <3>2. Cardinality(Below(w, a)) <= lo - 1 /\ Cardinality(Above(w, a)) <= n - lo
      BY <1>5
    <3> QED
      BY <1>12, <3>1, <3>2
  <2>2. 2 * Cardinality(Below(w, b)) <= n /\ 2 * Cardinality(Above(w, b)) <= n
    <3>1. Cardinality(Below(w, b)) \in Int /\ Cardinality(Above(w, b)) \in Int
      BY <1>5
    <3>2. Cardinality(Below(w, b)) <= hi - 1 /\ Cardinality(Above(w, b)) <= n - hi
      BY <1>5
    <3> QED
      BY <1>12, <3>1, <3>2
  <2> QED
    BY <2>1, <2>2
<1>8. \A y \in Int : y < a => 2 * Cardinality(Above(w, y)) > n
  <2> SUFFICES ASSUME NEW y \in Int, y < a PROVE 2 * Cardinality(Above(w, y)) > n
    OBVIOUS
  <2>1. Cardinality(Above(w, y)) \in Nat
    BY <1>5
  <2>2. Cardinality(Above(w, y)) >= n - lo + 1
    BY <1>5
  <2> QED
    BY <1>12, <2>1, <2>2
<1>9. \A y \in Int : y > b => 2 * Cardinality(Below(w, y)) > n
  <2> SUFFICES ASSUME NEW y \in Int, y > b PROVE 2 * Cardinality(Below(w, y)) > n
    OBVIOUS
  <2>1. Cardinality(Below(w, y)) \in Nat
    BY <1>5
  <2>2. Cardinality(Below(w, y)) >= hi
    BY <1>5
  <2> QED
    BY <1>12, <2>1, <2>2
<1>10. \A y \in Int : y > a => 2 * Cardinality(Below(w, y)) >= n
  <2> SUFFICES ASSUME NEW y \in Int, y > a PROVE 2 * Cardinality(Below(w, y)) >= n
    OBVIOUS
  <2>1. Cardinality(Below(w, y)) \in Nat
    BY <1>5
  <2>2. Cardinality(Below(w, y)) >= lo
    BY <1>5
  <2> QED
    BY <1>12, <2>1, <2>2
<1>11. Middles(w, a, b)
  BY <1>4, <1>5, <1>6, <1>7, <1>8, <1>9, <1>10 DEF Middles, n
<1> QED
  BY <1>11

(* The median is the middle of what is in the window, whatever its order.   *)
THEOREM MedianIsTheMiddle == ADSpec => []MedianIsMiddle
<1>1. ADTypeOK => MedianIsMiddle
  <2> SUFFICES ASSUME ADTypeOK, NEW m \in Metrics, windows[m] # <<>>
               PROVE  LET w == windows[m]
                          middle == {w[i] : i \in {k \in DOMAIN w :
                            /\ 2 * Cardinality({j \in DOMAIN w : w[j] < w[k]}) <= Len(w)
                            /\ 2 * Cardinality({j \in DOMAIN w : w[j] > w[k]}) <= Len(w)}}
                      IN  TwiceMedian(w) = Min(middle) + Max(middle)
    BY DEF MedianIsMiddle
  <2> DEFINE w == windows[m]
             central == {k \in DOMAIN w :
                           /\ 2 * Cardinality({j \in DOMAIN w : w[j] < w[k]}) <= Len(w)
                           /\ 2 * Cardinality({j \in DOMAIN w : w[j] > w[k]}) <= Len(w)}
             middle == {w[i] : i \in central}
  <2>1. w \in Seq(Nat)
    BY DEF ADTypeOK
  <2>2. w \in Seq(Int) /\ Len(w) > 0 /\ DOMAIN w = 1..Len(w)
    BY <2>1
  <2>3. PICK a, b : Middles(w, a, b)
    BY <2>2, MedianHasMiddles
  <2>4. central = {k \in DOMAIN w : /\ 2 * Cardinality(Below(w, w[k])) <= Len(w)
                                    /\ 2 * Cardinality(Above(w, w[k])) <= Len(w)}
    BY DEF Below, Above
  <2> HIDE DEF w, central
  <2>5. a \in middle /\ b \in middle
    <3>1. PICK i \in 1..Len(w) : w[i] = a
      BY <2>3 DEF Middles
    <3>2. PICK j \in 1..Len(w) : w[j] = b
      BY <2>3 DEF Middles
    <3>3. i \in central /\ j \in central
      BY <2>2, <2>3, <2>4, <3>1, <3>2 DEF Middles
    <3> QED
      BY <3>1, <3>2, <3>3
  <2>6. \A y \in middle : y \in Int /\ a <= y /\ y <= b
    <3> SUFFICES ASSUME NEW k \in central
                 PROVE  w[k] \in Int /\ a <= w[k] /\ w[k] <= b
      OBVIOUS
    <3>1. /\ k \in 1..Len(w) /\ w[k] \in Int
          /\ 2 * Cardinality(Below(w, w[k])) <= Len(w)
          /\ 2 * Cardinality(Above(w, w[k])) <= Len(w)
      BY <2>2, <2>4
    <3>2. /\ Cardinality(Below(w, w[k])) \in Nat /\ Cardinality(Above(w, w[k])) \in Nat
          /\ Len(w) \in Nat /\ a \in Int /\ b \in Int
      <4>1. IsFiniteSet(1..Len(w))
        BY <2>2, FS_Interval
      <4>2. Below(w, w[k]) \subseteq 1..Len(w) /\ Above(w, w[k]) \subseteq 1..Len(w)
        BY <2>2 DEF Below, Above
      <4> QED
        BY <2>2, <2>3, <4>1, <4>2, FS_Subset, FS_CardinalityType DEF Middles
    <3>3. ~(w[k] < a)
      BY <2>3, <3>1, <3>2 DEF Middles
    <3>4. ~(w[k] > b)
      BY <2>3, <3>1, <3>2 DEF Middles
    <3> QED
      BY <3>1, <3>2, <3>3, <3>4
  <2> HIDE DEF middle
  <2>7. Min(middle) = a
    <3>1. a \in Int
      BY <2>3 DEF Middles
    <3>2. \A x \in middle : (\A y \in middle : x <= y) => x = a
      BY <2>5, <2>6, <3>1
    <3>3. a \in middle /\ \A y \in middle : a <= y
      BY <2>5, <2>6
    <3> QED
      BY <3>2, <3>3 DEF Min
  <2>8. Max(middle) = b
    <3>1. b \in Int
      BY <2>3 DEF Middles
    <3>2. \A x \in middle : (\A y \in middle : x >= y) => x = b
      BY <2>5, <2>6, <3>1
    <3>3. b \in middle /\ \A y \in middle : b >= y
      BY <2>5, <2>6, <3>1
    <3> QED
      BY <3>2, <3>3 DEF Max
  <2>9. TwiceMedian(w) = Min(middle) + Max(middle)
    BY <2>3, <2>7, <2>8 DEF Middles
  <2> QED
    BY <2>9 DEF w, middle, central
<1> QED
  BY <1>1, AnomalyTypeCorrect, PTL

-----------------------------------------------------------------------------

(* Whole-numbered division by a positive number gives whole numbers.        *)
LEMMA RoundedTyped ==
  ASSUME NEW a \in Int, NEW b \in Int, b > 0
  PROVE  /\ Rounded(a, b) \in Int
         /\ 2 * a >= 199 * b => Rounded(a, b) >= 100
<1>1. \A c, d \in Int : d > 0 => c \div d \in Int /\ (c >= 100 * d => c \div d >= 100)
  OBVIOUS
<1>2. 2 * a + b \in Int /\ 2 * b \in Int /\ 2 * b > 0
  OBVIOUS
<1>3. 2 * a >= 199 * b => 2 * a + b >= 100 * (2 * b)
  OBVIOUS
<1> QED
  BY <1>1, <1>2, <1>3 DEF Rounded

(* How far values lie from the median.                                      *)
Deviations(w) == [i \in DOMAIN w |-> Abs(2 * w[i] - TwiceMedian(w))]

(* A score of a window is a number, and none is given without a rise.       *)
LEMMA ScoreTyped ==
  ASSUME NEW w \in Seq(Int), Len(w) > 0, NEW floor \in Nat \ {0}
  PROVE  /\ UpperScore(w, floor) \in Int
         /\ UpperScore(w, floor) > 0 => 2 * Last(w) > TwiceMedian(w)
<1>1. Last(w) \in Int
  BY DEF Last
<1>2. TwiceMedian(w) \in Int
  <2>1. PICK a, b : Middles(w, a, b)
    BY MedianHasMiddles
  <2> QED
    BY <2>1 DEF Middles
<1>3. FourMad(w) \in Int
  <2>1. Deviations(w) \in Seq(Int) /\ Len(Deviations(w)) = Len(w)
    <3>1. \A i \in 1..Len(w) : Abs(2 * w[i] - TwiceMedian(w)) \in Int
      <4> SUFFICES ASSUME NEW i \in 1..Len(w)
                   PROVE  Abs(2 * w[i] - TwiceMedian(w)) \in Int
        OBVIOUS
      <4>1. w[i] \in Int
        OBVIOUS
      <4>2. 2 * w[i] - TwiceMedian(w) \in Int
        BY <1>2, <4>1
      <4> QED
        BY <4>2 DEF Abs
    <3>2. DOMAIN w = 1..Len(w) /\ Len(w) \in Nat
      OBVIOUS
    <3>3. Deviations(w) = [i \in 1..Len(w) |-> Abs(2 * w[i] - TwiceMedian(w))]
      BY <3>2 DEF Deviations
    <3> QED
      BY <3>1, <3>2, <3>3
  <2>2. PICK a, b : Middles(Deviations(w), a, b)
    BY <2>1, MedianHasMiddles
  <2>3. FourMad(w) = TwiceMedian(Deviations(w))
    BY DEF FourMad, TwiceMedian, Deviations
  <2> QED
    BY <2>2, <2>3 DEF Middles
<1> DEFINE rise == 2 * Last(w) - TwiceMedian(w)
           least == IF 5 * TwiceMedian(w) > floor THEN 5 * TwiceMedian(w) ELSE floor
           score == IF rise <= 0 THEN 0
                    ELSE IF FourMad(w) > 0 THEN Rounded(125000 * rise, 7413 * FourMad(w))
                    ELSE Rounded(1250 * rise, least)
<1>4. rise \in Int /\ least \in Int /\ least > 0
  BY <1>1, <1>2
<1>5. UpperScore(w, floor) = IF score < 100 THEN score ELSE 100
  BY DEF UpperScore
<1>6. score \in Int
  <2> HIDE DEF rise, least
  <2>1. CASE FourMad(w) > 0
    <3>1. /\ 125000 * rise \in Int /\ 7413 * FourMad(w) \in Int
          /\ 7413 * FourMad(w) > 0
      BY <1>3, <1>4, <2>1
    <3>2. Rounded(125000 * rise, 7413 * FourMad(w)) \in Int
      BY <3>1, RoundedTyped
    <3> QED
      BY <2>1, <3>2
  <2>2. CASE ~(FourMad(w) > 0)
    <3>1. 1250 * rise \in Int
      BY <1>4
    <3>2. Rounded(1250 * rise, least) \in Int
      BY <1>4, <3>1, RoundedTyped
    <3> QED
      BY <2>2, <3>2
  <2> QED
    BY <2>1, <2>2
<1>7. rise <= 0 => score = 0
  OBVIOUS
<1>8. rise > 0 => 2 * Last(w) > TwiceMedian(w)
  BY <1>1, <1>2
<1> HIDE DEF rise, score
<1>9. UpperScore(w, floor) > 0 => rise > 0
  BY <1>4, <1>5, <1>7
<1>10. UpperScore(w, floor) \in Int
  BY <1>5, <1>6
<1> QED
  BY <1>8, <1>9, <1>10

(* The floors are positive.                                                 *)
LEMMA FloorTyped == \A m : Floor(m) \in Nat \ {0}
<1> SUFFICES ASSUME NEW m PROVE Floor(m) \in Nat \ {0}
  OBVIOUS
<1>1. 200 * LatencyFloor \in Nat \ {0} /\ 4 * RateScale \in Nat \ {0}
  BY DetectorAssumption
<1> QED
  BY <1>1 DEF Floor

(* The worst score is one of the metrics', or 0, and no other is worse.     *)
LEMMA WorstScore ==
  ASSUME ADTypeOK
  PROVE  LET worst == Max(Scores(windows) \cup {0}) IN
         /\ worst \in Int
         /\ worst > 0 => \E m \in Metrics : /\ Len(windows[m]) >= MinSamples
                                            /\ worst = UpperScore(windows[m], Floor(m))
         /\ \A m \in Metrics : Len(windows[m]) >= MinSamples =>
              UpperScore(windows[m], Floor(m)) <= worst
<1> DEFINE sampled == {n \in Metrics : Len(windows[n]) >= MinSamples}
           score(m) == UpperScore(windows[m], Floor(m))
           all == Scores(windows) \cup {0}
           worst == Max(all)
<1>1. all = {score(m) : m \in sampled} \cup {0}
  BY DEF Scores
<1>2. \A m \in sampled : score(m) \in Int
  <2> SUFFICES ASSUME NEW m \in Metrics, Len(windows[m]) >= MinSamples
               PROVE  score(m) \in Int
    OBVIOUS
  <2>1. windows[m] \in Seq(Nat) /\ MinSamples > 0
    BY DetectorAssumption, WindowAssumption DEF ADTypeOK
  <2>2. windows[m] \in Seq(Int) /\ Len(windows[m]) > 0
    BY <2>1, DetectorAssumption, WindowAssumption
  <2> QED
    BY <2>2, FloorTyped, ScoreTyped
<1>3. all = (IF "avgLatencyMs" \in sampled THEN {score("avgLatencyMs")} ELSE {})
              \cup (IF "errorRate" \in sampled THEN {score("errorRate")} ELSE {})
              \cup {0}
  <2>1. sampled \subseteq {"avgLatencyMs", "errorRate"}
    BY DEF Metrics
  <2> HIDE DEF score, sampled
  <2> QED
    BY <1>1, <2>1
<1> HIDE DEF score, sampled
<1>4. \E x \in all : \A y \in all : x >= y
  <2>1. \A x, y \in Int :
          \E z \in {x, y, 0} : z >= x /\ z >= y /\ z >= 0
    OBVIOUS
  <2>2. \A x \in Int : \E z \in {x, 0} : z >= x /\ z >= 0
    OBVIOUS
  <2>3. CASE "avgLatencyMs" \in sampled /\ "errorRate" \in sampled
    <3>1. all = {score("avgLatencyMs"), score("errorRate"), 0}
      BY <1>3, <2>3
    <3>2. score("avgLatencyMs") \in Int /\ score("errorRate") \in Int
      BY <1>2, <2>3
    <3> QED
      BY <2>1, <3>1, <3>2
  <2>4. CASE "avgLatencyMs" \in sampled /\ "errorRate" \notin sampled
    <3>1. all = {score("avgLatencyMs"), 0}
      BY <1>3, <2>4
    <3> QED
      BY <1>2, <2>2, <2>4, <3>1
  <2>5. CASE "avgLatencyMs" \notin sampled /\ "errorRate" \in sampled
    <3>1. all = {score("errorRate"), 0}
      BY <1>3, <2>5
    <3> QED
      BY <1>2, <2>2, <2>5, <3>1
  <2>6. CASE "avgLatencyMs" \notin sampled /\ "errorRate" \notin sampled
    <3>1. all = {0}
      BY <1>3, <2>6
    <3> QED
      BY <3>1
  <2> QED
    BY <2>3, <2>4, <2>5, <2>6
<1>5. worst \in all /\ \A y \in all : worst >= y
  BY <1>4 DEF Max
<1>6. all \subseteq Int
  BY <1>1, <1>2
<1> HIDE DEF all, worst
<1>7. worst \in Int
  BY <1>5, <1>6
<1>8. worst > 0 => \E m \in sampled : worst = score(m)
  BY <1>1, <1>5
<1>9. \A m \in sampled : score(m) <= worst
  <2> SUFFICES ASSUME NEW m \in sampled PROVE score(m) <= worst
    OBVIOUS
  <2>1. score(m) \in all /\ score(m) \in Int
    BY <1>1, <1>2
  <2> QED
    BY <1>5, <1>7, <2>1
<1> QED
  BY <1>7, <1>8, <1>9 DEF worst, all, score, sampled

(* An alarm rests on a metric whose last value is above half of its window. *)
THEOREM AlarmsAreOutliers == ADSpec => []AlarmIsAnOutlier
<1>1. ASSUME ADTypeOK, VerdictFits PROVE AlarmIsAnOutlier
  <2> SUFFICES ASSUME Level(lastStatus) > 0
               PROVE  \E m \in Metrics :
                        LET w == windows[m] IN
                        /\ Len(w) >= MinSamples
                        /\ 2 * Cardinality({i \in DOMAIN w : w[i] < Last(w)}) >= Len(w)
    BY DEF AlarmIsAnOutlier
  <2> DEFINE worst == Max(Scores(windows) \cup {0})
  <2>1. worst \in Int
    BY <1>1, WorstScore
  <2>2. worst >= ScoreWarning /\ ScoreWarning > 0 /\ ScoreWarning \in Int
    <3>1. lastStatus = StatusOf(worst)
      BY <1>1 DEF VerdictFits, Level
    <3> HIDE DEF worst
    <3>2. StatusOf(worst) # "NORMAL"
      BY <3>1 DEF Level
    <3> QED
      BY <2>1, <3>2, DetectorAssumption DEF StatusOf
  <2>3. worst > 0
    <3> HIDE DEF worst
    <3> QED
      BY <2>1, <2>2
  <2>4. PICK m \in Metrics : /\ Len(windows[m]) >= MinSamples
                             /\ worst = UpperScore(windows[m], Floor(m))
    BY <1>1, <2>3, WorstScore
  <2> DEFINE w == windows[m]
  <2>5. w \in Seq(Int) /\ Len(w) > 0 /\ Len(w) \in Nat
    <3>1. w \in Seq(Nat) /\ Len(w) >= 2
      BY <1>1, <2>4, DetectorAssumption, WindowAssumption DEF ADTypeOK
    <3> QED
      BY <3>1
  <2>6. 2 * Last(w) > TwiceMedian(w)
    BY <2>3, <2>4, <2>5, FloorTyped, ScoreTyped
  <2> HIDE DEF w
  <2>7. PICK a, b : Middles(w, a, b)
    BY <2>5, MedianHasMiddles
  <2>8. Last(w) \in Int
    BY <2>5 DEF Last
  <2>9. Last(w) > a
    <3>1. a \in Int /\ b \in Int /\ a <= b /\ TwiceMedian(w) = a + b
      BY <2>7 DEF Middles
    <3> QED
      BY <2>6, <2>8, <3>1
  <2>10. 2 * Cardinality(Below(w, Last(w))) >= Len(w)
    BY <2>7, <2>8, <2>9 DEF Middles
  <2> QED
    BY <2>4, <2>10 DEF Below, w
<1> QED
  BY <1>1, AnomalyTypeCorrect, VerdictAlwaysFits, PTL

-----------------------------------------------------------------------------

(* One value that rises from otherwise equal ones is not the median.        *)
LEMMA FlatMedian ==
  ASSUME NEW w \in Seq(Int), Len(w) >= 3, NEW c \in Int,
         \A i \in 1..(Len(w) - 1) : w[i] = c, w[Len(w)] >= c
  PROVE  TwiceMedian(w) = 2 * c
<1> DEFINE n == Len(w)
<1>1. PICK a, b : Middles(w, a, b)
  BY MedianHasMiddles
<1>2. /\ a \in Int /\ b \in Int /\ a <= b /\ TwiceMedian(w) = a + b
      /\ n \in Nat /\ w[n] \in Int /\ DOMAIN w = 1..n
  BY <1>1 DEF Middles
<1>3. \A i \in 1..n : w[i] = c \/ w[i] = w[n]
  <2>1. \A k \in Nat : \A i \in 1..k : i # k => i \in 1..(k - 1)
    OBVIOUS
  <2>2. \A i \in 1..n : i # n => i \in 1..(n - 1)
    BY <1>2, <2>1
  <2> QED
    BY <2>2
<1>4. a \in {c, w[n]} /\ b \in {c, w[n]}
  BY <1>1, <1>3 DEF Middles
<1>5. b = c
  <2> SUFFICES ASSUME b # c PROVE FALSE
    OBVIOUS
  <2>1. b = w[n] /\ c < b
    BY <1>2, <1>4
  <2>2. \A i \in 1..(n - 1) : i \in Below(w, b)
    BY <1>2, <2>1 DEF Below
  <2>3. Below(w, b) \subseteq 1..n /\ IsFiniteSet(1..n)
    <3>1. Below(w, b) \subseteq 1..n
      BY <1>2 DEF Below
    <3>2. \A k \in Nat : IsFiniteSet(1..k)
      BY FS_Interval
    <3> QED
      BY <1>2, <3>1, <3>2
  <2>4. /\ IsFiniteSet(Below(w, b)) /\ Cardinality(Below(w, b)) \in Nat
        /\ Cardinality(1..(n - 1)) <= Cardinality(Below(w, b))
    BY <2>2, <2>3, FS_Subset, FS_CardinalityType
  <2>5. Cardinality(1..(n - 1)) = n - 1
    <3>1. n - 1 \in Int /\ 1 \in Int /\ n - 1 >= 1
      BY <1>2
    <3>2. Cardinality(1..(n - 1)) = IF 1 > n - 1 THEN 0 ELSE n - 1 - 1 + 1
      BY <3>1, FS_Interval
    <3> QED
      BY <1>2, <3>1, <3>2
  <2>6. 2 * Cardinality(Below(w, b)) <= n
    BY <1>1 DEF Middles
  <2> QED
    BY <1>2, <2>4, <2>5, <2>6
<1>6. a = c
  BY <1>2, <1>4, <1>5
<1> QED
  BY <1>2, <1>5, <1>6

(* What is flat but for its last value deviates by half of nothing, so the  *)
(* metric's floor decides, and the rise is scored in full.                  *)
LEMMA JumpScore ==
  ASSUME NEW w \in Seq(Nat), Len(w) >= 3, NEW flat \in Nat, NEW floor \in Nat \ {0},
         \A i \in 1..(Len(w) - 1) : w[i] = flat,
         200 * (Last(w) - flat) >= 80 * flat, 200 * (Last(w) - flat) >= 8 * floor
  PROVE  UpperScore(w, floor) = 100
<1> DEFINE n == Len(w)
           R == Last(w) - flat
<1>1. w \in Seq(Int) /\ n \in Nat /\ DOMAIN w = 1..n /\ w[n] \in Nat /\ Last(w) = w[n]
  BY DEF Last
<1>2. R \in Int /\ R > 0 /\ 200 * R >= 80 * flat /\ 200 * R >= 8 * floor
  BY <1>1
<1>3. TwiceMedian(w) = 2 * flat
  <2>1. flat \in Int /\ w[Len(w)] >= flat
    BY <1>1, <1>2
  <2> QED
    BY <1>1, <2>1, FlatMedian
<1>4. FourMad(w) = 0
  <2> DEFINE d == Deviations(w)
  <2>1. d = [i \in 1..n |-> Abs(2 * w[i] - 2 * flat)]
    BY <1>1, <1>3 DEF Deviations
  <2>2. \A i \in 1..n : Abs(2 * w[i] - 2 * flat) \in Nat
    <3> SUFFICES ASSUME NEW i \in 1..n PROVE Abs(2 * w[i] - 2 * flat) \in Nat
      OBVIOUS
    <3>1. w[i] \in Nat
      OBVIOUS
    <3>2. 2 * w[i] - 2 * flat \in Int
      BY <3>1
    <3> QED
      BY <3>2 DEF Abs
  <2>3. d \in Seq(Int) /\ Len(d) = n
    BY <1>1, <2>1, <2>2
  <2>4. \A i \in 1..(n - 1) : d[i] = 0
    <3> SUFFICES ASSUME NEW i \in 1..(n - 1) PROVE d[i] = 0
      OBVIOUS
    <3>1. i \in 1..n /\ w[i] = flat
      BY <1>1
    <3>2. d[i] = Abs(2 * flat - 2 * flat)
      BY <2>1, <3>1
    <3>3. 2 * flat - 2 * flat = 0
      OBVIOUS
    <3> QED
      BY <3>2, <3>3 DEF Abs
  <2>5. d[n] >= 0
    <3>1. n \in 1..n
      BY <1>1
    <3>2. d[n] = Abs(2 * w[n] - 2 * flat)
      BY <2>1, <3>1
    <3> QED
      BY <2>2, <3>1, <3>2
  <2> HIDE DEF d
  <2>6. TwiceMedian(d) = 2 * 0
    BY <2>3, <2>4, <2>5, FlatMedian
  <2>7. FourMad(w) = TwiceMedian(d)
    BY DEF FourMad, TwiceMedian, Deviations, d
  <2> QED
    BY <2>6, <2>7
<1> DEFINE rise == 2 * Last(w) - TwiceMedian(w)
           least == IF 5 * TwiceMedian(w) > floor THEN 5 * TwiceMedian(w) ELSE floor
<1>5. rise = 2 * R /\ rise \in Int /\ rise > 0
  <2>1. \A x, y \in Int : 2 * x - 2 * y = 2 * (x - y)
    OBVIOUS
  <2>2. rise = 2 * Last(w) - 2 * flat
    BY <1>3
  <2>3. Last(w) \in Int /\ flat \in Int
    BY <1>1
  <2>4. rise = 2 * R
    BY <2>1, <2>2, <2>3
  <2> HIDE DEF rise, R
  <2> QED
    BY <1>2, <2>4
<1>6. least = IF 10 * flat > floor THEN 10 * flat ELSE floor
  BY <1>3
<1>7. UpperScore(w, floor) = IF Rounded(1250 * rise, least) < 100
                             THEN Rounded(1250 * rise, least) ELSE 100
  <2>1. ~(rise <= 0) /\ ~(FourMad(w) > 0)
    BY <1>4, <1>5
  <2> QED
    BY <2>1 DEF UpperScore
<1> HIDE DEF rise, least, R
<1> DEFINE scaled == 1250 * rise
<1>8. least \in Int /\ least > 0 /\ scaled \in Int /\ 2 * scaled >= 199 * least
  BY <1>2, <1>5, <1>6
<1>9. UpperScore(w, floor) = IF Rounded(scaled, least) < 100 THEN Rounded(scaled, least) ELSE 100
  BY <1>7
<1> HIDE DEF scaled
<1>10. Rounded(scaled, least) \in Int /\ Rounded(scaled, least) >= 100
  BY <1>8, RoundedTyped
<1> QED
  BY <1>9, <1>10

(* A jump from a constant history is noticed, and is the worst there is.    *)
THEOREM JumpsAreNoticed == ADSpec => []JumpIsNoticed
<1>1. ASSUME ADTypeOK, VerdictFits PROVE JumpIsNoticed
  <2> SUFFICES ASSUME NEW m \in Metrics,
                      observations = MinSamples,
                      Len(windows[m]) >= MinSamples, Len(windows[m]) >= 3,
                      \A i \in 1..(Len(windows[m]) - 1) : windows[m][i] = windows[m][1],
                      200 * (Last(windows[m]) - windows[m][1]) >= 80 * windows[m][1],
                      200 * (Last(windows[m]) - windows[m][1]) >= 8 * Floor(m)
               PROVE  lastStatus = "ANOMALOUS"
    BY DEF JumpIsNoticed
  <2> DEFINE worst == Max(Scores(windows) \cup {0})
  <2>1. windows[m] \in Seq(Nat)
    BY <1>1 DEF ADTypeOK
  <2>2. windows[m][1] \in Nat
    BY <2>1
  <2>3. UpperScore(windows[m], Floor(m)) = 100
    <3> DEFINE w == windows[m]
               flat == w[1]
               floor == Floor(m)
    <3>1. /\ w \in Seq(Nat) /\ Len(w) >= 3 /\ flat \in Nat /\ floor \in Nat \ {0}
          /\ \A i \in 1..(Len(w) - 1) : w[i] = flat
          /\ 200 * (Last(w) - flat) >= 80 * flat
          /\ 200 * (Last(w) - flat) >= 8 * floor
      BY <2>1, <2>2, FloorTyped
    <3> HIDE DEF w, flat, floor
    <3>2. UpperScore(w, floor) = 100
      BY <3>1, JumpScore
    <3> QED
      BY <3>2 DEF w, floor
  <2>4. worst \in Int /\ worst >= 100
    BY <1>1, <2>3, WorstScore
  <2>5. lastStatus = StatusOf(worst)
    BY <1>1, DetectorAssumption, WindowAssumption DEF VerdictFits
  <2> HIDE DEF worst
  <2> QED
    BY <2>4, <2>5, DetectorAssumption DEF StatusOf
<1> QED
  BY <1>1, AnomalyTypeCorrect, VerdictAlwaysFits, PTL

=============================================================================
