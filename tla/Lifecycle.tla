----------------------------- MODULE Lifecycle -----------------------------
(***************************************************************************)
(* The platform's processes from start to stop: the gateway and the        *)
(* simulators, which boot, serve, drain and exit by the same rules, and    *)
(* the script that starts them: launcher.ts, which runs everything, or     *)
(* run-all.js, which runs a watcher for each simulator, of which the       *)
(* simulator is a child, and stops all watchers when one exits.  Signals   *)
(* reach the script alone or, from the terminal, all processes; the system *)
(* may kill any of them, the script and the watchers included.             *)
(***************************************************************************)
EXTENDS Configuration

CONSTANTS
    Scripts,        \* "launcher", "run-all"
    Gateway,        \* the gateway's process
    Simulators,     \* the simulators' processes
    PortOf,         \* [Simulators -> definition.port]
    Environments,   \* the environments the script may be started in
    Grace,          \* GRACEFUL_SHUTDOWN_TIMEOUT_MS, in ticks
    MaxInFlight,    \* bound: requests in flight in a process
    MaxIncidents    \* bound: signals, uncaught exceptions and kills, together

Processes == {Gateway} \cup Simulators
Ports == 1..65535

ASSUME LifecycleAssumption ==
    /\ Gateway \notin Simulators /\ PortOf \in [Simulators -> Ports]
    /\ Grace \in Nat \ {0} /\ MaxInFlight \in Nat /\ MaxIncidents \in Nat
    /\ \A e \in Environments : \A name \in DOMAIN e : e[name] \in Texts

VARIABLES
    script,        \* which script was started
    supervisor,    \* its process: "starting", "running", "signalled", "exited"
                   \*   by itself, or "killed"
    watcher,       \* node --watch of each simulator: [state, told]
    environment,   \* the environment its children are to get
    proc,          \* the processes: [state, code, refused, port, signals,
                   \*   inFlight, timers, left]; history: [elapsed, cut]
    incidents      \* how many signals, exceptions and kills there were

lcvars == <<script, supervisor, watcher, environment, proc, incidents>>

Absent == [state |-> "absent", code |-> "none", refused |-> FALSE, port |-> 0,
           signals |-> 0, inFlight |-> 0, timers |-> FALSE, left |-> 0,
           elapsed |-> 0, cut |-> 0]

Alive(p) == proc[p].state \in {"booting", "serving", "draining"}

Watches(p) == watcher[p].state \in {"booting", "watching", "stopping"}

\* Exited with a code: whatever was in flight is cut, the port is free.
Gone(r, code) ==
    [r EXCEPT !.state = "exited", !.code = code, !.signals = 0, !.timers = FALSE,
              !.inFlight = 0, !.cut = r.inFlight, !.refused = FALSE, !.port = 0]

Exits(p, code) == proc' = [proc EXCEPT ![p] = Gone(@, code)]

-----------------------------------------------------------------------------
(* A process.                                                              *)

\* Every child gets the script's environment.  Only the gateway reads
\* settings from it; a simulator's port is in its definition.
Spawned(p) ==
    [Absent EXCEPT
        !.state = "booting",
        !.refused = p = Gateway /\ (Refused(environment) \/ CompositionThrows(environment)),
        !.port = IF p = Gateway THEN Loaded(environment).PORT ELSE PortOf[p]]

PortTaken(port) == \E q \in Processes : proc[q].state = "serving" /\ proc[q].port = port

\* Listening, the gateway starts probing and sampling.  A port in use is an
\* uncaught exception, and closing a server that never listened an error.
Boot(p) ==
    /\ proc[p].state = "booting" /\ proc[p].signals = 0
    /\ IF proc[p].refused \/ PortTaken(proc[p].port) THEN Exits(p, "1")
       ELSE proc' = [proc EXCEPT ![p].state = "serving", ![p].timers = p = Gateway]
    /\ UNCHANGED <<script, supervisor, watcher, environment, incidents>>

Accept(p) ==
    /\ proc[p].state = "serving" /\ proc[p].inFlight < MaxInFlight
    /\ proc' = [proc EXCEPT ![p].inFlight = @ + 1]
    /\ UNCHANGED <<script, supervisor, watcher, environment, incidents>>

Finish(p) ==
    /\ proc[p].inFlight > 0
    /\ proc' = [proc EXCEPT ![p].inFlight = @ - 1]
    /\ UNCHANGED <<script, supervisor, watcher, environment, incidents>>

\* Mutant: a second signal gives the requests their full grace again.
ShutdownRearmed(r) ==
    [r EXCEPT !.state = "draining", !.timers = FALSE, !.left = Grace]

\* shutdown(): no new background work, no new connection, and a timer.  A
\* second call adds a timer after the first and a callback that would report
\* the server as not running, after the one that exits with 0.
Shutdown(r) ==
    IF r.state = "draining" THEN r
    ELSE [r EXCEPT !.state = "draining", !.timers = FALSE, !.left = Grace]

\* A process without its handlers yet dies of the signal.
HandleSignal(p) ==
    /\ Alive(p) /\ proc[p].signals > 0
    /\ IF proc[p].state = "booting" THEN Exits(p, "killed")
       ELSE proc' = [proc EXCEPT ![p] = [Shutdown(proc[p]) EXCEPT !.signals = @ - 1]]
    /\ UNCHANGED <<script, supervisor, watcher, environment, incidents>>

\* uncaughtException.
Fault(p) ==
    /\ incidents < MaxIncidents /\ proc[p].state \in {"serving", "draining"}
    /\ proc' = [proc EXCEPT ![p] = Shutdown(@)]
    /\ incidents' = incidents + 1
    /\ UNCHANGED <<script, supervisor, watcher, environment>>

\* The last connection is closed.
Drained(p) ==
    /\ proc[p].state = "draining" /\ proc[p].inFlight = 0
    /\ Exits(p, "0")
    /\ UNCHANGED <<script, supervisor, watcher, environment, incidents>>

GraceOver(p) ==
    /\ proc[p].state = "draining" /\ proc[p].left = 0
    /\ Exits(p, "1")
    /\ UNCHANGED <<script, supervisor, watcher, environment, incidents>>

\* The system kills the process.
Kill(p) ==
    /\ incidents < MaxIncidents /\ Alive(p)
    /\ Exits(p, "killed")
    /\ incidents' = incidents + 1
    /\ UNCHANGED <<script, supervisor, watcher, environment>>

Draining == {p \in Processes : proc[p].state = "draining"}

GraceTick ==
    /\ Draining # {} /\ \A p \in Draining : proc[p].left > 0
    /\ proc' = [p \in Processes |->
          IF p \in Draining
          THEN [proc[p] EXCEPT !.left = @ - 1,
                               !.elapsed = IF @ > Grace THEN @ ELSE @ + 1]
          ELSE proc[p]]
    /\ UNCHANGED <<script, supervisor, watcher, environment, incidents>>

-----------------------------------------------------------------------------
(* A watcher: node --watch, which run-all.js starts for each simulator.    *)

\* It starts the server and installs its handlers in one turn.
WatcherBoots(p) ==
    /\ watcher[p].state = "booting" /\ ~watcher[p].told
    /\ watcher' = [watcher EXCEPT ![p].state = "watching"]
    /\ proc' = [proc EXCEPT ![p] = Spawned(p)]
    /\ UNCHANGED <<script, supervisor, environment, incidents>>

Signalled(r) == [r EXCEPT !.signals = @ + 1]

\* Without its handlers yet it dies; else it passes the signal on to its
\* server, and waits for that to exit.
WatcherHandlesSignal(p) ==
    /\ Watches(p) /\ watcher[p].told
    /\ watcher' = [watcher EXCEPT
          ![p] = [state |-> IF @.state = "booting" THEN "exited" ELSE "stopping",
                  told |-> FALSE]]
    /\ proc' = IF Alive(p) THEN [proc EXCEPT ![p] = Signalled(@)] ELSE proc
    /\ UNCHANGED <<script, supervisor, environment, incidents>>

\* A server that exits untold it would start again after a change of source.
WatcherDone(p) ==
    /\ watcher[p].state = "stopping" /\ ~Alive(p)
    /\ watcher' = [watcher EXCEPT ![p] = [state |-> "exited", told |-> FALSE]]
    /\ UNCHANGED <<script, supervisor, environment, proc, incidents>>

\* Killed, it tells its server nothing.
KillWatcher(p) ==
    /\ incidents < MaxIncidents /\ Watches(p)
    /\ watcher' = [watcher EXCEPT ![p] = [state |-> "killed", told |-> FALSE]]
    /\ incidents' = incidents + 1
    /\ UNCHANGED <<script, supervisor, environment, proc>>

-----------------------------------------------------------------------------
(* The script.                                                             *)

Launch ==
    /\ supervisor = "starting"
    /\ supervisor' = "running"
    /\ IF script = "launcher"
       THEN /\ proc' = [p \in Processes |-> Spawned(p)]
            /\ UNCHANGED watcher
       ELSE /\ watcher' = [p \in Simulators |-> [state |-> "booting", told |-> FALSE]]
            /\ UNCHANGED proc
    /\ environment' = <<>>
    /\ UNCHANGED <<script, incidents>>

WatchersTold ==
    watcher' = [p \in Simulators |->
        IF Watches(p) THEN [watcher[p] EXCEPT !.told = TRUE] ELSE watcher[p]]

ServersTold(servers) ==
    proc' = [p \in Processes |->
        IF p \in servers /\ Alive(p) THEN Signalled(proc[p]) ELSE proc[p]]

\* The script gets SIGTERM, or everybody SIGINT from the terminal.
Signal(fromTerminal) ==
    /\ incidents < MaxIncidents /\ supervisor = "running"
    /\ supervisor' = "signalled"
    /\ IF fromTerminal THEN WatchersTold /\ ServersTold(Processes)
       ELSE UNCHANGED <<watcher, proc>>
    /\ incidents' = incidents + 1
    /\ UNCHANGED <<script, environment>>

\* Mutant: the gateway was not added to the list of children.
SimulatorsSignalled ==
    IF script = "launcher" THEN ServersTold(Simulators) /\ UNCHANGED watcher
    ELSE WatchersTold /\ UNCHANGED proc

\* The children are the servers for launcher.ts, the watchers for run-all.js.
ChildrenSignalled ==
    IF script = "launcher" THEN ServersTold(Processes) /\ UNCHANGED watcher
    ELSE WatchersTold /\ UNCHANGED proc

\* The script signals its children and exits without waiting for them.
StopAll ==
    /\ supervisor = "signalled"
    /\ supervisor' = "exited"
    /\ ChildrenSignalled
    /\ UNCHANGED <<script, environment, incidents>>

\* The exit of a watcher, not of its server, stops the others; launcher.ts
\* does not listen for exits.
ExitNoticed ==
    /\ script = "run-all" /\ supervisor = "running"
    /\ \E p \in Simulators : watcher[p].state \in {"exited", "killed"}
    /\ supervisor' = "exited"
    /\ ChildrenSignalled
    /\ UNCHANGED <<script, environment, incidents>>

\* With no child left nothing keeps the launcher's process running.
NothingLeft ==
    /\ script = "launcher" /\ supervisor = "running"
    /\ \A p \in Processes : proc[p].state = "exited"
    /\ supervisor' = "exited"
    /\ UNCHANGED <<script, watcher, environment, proc, incidents>>

\* Killed, the script tells nobody.
KillScript ==
    /\ incidents < MaxIncidents /\ supervisor \in {"running", "signalled"}
    /\ supervisor' = "killed"
    /\ incidents' = incidents + 1
    /\ UNCHANGED <<script, watcher, environment, proc>>

-----------------------------------------------------------------------------
LCInit ==
    /\ script \in Scripts
    /\ supervisor = "starting"
    /\ watcher = [p \in Simulators |-> [state |-> "none", told |-> FALSE]]
    /\ environment \in Environments
    /\ proc = [p \in Processes |-> Absent]
    /\ incidents = 0

LCNext ==
    \/ Launch
    \/ \E fromTerminal \in BOOLEAN : Signal(fromTerminal)
    \/ StopAll
    \/ ExitNoticed
    \/ NothingLeft
    \/ KillScript
    \/ \E p \in Simulators :
         WatcherBoots(p) \/ WatcherHandlesSignal(p) \/ WatcherDone(p) \/ KillWatcher(p)
    \/ \E p \in Processes :
         \/ Boot(p) \/ Accept(p) \/ Finish(p) \/ HandleSignal(p) \/ Fault(p)
         \/ Drained(p) \/ GraceOver(p) \/ Kill(p)
    \/ GraceTick

\* Handlers and timers of a running process run; nothing promises a signal,
\* a request, or the end of a request.
Fairness ==
    /\ WF_lcvars(StopAll) /\ WF_lcvars(GraceTick)
    /\ \A p \in Processes :
         WF_lcvars(HandleSignal(p)) /\ WF_lcvars(Drained(p)) /\ WF_lcvars(GraceOver(p))
    /\ \A p \in Simulators : WF_lcvars(WatcherHandlesSignal(p)) /\ WF_lcvars(WatcherDone(p))

LCSpec == LCInit /\ [][LCNext]_lcvars /\ Fairness

-----------------------------------------------------------------------------
(* However often it is told to stop, a process drains for at most Grace,   *)
(* without probing or sampling, and its exit code is 0 only if no request  *)
(* it had accepted was cut.                                                *)
StopsInTime ==
    \A p \in Processes :
        /\ proc[p].state = "draining" => proc[p].elapsed <= Grace /\ ~proc[p].timers
        /\ proc[p].code = "0" => proc[p].cut = 0

\* A server whose watcher was killed, with nobody left to tell it to stop.
Orphaned(p) ==
    /\ p \in Simulators /\ watcher[p].state = "killed"
    /\ proc[p].state \in {"booting", "serving"} /\ proc[p].signals = 0

(* Once the script has exited by itself, on a signal, the exit of a        *)
(* watcher or for want of children, every process it started goes too,     *)
(* whatever it was doing, but for the server of a watcher that was killed  *)
(* before it could pass the signal on.  A script that is killed stops      *)
(* nobody: launcher.ts and run-all.js leave that to whoever killed them.   *)
NoneLeftBehind ==
    supervisor = "exited" ~>
        /\ \A p \in Processes : Alive(p) => Orphaned(p)
        /\ \A p \in Simulators : ~Watches(p)

\* What the rate limiter reads a second time, and what it can work with.
LimiterTexts == {"RATE_LIMIT_CAPACITY", "RATE_LIMIT_REFILL_RATE",
                 "RATE_LIMIT_CLEANUP_INTERVAL_MS"}

LimiterWorks(limiter) ==
    {limiter.capacity, limiter.refillRate, limiter.cleanupIntervalMs} \subseteq Nat \ {0}

Positive(text) == text.kind \in {"whole", "scaled"} /\ text.n > 0

(* An environment loadEnv accepts is one that no constructor refuses, in   *)
(* which every integral setting is within what the other modules assume of *)
(* it, and where every service is registered where its simulator listens,  *)
(* under the path it and its group serve.  It need not suit the rate       *)
(* limiter, which reads its texts again: what it reads is loadEnv's value  *)
(* if the text is absent or a numeral, and it is positive exactly if each  *)
(* of its three texts is absent or a positive numeral, with or without an  *)
(* exponent.  For any other, as a rate that loadEnv does not check (0, or  *)
(* no number) or an empty or blank text, the limiter logs "using default"  *)
(* and works with 0, NaN or a negative value.                              *)
AcceptedConfigFits ==
    supervisor = "starting" /\ ~Refused(environment) =>
        LET config == Loaded(environment)
            limiter == Limiter(environment)
            Plain(name) == Raw(environment, name).kind \in {"unset", "whole"}
        IN  /\ ~CompositionThrows(environment)
            /\ \A name \in DOMAIN Integral \ {"RETRY_BASE_DELAY_MS", "RETRY_MAX_DELAY_MS",
                                               "INCIDENT_RECOVERY_QUIET_MS"} :
                   config[name] \in Nat \ {0}
            /\ Plain("RATE_LIMIT_CAPACITY") =>
                   limiter.capacity = config.RATE_LIMIT_CAPACITY
            /\ Plain("RATE_LIMIT_REFILL_RATE") =>
                   limiter.refillRate = config.RATE_LIMIT_REFILL_RATE
            /\ Plain("RATE_LIMIT_CLEANUP_INTERVAL_MS") =>
                   limiter.cleanupIntervalMs = config.RATE_LIMIT_CLEANUP_INTERVAL_MS
            /\ LimiterWorks(limiter) <=>
                   \A name \in LimiterTexts \cap DOMAIN environment : Positive(environment[name])
            /\ {Registrations[i] : i \in DOMAIN Registrations} = Simulated
            /\ \A group \in ProviderGroups : \A i \in DOMAIN group.providers :
                   \E s \in Simulated : /\ s.name = group.providers[i]
                                        /\ s.targetPath = group.targetPath
=============================================================================
