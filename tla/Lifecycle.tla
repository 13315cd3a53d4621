------------------------------ MODULE Lifecycle ------------------------------
(***************************************************************************)
(* The lifecycle coordinator (internal/startup), with what it drives: the  *)
(* module records, the health monitors, the activation flags on disk and   *)
(* the two system capabilities that change them.                           *)
(*                                                                         *)
(* Four kinds of goroutine meet on a record: Op, which is boot or the one  *)
(* handler of system.module.activate and .deactivate that the queue lets   *)
(* run; one health callback per module; Face, the shutdown; and the        *)
(* supervisors, reduced here to a process that is up, crashes and relaunch *)
(* included, until it has been stopped (the module Supervisor has the      *)
(* rest).  An instance is one launch sequence: a supervisor with its       *)
(* process, wire and monitor.  Jobs are there for the busy check.  Core    *)
(* may crash at any step; flags and installed files survive.               *)
(***************************************************************************)
EXTENDS Integers, Sequences, FiniteSets

CONSTANTS
    Module, Op, Face,      \* names; a module also names its health callback
    Order,                 \* the modules in the order of their names
    Requires,              \* m |-> the modules whose capabilities m requires
    HealthMaxRestarts,
    Patient,               \* operators wait for a health escalation to end
    MaxInstance, MaxBoots, \* bounds
    Renewed                \* bound: the modules that another version comes out of

None == 0
Instance == 1 .. MaxInstance
Thread == Module \cup {Op, Face}
Place == {"idle", "prepass", "flags", "next", "record", "unflag", "lookup",
          "setup", "launch", "probe", "post", "active", "fail",
          "busy", "monitor", "ready", "drain", "take", "stop", "unbind", "rest",
          "check", "count", "monitors", "supervisors", "done"}
Distinct(s) == \A i, j \in DOMAIN s : s[i] = s[j] => i = j

\* The entries of s that are in S, in their order: SelectSeq, as a function of the
\* index, which can be reasoned about.
Kept(s, S) ==
    LET kept[i \in 0 .. Len(s)] ==
            IF i = 0 THEN <<>>
            ELSE IF s[i] \in S THEN Append(kept[i - 1], s[i]) ELSE kept[i - 1]
    IN  kept[Len(s)]

ASSUME LifecycleAssumption ==
    /\ Op # Face /\ Op \notin Module /\ Face \notin Module /\ None \notin Module
    /\ Order \in Seq(Module) /\ Distinct(Order)
    /\ Requires \in [Module -> SUBSET Module]
    /\ HealthMaxRestarts \in Nat /\ MaxInstance \in Nat /\ MaxBoots \in Nat
    /\ Patient \in BOOLEAN /\ Renewed \subseteq Module

VARIABLES
    core, boots,               \* core itself, and how often it has been started
    state, sup, mon, mux,      \* the record: status, supervisor, monitor, wire
    restarts,                  \* restarts in this unhealthy episode
    flag,                      \* flag file: none, or its checksum: empty, current, stale
    prepared,                  \* modules whose installed version has been set up
    owner, run, watching,      \* of an instance: module, process, monitor loop
    pc, hand,                  \* of a thread: where it is, the instance it holds
    todo, at, hook, rolling,   \* of Op: modules to go, current one, its setup hook
    left                       \* of Face: modules still to visit

record == <<state, sup, mon, mux, restarts>>
procs  == <<owner, run, watching>>
disk   == <<flag, prepared>>
life   == <<core, boots>>
opvars == <<todo, at, hook, rolling>>
vars   == <<record, procs, disk, life, opvars, pc, hand, left>>

Launched == {n \in Instance : run[n] # "none"}
Inert(m) == state[m] \in {"unavailable", "missing"}
Drifted(m) == flag[m] = "stale"
Ready == {m \in Module : state[m] = "ready"}
FirstMissing(m) == \E p \in Requires[m] : Inert(p)

\* Who depends, at one or more removes, on itself.
OnCycle(m) ==
    \A S \in SUBSET Module :
        Requires[m] \subseteq S /\ (\A p \in S : Requires[p] \subseteq S) => m \in S

\* RequiredInactiveProviders: the walk itself is in the module Requirements.  It
\* lists ready modules, each once and for one that comes later; all that m requires,
\* and all that an entry does, before it, unless that depends on itself.
Cascades(m) ==
    LET Listed == Ready \ {m} IN
    {s \in UNION {[1 .. n -> Listed] : n \in 0 .. Cardinality(Module)} :
        /\ Distinct(s)
        /\ \A j \in DOMAIN s :
               \/ s[j] \in Requires[m]
               \/ \E i \in DOMAIN s : j < i /\ s[j] \in Requires[s[i]]
        /\ \A p \in Requires[m] \cap Listed : \E j \in DOMAIN s : s[j] = p
        /\ \A i \in DOMAIN s : \A p \in Requires[s[i]] \cap Ready :
               OnCycle(s[i]) \/ \E j \in DOMAIN s : j < i /\ s[j] = p}

\* Where a thread is, and where it goes; whose record it works on.
At(t, p) == pc[t] = p
Go(t, q) == pc' = [pc EXCEPT ![t] = q]
Subject(t) == IF t = Op THEN at ELSE t

------------------------------------------------------------------------------
\* A hook runs to a result: nothing declared or exit 0; or an error, which is a
\* failure, a deadline that passed, or a capability without a wire to ask over.
HookRuns(ok, error) == ok \/ error

------------------------------------------------------------------------------
\* Core comes and goes.  Its end closes every wire, and so ends every process.

Gone ==
    /\ core # "down"
    /\ core' = "down"
    /\ state' = [m \in Module |-> "ready"]
    /\ sup' = [m \in Module |-> None] /\ mon' = [m \in Module |-> None]
    /\ mux' = [m \in Module |-> None] /\ restarts' = [m \in Module |-> 0]
    /\ owner' = [n \in Instance |-> None] /\ run' = [n \in Instance |-> "none"]
    /\ watching' = {}
    /\ pc' = [t \in Thread |-> "idle"] /\ hand' = [t \in Thread |-> None]
    /\ todo' = <<>> /\ at' = None /\ hook' = "none" /\ rolling' = FALSE /\ left' = <<>>
    /\ UNCHANGED <<boots, disk>>

\* Modules whose requirements fail, and with them those that need one of them.
Unmet == {u \in SUBSET Module : \A m \in Module : Requires[m] \cap u # {} => m \in u}

Boot ==
    /\ core = "down" /\ boots < MaxBoots
    /\ core' = "boot" /\ boots' = boots + 1
    /\ \E u \in Unmet : state' = [m \in Module |-> IF m \in u THEN "unavailable" ELSE "ready"]
    /\ todo' = Kept(Order, {m \in Module : flag[m] # "none"})
    /\ Go(Op, "prepass")
    /\ UNCHANGED <<sup, mon, mux, restarts, procs, disk, at, hook, rolling, hand, left>>

\* on-requirement-missing may install what an activated module lacks.
PrePass ==
    /\ At(Op, "prepass")
    /\ \E healed \in SUBSET {m \in Module : flag[m] # "none" /\ state[m] = "unavailable"} :
           state' = [m \in Module |-> IF m \in healed THEN "ready" ELSE state[m]]
    /\ Go(Op, "next")
    /\ UNCHANGED <<sup, mon, mux, restarts, procs, disk, life, opvars, hand, left>>

BootNext ==
    /\ core = "boot" /\ At(Op, "next") /\ todo # <<>>
    /\ todo' = Tail(todo)
    /\ IF state[Head(todo)] = "ready"
       THEN /\ at' = Head(todo)
            /\ hook' = IF Drifted(Head(todo)) THEN "pre-activate" ELSE "on-start"
            /\ Go(Op, "setup")
       ELSE UNCHANGED <<at, hook, pc>>
    /\ UNCHANGED <<record, procs, disk, life, rolling, hand, left>>

Booted ==
    /\ core = "boot" /\ At(Op, "next") /\ todo = <<>>
    /\ core' = "up"
    /\ Go(Op, "idle")
    /\ UNCHANGED <<boots, record, procs, disk, opvars, hand, left>>

------------------------------------------------------------------------------
\* system.module.activate: flags first, providers before the target, then each
\* module's own activation.

\* mutant: the target first, then its providers
ActivateRequest_reversed(m) ==
    /\ core = "up" /\ At(Op, "idle")
    /\ ~Inert(m) /\ state[m] # "active"
    /\ \E s \in Cascades(m) : todo' = <<m>> \o s
    /\ Patient => \A i \in DOMAIN todo' : At(todo'[i], "idle")
    /\ Go(Op, "flags")
    /\ UNCHANGED <<record, procs, disk, life, at, hook, rolling, hand, left>>

ActivateRequest(m) ==
    /\ core = "up" /\ At(Op, "idle")
    /\ ~Inert(m) /\ state[m] # "active"
    /\ \E s \in Cascades(m) : todo' = Append(s, m)
    /\ Patient => \A i \in DOMAIN todo' : At(todo'[i], "idle")
    /\ Go(Op, "flags")
    /\ UNCHANGED <<record, procs, disk, life, at, hook, rolling, hand, left>>

\* activation.Activate creates an empty flag, or leaves the one that is there.
WriteFlag ==
    /\ At(Op, "flags")
    /\ LET missing == {i \in DOMAIN todo : flag[todo[i]] = "none"} IN
       \/ /\ missing = {}
          /\ Go(Op, "next")
          /\ UNCHANGED flag
       \/ /\ \E i \in missing :
                 /\ \A j \in missing : i <= j
                 /\ flag' = [flag EXCEPT ![todo[i]] = "empty"]
          /\ UNCHANGED pc
    /\ UNCHANGED <<record, procs, prepared, life, opvars, hand, left>>

\* ActivateModule: nothing to do; a requirement is missing, be it a provider or
\* a binary that is gone; or the sequence below.
ActivateNext ==
    /\ core # "boot" /\ At(Op, "next") /\ todo # <<>>
    /\ todo' = Tail(todo)
    /\ LET m == Head(todo) IN
       \/ /\ state[m] # "ready"
          /\ UNCHANGED <<state, at, hook, pc>>
       \/ /\ state[m] = "ready"
          /\ state' = [state EXCEPT ![m] = "unavailable"]
          /\ UNCHANGED <<at, hook, pc>>
       \/ /\ state[m] = "ready" /\ ~FirstMissing(m)
          /\ at' = m /\ hook' = "pre-activate"
          /\ Go(Op, "setup")
          /\ UNCHANGED state
    /\ UNCHANGED <<sup, mon, mux, restarts, procs, disk, life, rolling, hand, left>>

Answered ==
    /\ core # "boot" /\ At(Op, "next") /\ todo = <<>>
    /\ Go(Op, "idle")
    /\ UNCHANGED <<record, procs, disk, life, opvars, hand, left>>

------------------------------------------------------------------------------
\* activateWith, step by step.

Setup ==
    /\ At(Op, "setup")
    /\ HookRuns(/\ prepared' = IF hook = "pre-activate" THEN prepared \cup {at} ELSE prepared
                /\ Go(Op, "launch"),
                /\ Go(Op, "fail")
                /\ UNCHANGED prepared)
    /\ UNCHANGED <<record, procs, flag, life, opvars, hand, left>>

Launch ==
    /\ At(Op, "launch")
    /\ \/ /\ Launched # Instance                  \* bound
          /\ LET n == Cardinality(Launched) + 1 IN
             /\ owner' = [owner EXCEPT ![n] = at]
             /\ run' = [run EXCEPT ![n] = "up"]
             /\ mux' = [mux EXCEPT ![at] = n]
             /\ hand' = [hand EXCEPT ![Op] = n]
          /\ Go(Op, "probe")
       \/ /\ Go(Op, "fail")
          /\ UNCHANGED <<owner, run, mux, hand>>
    /\ UNCHANGED <<state, sup, mon, restarts, watching, disk, life, opvars, left>>

\* mutant: the supervisor stays with the activation, not on the record
Probe_unstored ==
    /\ At(Op, "probe")
    /\ Go(Op, "post") \/ Go(Op, "fail")
    /\ UNCHANGED <<record, procs, disk, life, opvars, hand, left>>

\* Handshake and self test; SetSupervisor when they pass.
Probe ==
    /\ At(Op, "probe")
    /\ \/ /\ sup' = [sup EXCEPT ![at] = hand[Op]]
          /\ Go(Op, "post")
       \/ /\ Go(Op, "fail")
          /\ UNCHANGED sup
    /\ UNCHANGED <<state, mon, mux, restarts, procs, disk, life, opvars, hand, left>>

\* failActivation.  The instance, if there is one, stays as it is.
FailActivation ==
    /\ At(Op, "fail")
    /\ state' = [state EXCEPT ![at] = "unavailable"]
    /\ hand' = [hand EXCEPT ![Op] = None]
    /\ at' = None /\ hook' = "none" /\ rolling' = FALSE
    /\ Go(Op, "next")
    /\ UNCHANGED <<sup, mon, mux, restarts, procs, disk, life, todo, left>>

PostActivate ==
    /\ At(Op, "post")
    /\ HookRuns(/\ Go(Op, "active")
                /\ UNCHANGED <<hand, rolling>>,
                /\ rolling' = TRUE
                /\ hand' = [hand EXCEPT ![Op] = None]
                /\ Go(Op, "busy"))
    /\ UNCHANGED <<record, procs, disk, life, todo, at, hook, left>>

\* SetStatus, Monitor.Start and SetMonitor, which no hook or call separates.
Activated ==
    /\ At(Op, "active")
    /\ state' = [state EXCEPT ![at] = "active"]
    /\ watching' = watching \cup {hand[Op]}
    /\ mon' = [mon EXCEPT ![at] = hand[Op]]
    /\ hand' = [hand EXCEPT ![Op] = None]
    /\ Go(Op, "record")
    /\ UNCHANGED <<sup, mux, restarts, owner, run, disk, life, opvars, left>>

\* SetChecksum writes the flag, whether or not it is still there.
SetChecksum ==
    /\ At(Op, "record")
    /\ flag' = [flag EXCEPT ![at] = "current"]
    /\ at' = None /\ hook' = "none"
    /\ Go(Op, "next")
    /\ UNCHANGED <<record, procs, prepared, life, todo, rolling, hand, left>>

------------------------------------------------------------------------------
\* system.module.deactivate: busy check, flag, DeactivateModule.

DeactivateRequest(m) ==
    /\ core = "up" /\ At(Op, "idle")
    /\ at' = m
    /\ Go(Op, "unflag")
    /\ UNCHANGED <<record, procs, disk, life, todo, hook, rolling, hand, left>>

RemoveFlag ==
    /\ At(Op, "unflag")
    /\ flag' = [flag EXCEPT ![at] = "none"]
    /\ Go(Op, "lookup")
    /\ UNCHANGED <<record, procs, prepared, life, opvars, hand, left>>

DeactivateModule ==
    /\ At(Op, "lookup")
    /\ IF state[at] = "active"
       THEN /\ Go(Op, "busy")
            /\ UNCHANGED <<state, at>>
       ELSE /\ state' = IF state[at] = "failed" THEN [state EXCEPT ![at] = "ready"] ELSE state
            /\ at' = None
            /\ Go(Op, "next")
    /\ UNCHANGED <<sup, mon, mux, restarts, procs, disk, life, todo, hook, rolling, hand, left>>

------------------------------------------------------------------------------
\* Teardown: Deactivate (by the handler, or as a rollback) and failHealth.

\* Deactivate's own busy check; a refusal leaves everything as it is.
CheckBusy ==
    /\ At(Op, "busy")
    /\ \/ /\ at' = IF rolling THEN at ELSE None
          /\ Go(Op, IF rolling THEN "fail" ELSE "next")
       \/ /\ Go(Op, "monitor")
          /\ UNCHANGED at
    /\ UNCHANGED <<record, procs, disk, life, todo, hook, rolling, hand, left>>

\* mutant: the monitor is taken off the record and left running
TakeMonitor_running(t) ==
    /\ At(t, "monitor")
    /\ mon' = [mon EXCEPT ![Subject(t)] = None]
    /\ Go(t, "ready")
    /\ UNCHANGED <<state, sup, mux, restarts, procs, disk, life, opvars, hand, left>>

TakeMonitor(t) ==
    /\ At(t, "monitor")
    /\ watching' = watching \ {mon[Subject(t)]}
    /\ mon' = [mon EXCEPT ![Subject(t)] = None]
    /\ Go(t, "ready")
    /\ UNCHANGED <<state, sup, mux, restarts, owner, run, disk, life, opvars, hand, left>>

\* mutant: the record stays active until all is done
Deregister_late(t) ==
    /\ At(t, "ready")
    /\ Go(t, IF t = Op THEN "drain" ELSE "take")
    /\ UNCHANGED <<record, procs, disk, life, opvars, hand, left>>

Deregister(t) ==
    /\ At(t, "ready")
    /\ state' = [state EXCEPT ![Subject(t)] = "ready"]
    /\ Go(t, IF t = Op THEN "drain" ELSE "take")
    /\ UNCHANGED <<sup, mon, mux, restarts, procs, disk, life, opvars, hand, left>>

\* pre-deactivate: whatever the hook does, and however long it takes.
Drain ==
    /\ At(Op, "drain")
    /\ Go(Op, "take")
    /\ UNCHANGED <<record, procs, disk, life, opvars, hand, left>>

TakeSupervisor(t) ==
    /\ At(t, "take")
    /\ hand' = [hand EXCEPT ![t] = sup[Subject(t)]]
    /\ sup' = [sup EXCEPT ![Subject(t)] = None]
    /\ Go(t, "stop")
    /\ UNCHANGED <<state, mon, mux, restarts, procs, disk, life, opvars, left>>

\* Supervisor.Stop returns when the process is gone.
StopProcess(t) ==
    /\ At(t, "stop")
    /\ run' = [n \in Instance |-> IF n = hand[t] THEN "stopped" ELSE run[n]]
    /\ hand' = [hand EXCEPT ![t] = None]
    /\ Go(t, "unbind")
    /\ UNCHANGED <<record, owner, watching, disk, life, opvars, left>>

DropMux(t) ==
    /\ At(t, "unbind")
    /\ mux' = [mux EXCEPT ![Subject(t)] = None]
    /\ restarts' = [restarts EXCEPT ![Subject(t)] = 0]
    /\ Go(t, "rest")
    /\ UNCHANGED <<state, sup, mon, procs, disk, life, opvars, hand, left>>

\* The resting state is the caller's: failed after failHealth, ready after
\* Deactivate; a rollback goes on to unavailable.
Rest(t) ==
    /\ At(t, "rest")
    /\ state' = [state EXCEPT ![Subject(t)] = IF t = Op THEN "ready" ELSE "failed"]
    /\ at' = IF t = Op /\ ~rolling THEN None ELSE at
    /\ Go(t, IF t # Op THEN "idle" ELSE IF rolling THEN "fail" ELSE "next")
    /\ UNCHANGED <<sup, mon, mux, restarts, procs, disk, life, todo, hook, rolling, hand, left>>

------------------------------------------------------------------------------
\* Health: the monitor calls back in a goroutine of its own on every streak.

StreakFails(n) ==
    /\ n \in watching
    /\ At(owner[n], "idle")          \* bound: one callback of a module at a time
    /\ Go(owner[n], "check")
    /\ UNCHANGED <<record, procs, disk, life, opvars, hand, left>>

OnHealthFail(m) ==
    /\ At(m, "check")
    /\ Go(m, IF state[m] = "active" THEN "count" ELSE "idle")
    /\ UNCHANGED <<record, procs, disk, life, opvars, hand, left>>

\* One more restart, which Relaunch below performs, or the end.
CountRestart(m) ==
    /\ At(m, "count")
    /\ IF restarts[m] >= HealthMaxRestarts
       THEN /\ Go(m, "monitor")
            /\ UNCHANGED restarts
       ELSE /\ restarts' = [restarts EXCEPT ![m] = @ + 1]
            /\ Go(m, "idle")
    /\ UNCHANGED <<state, sup, mon, mux, procs, disk, life, opvars, hand, left>>

OnHealthRecover(n) ==
    /\ n \in watching /\ restarts[owner[n]] > 0
    /\ restarts' = [restarts EXCEPT ![owner[n]] = 0]
    /\ UNCHANGED <<state, sup, mon, mux, procs, disk, life, opvars, pc, hand, left>>

\* The supervisor launches again after a crash or a restart: OnChannel.
Relaunch(n) ==
    /\ run[n] = "up"
    /\ mux' = [mux EXCEPT ![owner[n]] = n]
    /\ UNCHANGED <<state, sup, mon, restarts, procs, disk, life, opvars, pc, hand, left>>

------------------------------------------------------------------------------
\* Shutdown: every monitor, then every supervisor, then core is gone.

Shutdown ==
    /\ core = "up"
    /\ core' = "closing"
    /\ Go(Face, "monitors")
    /\ UNCHANGED <<boots, record, procs, disk, opvars, hand, left>>

StopMonitors ==
    /\ At(Face, "monitors")
    /\ watching' = watching \ {mon[m] : m \in Module}
    /\ mon' = [m \in Module |-> None]
    /\ left' = Order
    /\ Go(Face, "supervisors")
    /\ UNCHANGED <<state, sup, mux, restarts, owner, run, disk, life, opvars, hand>>

StopSupervisors ==
    /\ At(Face, "supervisors")
    /\ IF left = <<>>
       THEN /\ Go(Face, "done")
            /\ UNCHANGED <<run, sup, left>>
       ELSE /\ left' = Tail(left)
            /\ run' = [n \in Instance |-> IF n = sup[Head(left)] THEN "stopped" ELSE run[n]]
            /\ sup' = [sup EXCEPT ![Head(left)] = None]
            /\ UNCHANGED pc
    /\ UNCHANGED <<state, mon, mux, restarts, owner, watching, disk, life, opvars, hand>>

------------------------------------------------------------------------------
\* Another version of a module is put on disk.
Install(m) ==
    /\ m \in Renewed /\ flag[m] = "current"
    /\ flag' = [flag EXCEPT ![m] = "stale"]
    /\ prepared' = prepared \ {m}
    /\ UNCHANGED <<record, procs, life, opvars, pc, hand, left>>

------------------------------------------------------------------------------
\* A disk as earlier runs of core have left it.
Init ==
    /\ core = "down" /\ boots = 0
    /\ state = [m \in Module |-> "ready"]
    /\ sup = [m \in Module |-> None] /\ mon = [m \in Module |-> None]
    /\ mux = [m \in Module |-> None] /\ restarts = [m \in Module |-> 0]
    /\ flag \in [Module -> {"none", "current"}]
    /\ prepared = {m \in Module : flag[m] = "current"}
    /\ owner = [n \in Instance |-> None] /\ run = [n \in Instance |-> "none"]
    /\ watching = {}
    /\ pc = [t \in Thread |-> "idle"] /\ hand = [t \in Thread |-> None]
    /\ todo = <<>> /\ at = None /\ hook = "none" /\ rolling = FALSE /\ left = <<>>

Teardown(t) ==
    \/ TakeMonitor(t) \/ Deregister(t) \/ TakeSupervisor(t) \/ StopProcess(t)
    \/ DropMux(t) \/ Rest(t)

OpStep ==
    \/ PrePass \/ BootNext \/ Booted \/ WriteFlag \/ ActivateNext \/ Answered
    \/ Setup \/ Launch \/ Probe \/ FailActivation \/ PostActivate \/ Activated \/ SetChecksum
    \/ RemoveFlag \/ DeactivateModule \/ CheckBusy \/ Drain \/ Teardown(Op)

HealthStep(m) == OnHealthFail(m) \/ CountRestart(m) \/ Teardown(m)

Next ==
    \/ Boot \/ Gone \/ Shutdown \/ StopMonitors \/ StopSupervisors \/ OpStep
    \/ \E m \in Module :
           \/ ActivateRequest(m) \/ DeactivateRequest(m) \/ HealthStep(m)
           \/ Install(m)
    \/ \E n \in Instance : StreakFails(n) \/ OnHealthRecover(n) \/ Relaunch(n)

Spec == Init /\ [][Next]_vars

------------------------------------------------------------------------------
\* Every variable has its type.
TypeOK ==
    /\ core \in {"down", "boot", "up", "closing"} /\ boots \in 0 .. MaxBoots
    /\ state \in [Module -> {"ready", "active", "unavailable", "failed"}]
    /\ sup \in [Module -> Instance \cup {None}] /\ mon \in [Module -> Instance \cup {None}]
    /\ mux \in [Module -> Instance \cup {None}]
    /\ restarts \in [Module -> 0 .. HealthMaxRestarts]
    /\ flag \in [Module -> {"none", "empty", "current", "stale"}]
    /\ prepared \subseteq Module
    /\ owner \in [Instance -> Module \cup {None}]
    /\ run \in [Instance -> {"none", "up", "stopped"}]
    /\ watching \subseteq Instance
    /\ pc \in [Thread -> Place] /\ hand \in [Thread -> Instance \cup {None}]
    /\ todo \in Seq(Module) /\ left \in Seq(Module) /\ at \in Module \cup {None}
    /\ hook \in {"none", "on-start", "pre-activate"} /\ rolling \in BOOLEAN

\* Every variable has its type, and no process is lost: one that is up is on its
\* record, in the hands of a goroutine that will store or stop it, or was left
\* behind by an activation that failed (failActivation stops nothing).
Owned ==
    /\ TypeOK
    /\ \A n \in Instance : run[n] = "up" =>
        \/ sup[owner[n]] = n
        \/ \E t \in Thread : hand[t] = n
        \/ state[owner[n]] = "unavailable"

\* As long as core is not shutting down, an active module has a supervisor that
\* is not stopped, and its wire is that supervisor's: "an active module with no
\* supervisor is a core invariant violation" (onHealthFail).
ActiveIsServed ==
    core \in {"boot", "up"} =>
        \A m \in Module : state[m] = "active" =>
            sup[m] # None /\ mux[m] = sup[m] /\ run[sup[m]] = "up"

\* Once nobody works on it, a module at rest has no supervisor, monitor or
\* wire, no monitor loop of it goes on, and every process it had is stopped.
RestIsDown ==
    \A m \in Module :
        core = "up" /\ state[m] \in {"ready", "failed"} /\ At(m, "idle") /\ at # m
        => /\ sup[m] = None /\ mon[m] = None /\ mux[m] = None
           /\ \A n \in Instance : owner[n] = m => run[n] = "stopped" /\ n \notin watching

\* The handler begins to activate a module only when each provider it requires
\* is up, or its health has failed or is failing: a cascade goes in order and
\* stops behind a provider that could not be activated.
ProvidersFirst ==
    [][ core = "up" /\ At(Op, "next") /\ pc'[Op] = "setup"
        => \A p \in Requires[at'] : state[p] \in {"active", "failed"} \/ ~At(p, "idle") ]_vars

\* A module is active only after its one-time setup has been run: "the
\* module's one-time setup was done at first activation" (BootActivate).
\* TLC refutes it: core may die between the flag and the setup (README, section 5).
SetupRan == \A m \in Module : state[m] = "active" /\ flag[m] # "stale" => m \in prepared
==============================================================================
