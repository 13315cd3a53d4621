# suctl in TLA+

suctl is a module host for one machine: a core process (broker, queue, stores,
supervisors, a terminal face) and a handful of module processes it spawns, each joined to
core by one inherited duplex connection. These modules specify the parts of it in which
goroutines, processes, messages and files meet, check them with TLC on small instances, and
prove the properties that matter most with TLAPS for instances of any size. Paths below are
relative to `src/`.

1. [The system](#1-the-system)
2. [The modules](#2-the-modules-and-the-code)
3. [Runs](#3-runs)
4. [Abstractions, bounds and fairness](#4-abstractions-bounds-and-fairness)
5. [Where the code does otherwise](#5-where-the-code-does-otherwise)
6. [Proofs](#6-proofs)
7. [What is only model-checked](#7-what-is-only-model-checked)
8. [What is not modelled](#8-what-is-not-modelled)

## 1. The system

| part | state it keeps | operations | what must hold | model |
|---|---|---|---|---|
| **broker** `internal/broker` | `admitMu`, `cond`; a goroutine per invoke | `HandleEnvelope`, `handleInvoke`, `waitStarted`, `advance`, `handleJobUpdate`, `handleJobStatus` | jobs that share a module of their footprints are serialized; first come first served unless disjoint; nobody is stranded; every caller is answered | `Broker`, `Admission`, `PlanPromotions` |
| **messages store** `internal/messages` | exchanges by id, insertion order, Started stamps | `Open`, `Complete`, `Start`, `trimLocked`, queries that *derive* job state | a job's derived state follows what happened, whatever was trimmed | `Exchanges` |
| **gate** `internal/gate` | none | `Admissible`, `Busy` | admission and deactivation apply one policy | `Broker`, `Lifecycle` |
| **wire** `internal/wire`, Go client `sdk/brokerclient` | table of waiters, sticky error, dispatcher | `RoundTrip`, `Serve`/`readLoop`, `route`, `fail`, `SetRequestHandler`, `Invoke`, `JobUpdate` | an answer reaches its own caller; a failed wire releases everybody; the reader never blocks | `Wire` |
| **module servers** `sdk/modserver`, `sdk/python` | one goroutine per request, one per async capability | `dispatch`, `runAsync` | an accepted job ends in one terminal report | `Broker` |
| **supervisor** `internal/supervisor` | process, wire end, crash list, `stopCh`, `exitCh` | `Start`, `monitor`, `Restart`, `Stop` | one process at a time; stopped means stopped; crashes are counted; no wire leaks | `Supervisor` |
| **lifecycle** `internal/startup`, `internal/health`, `internal/activation` | records, monitors, flag files, restart counters | `Activate`, `BootActivate`, `Deactivate`, `onHealthFail`, `failHealth`, `Shutdown`, `system.module.*` | an active module is served; no process without an owner; a module at rest is down; providers come first | `Lifecycle` |
| **requirements** `internal/module` | records by name | `Scan`, `EvaluateRequirements`, `RequiredInactiveProviders`, `Footprint`, `Resolve` | unavailability cascades and no further; a footprint is the closure; providers precede dependents; cycles end | `Requirements` |
| **surfaces** `internal/surface`, `internal/repl/orchestrator.go` | bounded stream; token tables, parked reports | `LoadSurvey`, `FillCells`, `Deliver`, `ingest`, `register`, `forget` | a load resolves whatever overtakes what; a superseded one stays away | `Correlation` |
| **pages** `internal/repl` | page stack, messages in flight | keys, push, pop, replace, loads, the flow of an action | the stack stays a path from home; a result lands where its action came from | `Pages` |
| **nginx** with **certbot** `modules/` | site files, links, overrides, certificates; the running nginx | `domain.add`, `provision`, suspend, maintenance, migrate | what was served stays served; a success is in force; the survey tells the truth | `Nginx` |
| **fail2ban** `modules/` | drop-ins and filters; the running server | create, delete, activate, deactivate, set, ignoreip | what was switched stays so; a restart changes nothing | `Fail2ban` |
| os, odoo, installer, configuration, manifests, rendering, platform | see section 8 | | | |

How they interact:

- The face mints a token and calls the broker in process. The broker records the exchange
  in the messages store, waits until the queue manager has stamped the token as started,
  and sends the request over the target's wire. Modules call other modules, and report
  progress of async work, by requests in the opposite direction on the same wire.
- Nothing stores a job. *Queued*, *running*, *done* and *failed* are derived from records
  and the Started stamp, on every read; the queue manager reads them twice in each pass.
- The supervisor creates a new connection for each launch and hands core's end to the
  module record; the broker and the health monitor take it from there when they need it.
- The lifecycle takes the supervisor and the monitor out of the record before it stops
  them, which is what keeps one caller in each `Stop`.
- Modules keep their state in files of the programs they manage. The broker serializes the
  jobs of a module, and nothing serializes them with operators, certbot or restarts.

What is hard: the queue and the running set are read in two steps while the store changes
between them; an async worker starts before its acknowledgement is written; timeouts
abandon work that goes on at the other end; a stop, a restart and a crash race for one
process; a health callback acts on what it read before; both directions of a wire wait for
each other's room; reports overtake the answer that says what they are about; a file is
written and the server that reads it is not there. `PROJECT.json` lists each hazard with
its line, and the properties about it.

## 2. The modules and the code

                                     Gate
                                    /    \
    Admission <-- implemented by -- Broker   PlanPromotions (the loop that makes Broker's plan)
                                    \    /
                                 BrokerProofs

    Supervisor -- SupervisorProofs      Wire -- WireProofs      Exchanges -- ExchangesProofs

    Lifecycle -- LifecycleProofs        Requirements -- RequirementsProofs

    Pages   Correlation                 Nginx   Fail2ban
        \     /                             \     /
       ReplProofs                        ModulesProofs

Each `MC<Module>` gives a module its finite constants for TLC. A definition marked
`\* mutant` is a plausible bug of the definition after it; nothing in a specification uses
it. It is there to show that a property notices.

The modules meet in what they assume of each other. `Broker` takes footprints and routes
as constants: `Requirements` derives both from manifests, and `HopsAreCovered` proves of
them what `Broker` assumes, that what a module calls lies in its footprint. `Lifecycle`
takes the cascade of an activation as `Cascades`: `CascadeIsListed` proves that this is
what the walk of `Requirements` lists. `Broker` keeps every exchange:
`Exchanges` has the store with its trimming and shows that what the queue reads of a job
that is waited for is not affected. `Lifecycle` reduces a supervisor to a process that is
up until it has been stopped: `Supervisor` shows that a Stop ends so. `Correlation` and
`Pages` assume that every call returns: `Broker` (`EveryCallAnswered`) and `Wire`
(`EveryCallReturns`). `Nginx` and `Fail2ban` assume that the jobs of one module do not
overlap: `Broker` (`Serialized`).

### Gate, Broker, Admission, PlanPromotions

One invoke is a goroutine with a program counter `pc`: `idle → enqueue → wait → waiting →
route → called → respond → release → returned`; a module's call (a hop) skips the queue
part and `release`. Its steps are `Open` (record), `AdvanceCall`/`PromoteCall` (the pass
of the queue manager it runs when it enters and, deferred, when it leaves), `BeginWait`
and the `Wake…` actions (the loop around `cond.Wait`), `Expire`/`TimerFires` (the
deadline, and the timer's one broadcast), `Dispatch`/`RouteFails`, and `Complete`.

| code | model |
|---|---|
| record without response / with response | `exchange[c] = "open"` / `"ok"`, `"error"`, `"accepted"` |
| last `job_update` on the token | `folded[c]` |
| Started stamp | `c \in started` |
| `jobs.go: deriveState` | `Ended`, `Queued`, `Running` |
| `advance` under `admitMu` | `Lock` (reads the queue), `Promote` (reads the running set, stamps the plan, broadcasts); the store may change between the two |
| `gate.go: admissible` | `Gate!Admissible`, of a footprint and the modules that are held |
| `planPromotions` | `IsPlan`, a declarative statement of the loop; `PlanPromotions` has the loop itself |
| `handleJobUpdate` | `Record`, `Deliver` (surface sink), `AdvanceReport`/`PromoteReport` (terminal reports only) |
| `modserver.dispatch`, `runAsync` | `Accept`, `Reply`, `Acknowledge`, `Announce`, `Work`, `Finish` |
| a handler's call of another module | `Hop`, `HopReturns`; under a fresh token: a member of `Stray` |
| death of a process | `Die`: work inside it is gone, calls in its hands fail unless the ack was already written |

`Admission` is what the queue promises: callers wait, hold exclusive resources, end once.
It is a specification only and has no run of its own: `Broker!Implements` maps the derived
states onto it, TLC checks that mapping and `BrokerProofs` proves it. `PlanPromotions` is
the loop of `planPromotions` over a queue, one iteration per step; `LoopComputesPlan` proves
that it ends with the plan `Promote` stamps. Both modules extend `Gate`.

### Exchanges

The store, with `Open`, `Complete`, `Start` and `trimLocked` (`Kept`, `Stamps`), under jobs
that call, hop and report. `phase` says where the work of a job really is; `JobState` is
what `Store.Job` derives from the records that are left. `Jobs`, `JobsSurvey`, `JobsFocus`,
`JobMessages`, `Messages`, `MessagesFocus` and `JobStatus` are the queries of
`internal/system` and of `job_status`.

### Supervisor

The monitor goroutine's counter `mon` walks through `launch` (`Spawn`, `Publish`, `Swap`,
`Bind`), `stopFreshChildIfStopping` (`Recheck`), the wait and the reaction to an exit
(`Exited`, `Take`, `Crash`, `Leave`). Every caller of `Stop` has a counter of its own
(`Look`, `Close`, `Signal`, `Await` with `SeesExit`/`TimesOut`, `Release`). `Restart` is
one step. Each step is one critical section of `s.mu`, one channel operation or one system
call. Processes crash at any time (`Crashes`), obey a stop request (`Obeys`) or, if they
are `deaf`, do not. `intentional` remembers for which launch the flag was raised; the code
keeps only whether it is raised, and no action looks further than that.

### Wire

Two mirror-image ends (`"core"`: `wire.Mux`; `"module"`: the Go client), each with a table
of waiters, a reader, a goroutine per inbound request, and an outgoing stream of
`Capacity` envelopes. `Register`, `Write`, `Receive`, `TimeOut` are `RoundTrip`;
`ReadRequest`, `Deliver`, `Fail` the read loop; `Answer` is `serveInbound`; `Install` is
`SetRequestHandler`. `Deliver` and `Fail` carry the guard that the response channel is
empty, as a send to a full one would block the reader there.

### Lifecycle

Four kinds of goroutine with a counter each: `Op` (boot, or the one handler of
`system.module.activate` / `.deactivate` the queue lets run), a health callback per module,
`Face` (the shutdown), and the supervisors. The steps of `Op` are those of `activateWith`
(`Setup`, `Launch`, `Probe`, `PostActivate`, `Activated`, `SetChecksum`), its error path
(`FailActivation`) and its rollback, which is `Deactivate` under `rolling`; the teardown
(`TakeMonitor`, `Deregister`, `Drain`, `TakeSupervisor`, `StopProcess`, `DropMux`, `Rest`)
is shared with `failHealth`. `Gone` ends core at any step; flags and installed files
survive it, and `Boot` starts from them. `Install` puts another version of a module on
disk.

### Requirements

`Build` in the order of its checks: `ScanDir`, `MarkMissing`, `EvaluateSystemReqs`, the
passes `BeginPass`/`EvaluateCapReqs`/`EvaluateDone`, `EvaluateConfig`; then `PrePass` of
boot, and, over the finished store, the two recursive walks as a stack of frames (`Collect`,
`Return`): the activation cascade and the footprint. A loop over a Go map takes the records
in any order, and `findProvider` answers with any provider.

### Correlation

`minted`, `call`, `answer` and `job` are the goroutines and jobs; `stream` is the bounded
channel (`Deliver` drops when it is full); `known`, `cellKnown`, `parked`, `order` are the
orchestrator's tables; `loading`, `err`, `shows`, `cells` the mod. `ApplyLoad`,
`ApplyCellLoad` and `Ingest` are the handlers of the Update loop; a handler that makes
several changes is a chain of functions over a record, in the code's order.

### Pages

`stack` is `root.pages`, `flight` the bag of messages that Cmds will post. `Receive…` are
the cases of `root.Update`; `…Key` what each page does with a key. A page never changes the
stack: it sends.

### Nginx

A file is a sequence of server blocks; `Tree` is what `nginx -T` would show, `running` what
the running nginx has loaded; the surfaces look at a block by its position in the tree, a
migration by its position in the default site. A synchronous capability is one action, as jobs of the module
are serialized; `nginx.provision` is several (`ProvisionAdd`, `ProvisionCert`,
`ProvisionReload`), with certbot's own work (`Certify`), its death (`ModuleDies`) and an
operator's edit between them. `Status`, `Rows`, `Focus`, `Offers`, `SourceOffers` and
`BlockOffers` are what the surfaces show.

### Fail2ban

`file[layer][jail]` are the sections before our drop-in, our drop-in and those after it;
`Effective` is the last that names a parameter. A call writes the disk in one step and
tells the server in the next; the server restarts, goes silent or stops in between, an
operator edits, the module dies.

## 3. Runs

| run | instance | shows |
|---|---|---|
| `Broker_mixed` | 3 jobs (one async, with a sync hop) on two modules, one footprint inside the other, fair, no clock | `HopInsideFootprint`, `NotOvertaken`, `EndsAsTold`, `EventuallyEnds` (the deadline is not what moves the queue), `Implements` |
| `Broker_crash` | 2 jobs, one crash, replies given up on, a fair clock | `Serialized`, `NoStrandedJob` survive both; `EveryCallAnswered`: a caller blocked by a job that died with its module is answered by its deadline |
| `PlanPromotions` | every queue of up to 4 jobs, every running set, 4 modules with nested footprints | `PlanIsRight`: the loop computes the plan, its jobs are disjoint, nobody is left behind |
| `Exchanges` | 3 jobs, one async, two that hop, in a store that keeps 2 exchanges; up to 6 are opened | `AnswersLand`, `WaitedForStands`, `EndStands`, `SameBoundary`, `Bounded` |
| `Supervisor_restart` | 4 launches, health restarts, two callers of `Stop` one after the other, fair | `ProcessAndWire`, `StopIsOrderly`, and `StopStops`, deaf processes included |
| `Wire_calls` | a health check, an invoke whose handler calls back, a report; deadlines, slow start, death; room for 1 envelope; fair | `TableIsSound`, `EveryCallReturns` |
| `Lifecycle` | 2 modules, one requiring the other, 2 launches, 1 health restart, an upgrade of one, core dying at any step | `Owned`, `ActiveIsServed`, `RestIsDown`, `ProvidersFirst` |
| `Requirements` | every graph over 3 modules, any visiting order, any answer of the host | `Cascaded`, `FootprintIsClosure`, `ProvidersBefore`, `WalksEnd` |
| `Correlation` | 2 loads and 2 fills, a stream of 8, fair | `WaitsForAnEnd`, `SupersededNeverPaints`, `SpinnersStop` |
| `Pages` | 2 subjects, a filter, actions safe, dangerous and on all rows; up to 5 messages in flight, fair | `IsAPath`, `ResultLands`, `EveryPageResolves` |
| `Nginx` | 2 domains, one of them the operator's, in a file of its own or in the default site; 3 capabilities, certbot and the operator between | `StillLive`, `OkIsServed`, `SiteDark`, `RowsTellTheTruth` |
| `Fail2ban` | a jail of the distribution and one of the catalog, 3 calls, 2 edits, 2 faults | `DropinHasFilter`, `RestartChangesNothing`, `SwitchStands` |

The type invariant of a module is a conjunct of its first invariant, except in `Broker`,
`Supervisor` and `Wire`, where it is a theorem. `Broker`, `Supervisor`, `PlanPromotions`
and `Pages` run with deadlock checking (`Broker` has a stutter step for the states in which
everything has rightly ended). The others stop where the system does: all calls have
returned, or a bound is reached.

## 4. Abstractions, bounds and fairness

*Bounds.* They are CONSTANTS named `Max…`, or guards marked `bound`.

- *Broker*: two footprints, one inside the other, are the smallest instance in which order
  and overlap occur; three jobs let one wait behind another while a third ends; one crash
  reaches every program counter of every call. Disjoint footprints and longer queues are
  the business of `PlanPromotions`, and both modules are proved without bounds. Equal
  receive times of two jobs are not modelled: `queuedAt` is a strict order.
- *Supervisor*: a stale flag needs three launches, the guard with budget 2 trips on the
  third crash; the launches beyond that leave room for a relaunch that races a `Stop`.
- *Wire*: two calls in each direction and room for fewer envelopes than calls give every
  way in which a writer can wait for a reader.
- *Exchanges*: a cap of 2 with trimming at 4 is reached by two jobs and a hop, so that a
  trim meets open exchanges, ended jobs, stamps and half of a job's records.
- *Lifecycle*: a cascade needs two modules, a record that was replaced two instances. One
  boot is enough: the disks it may meet, those an earlier death of core leaves included,
  are reached by `Gone` and the initial states.
- *Requirements*: three modules give chains, cycles of two and three, and a provider met
  twice. `MCProvides` has one provider per capability; rivals are in section 5.
- *Correlation*: a load, the load that supersedes it and a fill of each. A stream of 8
  holds every report of the instance; a shallower one is in section 5.
- *Pages*: every path of pages is at most five deep. A key is pressed only with fewer than
  five messages under way.
- *Nginx*: three capabilities reach an override over a migrated site, a provision after an
  add, and what certbot does between.
- *Fail2ban*: three calls create, switch and tune a jail, or tune one between two switches.

*Fairness.* Weak fairness of a goroutine is what the Go scheduler gives. For modules it is
assumed that a handler returns, which the code assumes too: an originating invoke has no
deadline on the wire. `Expire` is fair only in `TimedSpec` (`Broker_crash`), so
`Broker_mixed` cannot lean on the clock. In `Supervisor` the monitor, `Stop` and processes
that are not deaf are fair; crashes and restarts are not. In `Wire` both readers, the
writers, the handlers and the deadlines are; death is not. In `Requirements` the loops are.
In `Correlation` and `Pages` the Update loop is, as it re-arms its listener after every
message, and so are calls, which return by what the other modules show; operators are not.

*Broker.*
- What a job's records contain besides its state is left out, and so are the records of a
  job's sync hops and reports for tokens nobody opened: none changes a derived state.
- Health, hook, surface and probe calls are not jobs and pass by the queue.
- Routing is constant: the module of a capability and its footprint do not change while a
  job waits; a module that goes away in the meantime is `RouteFails`.
- In-process system capabilities are handlers like any other.
- The surface sink is a variable that is always written. The real one drops when its
  buffer is full, which is in `Correlation`.
- After `Die` the module is back at once: the supervisor's delay is not seen by the queue
  except as `RouteFails`.
- A broad job can be passed by narrower ones it does not block for as long as they come.
  The code promises no more than its deadline, and `NotOvertaken` says no more than it:
  a job is never overtaken by one that needs everything it needs.

*Supervisor.* The restart window is `WindowPasses`, which ages out the oldest crashes.
Backoff is idle time. A launch is shorter than `StopTimeout` (30 s by default), so a
`Stop` does not give up during one.

*Wire.* `writeMu` is left out: whoever waits for it waits for the same room in the
stream. Removing a waiter from the table and sending to its channel are one step, since
only the reader does either. A dead process closes the connection in both directions and
what was on the way is lost.

*Lifecycle.* Hooks succeed or fail. A job, and so a busy check, may come and go at any
step; the check answers either way. `Patient` says that an operator does not ask for a
module while its health escalation is under way; with `FALSE` section 5 applies. A
callback of a module's health is not entered again before it has ended.

*Requirements.* What the host answers is an input of the step that asks. `Transition`
stands for the lifecycle, so that walks meet every mixture of states.

*Correlation.* One mod with one column to fill; one report of work under way stands for
any number. *Pages.* Facets are one more filter, drills push a survey of the same shape;
both are left out, and so is the cursor of the home page.

*Nginx.* A block keeps what tells blocks apart: names, ports, what it answers with, its
certificate, whose it is. That `splitBlocks` and `parseBlock` find these in a file is
assumed. *Fail2ban.* Of the tunables one is kept; the layers before and after the drop-in
are one each.

## 5. Where the code does otherwise

Each entry is a statement of a comment or of the models that the code does not keep. Most
were found by TLC, with the constants given; none has a run of its own.

**Queue and jobs**

- *An async hop.* A hop is to be inside its originator's running footprint
  (`internal/broker/broker.go:253`). `nginx.provision` calls the async
  `certbot.cert.provision`, takes the acknowledgement for the result, and ends while
  certbot works on: `HopInsideFootprint` with `AsyncHop = {n1}`. Certbot's reports carry
  the job's token and the last one wins (`internal/messages/jobs.go:177`), so a finished
  job runs again: `EndIsFinal`, and in the face `Provisioned` of `Nginx`.
- *A call under a token of its own.* `advance` is to run on every event that changes the
  queue (`internal/broker/queue.go:57`). A module's call under a fresh token is derived as
  a queued job and promoted; when it completes, nobody runs `advance`, and a job it blocked
  waits for the next event or its deadline: `NoStrandedJob` with `Stray = {s1}`.
- *Reports that are not waited for.* The Python SDK sends a report and goes on
  (`sdk/python/suctlmod.py:314`), and core serves each request in a goroutine of its own.
  `done` may be recorded before `running`; the job then runs for ever and holds its
  footprint: `EventuallyEnds` with `Async = {n1}`, no hops, `ReplyTimeout = TRUE`. The Go
  client waits, for 30 s.
- *A crash under a hop.* The process of the job's module dies, the job fails and its
  footprint is free, while its hop works on in another module: `HopInsideFootprint` with
  `MaxCrash = 1`. If the worker had sent its end before the acknowledgement was written, the
  job is first failed and then done: `EndIsFinal`.
- *A sync hop that takes more than 30 s.* The handler gives up on it
  (`sdk/brokerclient/brokerclient.go:272`) and nobody tells the other end:
  `HopInsideFootprint` with `SyncHop = {n1}`, `ReplyTimeout = TRUE`.
- *A trimmed acknowledgement.* An accepted job is to run until it is reported done
  (`Store.Job`). Its only exchange is answered by the acknowledgement and may be evicted;
  the job is then unknown, its footprint free, and its reports refused:
  `RunsUntilReported`. That the newest `maxRecords` survive (`internal/messages/store.go`)
  is not so either when many of them are open: answered ones go first, however new.

**Processes and wires**

- *A restart of a dead process.* The flag marks the *next* exit as a restart
  (`internal/supervisor/supervisor.go:133`). `Restart` may meet a process that is already
  dead; its flag outlives the relaunch and excuses a real crash: `RestartExcusesItsOwn`.
- *Two Stops at once.* Both may find `stopCh` open (`supervisor.go:200`): `StopsOnce` with
  two `Stoppers` and `Concurrent = TRUE`. The lifecycle takes the supervisor out of its
  record first, so one caller gets there today.
- *A request before the dispatcher.* The handshake is said to wait for it
  (`internal/startup/handshake.go:17`); a request read before `SetRequestHandler` is
  refused: `NeverRefused`.
- *A module that stops reading.* The timer of a call starts after its write
  (`internal/wire/call.go:37`, against `call.go:13`). When the reader of one end is not
  fair, a call with a deadline need not return.

**Lifecycle**

- *Failed activations.* When the handshake or the self test fails the record becomes
  unavailable and the process is left as it is, on nobody's record
  (`internal/startup/activate.go:89`): the last disjunct of `Owned`. The handler answers
  "activated" all the same.
- *Flag before setup.* Core may die after the flag is written and before `pre-activate` has
  run; boot takes the module for one that was set up: `SetupRan`.
- *An impatient operator.* With `Patient = FALSE` an activation may meet a health
  escalation that tears down the instance it has just stored.

**Requirements**

- *Rival providers.* With two providers of one capability the footprint may name one and
  the route take the other: `HopCovered`. `CascadeComplete` fails behind a provider that is
  already active: what that one requires is not looked at.
- *The pre-pass.* It makes ready what Scan refused for its platform or its name
  (`HealedForCause`), and takes a capability for present that only an unavailable module
  declares (`PendingSurface`). What the config check refuses comes after the fixed point
  and does not cascade.

**The face**

- *A load whose accept is still on its way* when it is superseded is not forgotten, and its
  rows come after the newer ones (`internal/repl/orchestrator.go:400`): `ShowsNewest`.
- *A full stream* drops the report that would have stopped a spinner: `SpinnersStop` with
  `UpdatesBuffer = 1`.
- *A late focus answer* paints the focus page of another subject, whose actions are then
  those of the first: `OffersItsOwn`.
- *Keys pressed ahead* of a page change act on the page that is still on top; two pops for
  one page leave home: `IsAPath` with `Patient = FALSE`.

**nginx and certbot**

- The acknowledgement of `certbot.cert.provision` is taken for the certificate
  ("we know it's success if err == nil"): `Provisioned`.
- A suspended site with HTTPS is shown in conflict with the redirect of its own override:
  `Folded`.
- Two blocks of one primary name in the default site, as certbot leaves them
  (`Disks <- PairDisks`), are moved to one file and the first is lost: `StillLive`; their
  rows and pages disagree: `RowsTellTheTruth`.
- A reload that fails in step 1 of `nginx.provision` leaves file and link in place. A
  rollback deletes a site file that was there, disabled, before. `domain.add` overwrites
  one.
- Unsuspending by an alias removes a file of that name and not the override. An override
  written before there was a certificate leaves port 443 open. With both overrides
  maintenance answers, and the survey says suspended. A migration that fails half way
  leaves the block in both files; one out of a disabled default site enables it.

**fail2ban**

- A file of `jail.d` that sorts after the drop-in wins over it, against "suctl wins at
  runtime": `SwitchStands` with a non-empty `After`.
- `ignoreip.add` writes the list of the drop-in alone, which replaces an inherited one:
  `RestartChangesNothing` with a non-empty `DefaultIgnore`.
- Deleting a jail removes the filter its drop-in names, whosever it is. Rewriting a drop-in
  keeps the settings the module knows. A deactivation is answered "disabled" while a
  silent server goes on with the jail.

**Upgrade** (read, not modelled). The binary is swapped first and the modules' directories
are copied one by one with `O_TRUNC`; one that is interrupted, or meets a running
executable, is not finished by a second run, which finds "already on the latest version".
Files that a version no longer has stay.

## 6. Proofs

| module | theorems | rests on |
|---|---|---|
| `BrokerProofs`, the queue | `TypeCorrect`, `HeldThroughout`, `JobsSerialized`, `NoOvertaking`, `NoneStranded` | the invariant `IInv` below; `PassInv` and no strays for the last |
| `BrokerProofs`, the refinement | `BrokerImplementsAdmission`, `RunningExclusive`, `HopsInside`, `EndsAreTold` | `IInv`, and the assumption `Orderly`; the last two also on no crash (`Steady`) |
| `BrokerProofs`, the loop | `LoopFollowsPlan`, `LoopIsExclusive`, `LoopIsWorkConserving`, `LoopIsRight`, `LoopComputesPlan` | `LoopInv`, of the loop over queues of any length |
| `SupervisorProofs` | `TypeCorrect`, `NeverTwo`, `NoWireLeaks`, `BoundCorrect`, `OneProcessOneWire`, `StopIsForGood`, `AskedBeforeKilled`, `ClosedOnce`, `StopsOrderly`, `CrashesAccounted` | `TypeOK`, `PhaseInv`, `StopInv`, `WireInv`, `CountInv` |
| `WireProofs` | `TypeCorrect`, `AnswersMatch`, `ReaderIsFree`, `FailureReleases`, `TableIsClean`, `TableSound` | `Shape`, `Streams`, `RequestInv`, `UniqueInv`, `AnswerInv`, `TableInv` |
| `ExchangesProofs` | `LateAnswersLand`, `CallersAreToldTrue`, `EndedForGood`, `StoreIsBounded`, `OneBoundary` | `JobInv` of every job, `Trim`, `TrimBound` |
| `LifecycleProofs` | `NoProcessLost`, `ActiveServed`, `RestDown`, `ProvidersBeforeDependents` | `LInv` below, and an operator who is `Patient`; `OrderInv` and no cycle of requirements (`Acyclic`) for the last |
| `RequirementsProofs` | `TypeCorrect`, `CheckIsTheFixedPoint`, `WalkStaysInside`, `FootprintIsTheClosure`, `HopsAreCovered`, `ProvidersComeFirst`, `CascadeIsListed` | `BuildInv`; `StackInv`, `ListInv`, `ForInv`; `CoverInv`, `BeforeInv`, and no rival providers (`Unrivalled`) for the last four |
| `ReplProofs`, the pages | `StackIsAPath`, `ResultsLand` | `StackInv`, `MoveInv`, and an operator who is `Patient` |
| `ReplProofs`, the correlation | `SupersededStaysAway`, `WaitsAreEnded`, `DeepBuffersSuffice` | `TokenInv`; for the second `EndInv`, and room in both buffers (`Roomy`); for the third `CountInv`, and the depth that gives it (`Deep`) |
| `ModulesProofs`, nginx | `SuccessIsServed`, `OperatorsSitesStay`, `OverriddenIsDark`, `SurveyIsTrue` | `SitesInv`, `RestInv`, `AddedInv`, and `ManyHomes` for all but the first; `NamesInv` and `ManyNames` for the third; `PortInv` and `ManyPorts` for the fourth |
| `ModulesProofs`, fail2ban | `FiltersAreThere`, `SwitchesStand`, `RestartsChangeNothing` | `Base`, `AskInv`, `StepInv`; the last two also on `PlainFiles` |

They hold for any modules, manifests, footprints, jobs, hops, jails, domains, sites, rows, number of
crashes, launches, upgrades, calls, edits and messages in flight, and buffer sizes, under
the named assumptions of each module (`FootprintAssumption` of `Gate`; `CallAssumption`,
`RouteAssumption`, `BoundAssumption`; `LoopAssumption`; `SupervisorAssumption`;
`WireAssumption`; `ExchangesAssumption`; `LifecycleAssumption`; `RequirementsAssumption`;
`PagesAssumption`; `CorrelationAssumption`; `NginxAssumption`, `DiskAssumption`;
`Fail2banAssumption`), which TLC evaluates in the runs.

*Broker.* `Serialized` is far from inductive. `CallInv` relates a call's counter to its
record and its stamp (a job past the queue has been started and not yet answered);
`WorkerInv` says in which states of the call its worker can be at work, so that a job
whose acknowledgement is still to be recorded is not taken for an ended one; `ReportInv`
and `FoldInv` say that a token carries a terminal state only when its own worker is gone
and has reported; `TimeInv` orders the opening times; `LockInv` says who holds `admitMu`;
`SnapshotInv` relates what a pass has read as queued to what the store says now, which is
what `NotOvertaken` needs. `LiveDisjoint` is the heart: two running jobs that leave no
work behind have disjoint footprints. A pass preserves it because it plans against the
running set it reads after the queue, and under the lock that set can only shrink.
`HeldThroughout` (a job whose handler is at work is derived as running) is stated here and
in no run. `NoneStranded` assumes `Stray = {}` (section 5) and nothing else: crashes, async
hops and replies given up on included. A pass may have read the queue before a job came
and plan for one that has ended since; `PassInv` says that both of them still have a pass of
their own to make, so that whoever is left when no pass is on its way is blocked by a job
that runs.

*The plan.* The broker's model stamps any set that is `IsPlan`: a waiting call is in it if
and only if the gate admits it beside what runs and what the set has that is older.
`LoopComputesPlan` is the bridge to the loop: over a queue that
lists what a pass has read (`Listing`), beside what it has read as running, the positions
the loop has promoted when it ends are that set.

*Refinement.* Every step of `Broker` is a step of `Admission` or a stutter, for any jobs,
fresh tokens and crashes, provided modules are `Orderly`: no async hop under a job's token
and no reply given up on. Without that, a job can end twice (section 5) and the mapping
fails. `EndsAreTold` needs in addition that no process dies, and that a job that has a
worker is answered by an acknowledgement alone (`SteadyInv`); `ToldInv` follows a report
from the store to the face. `HopsInside` rests on the handler that waits for its hop, so it
needs the same.

*Supervisor.* `StopIsForGood` needs to know where the monitor can stand once a `Stop` has
returned: not in a relaunch, and if it still waits for the exit of the killed process then
`stopping` makes it leave when it sees that (`StopInv`). `PhaseInv` ties what the
supervisor holds to the last launch, step by step, and `WireInv` does so for the ends of
the wire. `AskedBeforeKilled` holds because `Recheck` repeats the request to a
child launched while `Stop` was signalling its predecessor. `CrashesAccounted` assumes
`Restarts = FALSE`; with restarts section 5 refutes it.

*Wire.* `RequestInv` and `UniqueInv` say that a request is on its stream at most once,
between the write and the read; `AnswerInv` that a positive answer, on its way, in a
channel or taken, was given by a handler; `TableInv` that who is in the table waits with
an empty channel, that who waits is in the table or has something to take, and that the
table of a failed end is empty. The last theorems follow from `TableInv` alone.

*Exchanges.* `JobInv` follows a job through its life: while its caller waits its first
exchange is open and all it has are invokes; once it was accepted all but a call under way
are answered; when it has ended, what is left of it is answered invokes, or it is all
answered and its newest exchange is a verdict. `Trim` is why a trim keeps this: it evicts
nothing that is open, and no answered exchange before an older one, so that a verdict
outlives all it is a verdict on (`EndedForGood`) and a stamp a job that waits
(`CallersAreToldTrue`). `TrimBound` looks at the oldest answered exchange a trim leaves:
all answered ones before it were evicted, and they were as many as were too many.

*Lifecycle.* Every step of an activation, of a teardown, of a health escalation and of the
shutdown moves a supervisor, a monitor or a wire between a record and a goroutine's hands.
`PcInv`, `CoreInv` and `OpInv` say which goroutines can be where together, `HandInv` what
each of them holds, `TearInv` what a teardown has already taken off the record it works on.
`SupInv` then accounts for
every supervisor and `UpInv` for every process, which is `Owned`. `ActiveIsServed` needs in
addition that nobody tears down a module that is active (`ServeInv`), and this that the
modules an activation has still to bring up are at rest and that no escalation has begun on
one of them (`TodoInv`), which is what `Patient` is for: without it section 5 applies.
`ProvidersFirst` needs to know, of the list a handler works through, that each provider of
a module is before it or settled, that is up, failed, or on its way to either (`OrderInv`).
When the list is made that is the order of the cascade, and it stays so when the modules that
are not ready are dropped from it.

*Requirements.* A pass of the capability check asks a snapshot of the ready surface. `BuildInv`
says that this snapshot was never smaller than what is ready now, so that nothing is lost
that provides for itself, and that after a pass without a change it is exactly what is
ready, so that the rest is provided for (`CheckIsTheFixedPoint`, whatever the order of the
records). Of the walks, `StackInv` says that the frames are a path from the target and that
what was met lies in every closed set the target lies in; `CoverInv` that a capability of a
module that was met is still ahead in its frame, or its provider was met. At the end no frame
is left, so what was met is itself closed: it is the closure (`FootprintIsTheClosure`), with
cycles or without. `ProvidersComeFirst` and `CascadeIsListed` add when a module was listed
(`ListInv`), for whom (`ForInv`) and after whom (`BeforeInv`). With two providers of a
capability the walk and the route may choose different ones (section 5), so these assume
that there are none; that a walk stays inside what its target reaches does not.

*Pages.* `IsAPath` and `ResultLands` depend on what is in flight. `MoveInv` says that of all
of it at most one message moves the pages, or will: a push, a pop, a replace, or the answer
RUNNING waits for; and that it suits the page that is on top (`Fits`): a page of an action
is pushed on the page it was begun on, an answer comes back to the RUNNING page that made
the call, and nothing pops home. Load answers and job updates go on beside it. A page that
is entered starts at most one such message, and keys wait for it (`Patient`), so none of the
handlers finds a page it was not meant for. `PathInv` is `IsAPath` position by position.

*Correlation.* A load that was waited for has had its accept folded, and an accept is folded
once; what `forget` dropped is therefore in neither token table and never comes back
(`TokenInv`), so that its end finds nobody: `SupersededStaysAway`, with any buffers.
`WaitsForAnEnd` is another matter. `Deliver` drops what finds the stream full, the end of a
job included, and `park` evicts the oldest token: section 5 shows the spinner that then
turns for ever. `Roomy` says of a state that the stream has a place for the report a job
that runs may send, and the parking area one for the update that is next. `EndInv` follows
the end of every accepted call, from the job to the stream and on to the parking area or the
handler: while `Roomy` holds, it is in one of these places until its accept is folded,
and a token is waited for only if its end lies still before it. A session is not
bounded by this theorem, only what is under way at one time. `DeepBuffersSuffice` shows that
the premise can be met: `OneEach` says that a token has at most one running report and one
end in the stream, `InOrder` that it has one place in the parking order, and so two places
a call in the stream and one in the parking area are enough (`Deep`), as in the run. The one
running report is a bound of the model (`Progress`): a job that reports faster than the loop
reads needs a deeper stream, and for it there is only `WaitsAreEnded`, which does not use the
bound.

*Nginx.* `SuccessIsServed` needs no invariant beyond itself: whatever is said to have
succeeded is the last thing done to the disk, and it was tested and loaded. The others rest
on what a tree is made of, of files in any number and of any length: the overrides of
`conf.d`, then the sites that are linked (`TreeIs`). It comes from `FlattenIs`, what the
flattening of a sequence of sequences has in it, proved by the least length for which it
fails. `SitesInv` says that every linked site has a block that names the file it is in, and
that the default site has one block of a name (`OneHome`): so a migration has one block for
each file it writes, and none is lost, wherever it fails (`MoveKeeps`). `AddedInv` says that
the file a provision may roll back holds what suctl has added and nothing of the operator's:
`domain.add` refused if any block of the tree named the domain, and every linked file would
have shown one (`NotConfigured`). For `OverriddenIsDark`, `NamesInv` says that an override
has the names of a site that stays, and a block on port 80 under them; it is in `conf.d`,
so it comes first, and sites share all their names or none (`TreeIsDark`). It is an
invariant of what nginx has loaded as well, since that is a tree of an earlier moment
(`RunsTree`). For `SurveyIsTrue`, `PortInv` says that sites have the port 80: two blocks of one name
then collide (`NamesCollide`), a row in conflict offers nothing, and any other is the one
its name is looked up as (`ReadFirst`).

These three speak of the disk suctl finds. `ManyHomes` is `OneHome` of it, `ManyNames` that
the default site is linked and sites that share a name share all (`NamesAgree`), `ManyPorts` that they have
port 80 (`OnEighty`). The disks of the run are such (`PlainDisksAreOrdinary`, which TLC
evaluates). That of section 5 with a pair of blocks, one on 443 alone, is not, and there
`StillLive` and `RowsTellTheTruth` fail.

*Fail2ban.* `Base` has the types, and that a drop-in names the filter of its own jail or
none: a creation has made the filter before it names it, a deletion has taken the drop-in
away before the filter (`FiltersAreThere`, whatever the operator's files say). The other two
theorems assume `PlainFiles`: no file sorts after the drop-ins, and those before name no
filter and no addresses to ignore. Section 5 has what happens otherwise. Then a drop-in has
the last word (`LastWord`). `AskInv` says that what the last switch asked for is what the
drop-in says; tuning keeps it because it writes the switch as it found it (`TuneFiles`).
`StepInv` says of every jail no fault excuses that the server has what the files say, and
of the jail a call is tuning, if it was in step before, that it is exactly the call's change
behind; the server half of the call then closes the gap (`TuneBehind`, `CaughtUp`).

## 7. What is only model-checked

All liveness (`EventuallyEnds`, `EveryCallAnswered`, `StopStops`, `EveryCallReturns`,
`WalksEnd`, `SpinnersStop`, `EveryPageResolves`), as neither fairness nor ENABLED is within
the prover's reach. Every invariant and every action property that a run checks is the
subject of a theorem.
The behaviours of section 5 need the assumptions of the theorems dropped (`Patient`,
`Unrivalled`, `Orderly`, `PlainFiles`, `Roomy`, `ManyHomes`, `ManyPorts`), and were found by TLC.

## 8. What is not modelled

- *os*: a registration file per service, written or removed in one step; systemd has the
  rest. *odoo*: commands over PostgreSQL and Odoo's own services.
- *Installer and upgrade*: one process that runs once. What an upgrade leaves for a running
  core is `Install` of `Lifecycle`; what an interrupted one leaves is in section 5.
- *Probe door, conformance, self test*: stateless checks; that an activation runs them and
  what follows when they fail is part of `Lifecycle`.
- *Python SDK*: its reports are in `Broker`; it has no calls to wait for, so its wire is
  the reader and the writers of `Wire` without the table.
- *Configuration, manifests, protocol types*: parsing and validation. Their shapes and
  values appear as records and CONSTANTS.
- *Rendering, sorting, scrolling, key help, themes, logging, platform calls, command line,
  scripts*: they keep no state that several actors share.
