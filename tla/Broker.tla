------------------------------- MODULE Broker -------------------------------
(***************************************************************************)
(* The routing core of suctl (internal/broker): the goroutine that serves  *)
(* one invoke, the queue manager that admits jobs by footprint, the        *)
(* job_update reports that modules send back, and the modules as far as    *)
(* their SDK (sdk/modserver) decides what they send.                       *)
(*                                                                         *)
(* A job is known by its job_token.  The messages store keeps one record   *)
(* per exchange; of those only three facts about a token decide its state, *)
(* and they are the variables exchange, folded and started.                *)
(***************************************************************************)
EXTENDS Naturals, Gate

CONSTANTS
    Job,            \* invokes that originate at the face, one token each
    Stray,          \* hops sent by a module under a token no face invoke opened
    Target,         \* the module that provides the invoked capability
    Async,          \* calls whose capability is declared async
    SyncHop,        \* jobs whose handler calls a sync capability elsewhere
    AsyncHop,       \* jobs whose handler calls an async capability elsewhere
    HopTarget,      \* the module such a hop is routed to
    MaxCrash,       \* bound: how many times a module process dies
    ReplyTimeout    \* may a module not wait for a reply, or stop waiting?

Call == Job \cup Stray
Worker == Call \X {"own", "hop"}
Report == Worker \X {"running", "final"}

\* A call has at most two background workers: one for its own capability, one
\* for a hop.  Each sends at most two reports.
Own(c) == <<c, "own">>
Side(c) == <<c, "hop">>
First(w) == <<w, "running">>
Final(w) == <<w, "final">>
Owner(w) == w[1]
Sender(r) == r[1]

ASSUME CallAssumption ==
    /\ Job \cap Stray = {}
    /\ Call \cap Report = {}
    /\ Async \subseteq Call
    /\ SyncHop \subseteq Job /\ AsyncHop \subseteq Job
    /\ SyncHop \cap AsyncHop = {}

ASSUME RouteAssumption ==
    /\ Target \in [Call -> Module]
    /\ HopTarget \in [Call -> Module]
    /\ \A m \in Module : m \in Footprint[m]
    /\ \A c \in Call : HopTarget[c] \in Footprint[Target[c]]

ASSUME BoundAssumption == MaxCrash \in Nat /\ ReplyTimeout \in BOOLEAN

VARIABLES
    pc,         \* where the goroutine serving a call is
    resp,       \* the response it is about to record
    exchange,   \* the response side of the call's own record
    folded,     \* the last state a job_update on this token carried
    queuedAt,   \* when the record was opened
    clock,      \* the next opening time
    started,    \* tokens with a Started stamp
    admitMu,    \* who is inside advance(): at most one call or report
    queued,     \* what that advance() read from the store as queued
    parked,     \* callers asleep in cond.Wait
    timers,     \* callers whose deadline timer has not broadcast yet
    expired,    \* callers whose admission deadline has passed
    worker,     \* module goroutines running a handler in the background
    outcome,    \* how such a handler ended
    serving,    \* the broker goroutines serving a job_update
    surface,    \* the last job_update state handed to the surface sink
    crashes     \* how many module processes have died

store == <<exchange, folded, queuedAt, clock, started>>
queue == <<admitMu, queued, parked, timers, expired>>
modules == <<worker, outcome, serving, surface, crashes>>
vars == <<pc, resp, store, queue, modules>>

-----------------------------------------------------------------------------
(* What the store derives about a token; none of it is stored.             *)

Terminal == {"done", "failed"}

\* A terminal report, or a final response on the call's own record, ends a job;
\* the ack of an accepted async call is not final.
Recorded(c) == exchange[c] # "none"
Ended(c) == folded[c] \in Terminal \/ exchange[c] \in {"ok", "error"}
Result(c) ==
    IF folded[c] \in Terminal THEN folded[c]
                              ELSE IF exchange[c] = "error" THEN "failed" ELSE "done"

\* Anything else is running once it has its Started stamp, and queued before.
Queued == {c \in Call : Recorded(c) /\ ~Ended(c) /\ c \notin started}
Running == {c \in Call : Recorded(c) /\ ~Ended(c) /\ c \in started}
EndedCalls == {c \in Call : Ended(c)}

Hold(c) == Footprint[Target[c]]
Busy(C) == UNION {Hold(c) : c \in C}
NewestFirst(P, c) == {p \in P : queuedAt[p] > queuedAt[c]}  \* mutant
Before(P, c) == {p \in P : queuedAt[p] < queuedAt[c]}

PlanUnfolded(P, Q, R) == P = {c \in Q : Admissible(Hold(c), Busy(R))}  \* mutant
PlanBlind(P, Q, R) == P = {c \in Q : Admissible(Hold(c), Busy(Before(P, c)))}  \* mutant

\* The tokens one advance() may start: scanned in opening order, a queued call
\* is taken when its footprint is free of the running calls and of those taken
\* before it.
IsPlan(P, Q, R) ==
    P = {c \in Q : Admissible(Hold(c), Busy(R) \cup Busy(Before(P, c)))}

-----------------------------------------------------------------------------
Init ==
    /\ pc = [c \in Call |-> "idle"]
    /\ resp = [c \in Call |-> "none"]
    /\ exchange = [c \in Call |-> "none"]
    /\ folded = [c \in Call |-> "none"]
    /\ queuedAt = [c \in Call |-> 0]
    /\ clock = 1
    /\ started = {}
    /\ admitMu = {} /\ queued = {}
    /\ parked = {} /\ timers = {} /\ expired = {}
    /\ worker = [w \in Worker |-> "none"]
    /\ outcome = [w \in Worker |-> "none"]
    /\ serving = [r \in Report |-> "none"]
    /\ surface = [c \in Call |-> "none"]
    /\ crashes = 0

(* --- handleInvoke ------------------------------------------------------ *)

\* The capability is not active, not declared by the caller, or the token is
\* missing: answered before anything is recorded.
Reject(c) ==
    /\ pc[c] = "idle"
    /\ pc' = [pc EXCEPT ![c] = "returned"]
    /\ UNCHANGED <<resp, store, queue, modules>>

\* The exchange is recorded; a hop skips the queue and is routed at once.
Open(c) ==
    /\ pc[c] = "idle"
    /\ exchange' = [exchange EXCEPT ![c] = "open"]
    /\ queuedAt' = [queuedAt EXCEPT ![c] = clock]
    /\ clock' = clock + 1
    /\ pc' = [pc EXCEPT ![c] = IF c \in Job THEN "enqueue" ELSE "route"]
    /\ UNCHANGED <<resp, folded, started, queue, modules>>

\* waitStarted: arm the deadline timer, then look at the Started stamp.
BeginWait(c) ==
    /\ pc[c] = "wait" /\ admitMu = {}
    /\ IF c \in started
       THEN /\ pc' = [pc EXCEPT ![c] = "route"]
            /\ UNCHANGED <<timers, parked>>
       ELSE /\ pc' = [pc EXCEPT ![c] = "waiting"]
            /\ timers' = timers \cup {c}
            /\ parked' = parked \cup {c}
    /\ UNCHANGED <<resp, store, admitMu, queued, expired, modules>>

\* Woken by a broadcast: started wins over an expired deadline, and a waiter
\* with neither goes back to sleep.
Woken(c) == pc[c] = "waiting" /\ c \notin parked /\ admitMu = {}

WakeStarted(c) ==
    /\ Woken(c) /\ c \in started
    /\ pc' = [pc EXCEPT ![c] = "route"]
    /\ timers' = timers \ {c}
    /\ UNCHANGED <<resp, store, admitMu, queued, parked, expired, modules>>

WakeTimedOut(c) ==
    /\ Woken(c) /\ c \notin started /\ c \in expired
    /\ pc' = [pc EXCEPT ![c] = "respond"]
    /\ resp' = [resp EXCEPT ![c] = "error"]
    /\ timers' = timers \ {c}
    /\ UNCHANGED <<store, admitMu, queued, parked, expired, modules>>

WakeAgain(c) ==
    /\ Woken(c) /\ c \notin started /\ c \notin expired
    /\ parked' = parked \cup {c}
    /\ UNCHANGED <<pc, resp, store, admitMu, queued, timers, expired, modules>>

\* The admission deadline of a waiting caller passes ...
Expire(c) ==
    /\ pc[c] = "waiting" /\ c \notin expired
    /\ expired' = expired \cup {c}
    /\ UNCHANGED <<pc, resp, store, admitMu, queued, parked, timers, modules>>

\* mutant: the timer is armed for an earlier moment than the deadline.
TimerEarly(c) ==
    /\ c \in timers /\ admitMu = {}
    /\ parked' = {}
    /\ timers' = timers \ {c}
    /\ UNCHANGED <<pc, resp, store, admitMu, queued, expired, modules>>

\* ... and only then does its timer broadcast, once, under the admission lock.
TimerFires(c) ==
    /\ c \in timers /\ c \in expired /\ admitMu = {}
    /\ parked' = {}
    /\ timers' = timers \ {c}
    /\ UNCHANGED <<pc, resp, store, admitMu, queued, expired, modules>>

\* The request reaches the target's handler, in process or over its wire ...
Dispatch(c) ==
    /\ pc[c] = "route"
    /\ pc' = [pc EXCEPT ![c] = "called"]
    /\ UNCHANGED <<resp, store, queue, modules>>

\* ... or the wire resolved before the wait is gone by now.
RouteFails(c) ==
    /\ pc[c] = "route"
    /\ pc' = [pc EXCEPT ![c] = "respond"]
    /\ resp' = [resp EXCEPT ![c] = "error"]
    /\ UNCHANGED <<store, queue, modules>>

\* Is a sync hop of this job's handler still at work?  The handler waits for it,
\* at most as long as its wire lets a caller wait.
HopAwaited(c) == c \in SyncHop /\ worker[Side(c)] = "working"

\* The handler answers without taking background work.  An originating call of
\* an async capability is thereby declined, which is recorded as an error.
Reply(c, answer) ==
    /\ pc[c] = "called" /\ worker[Own(c)] = "none"
    /\ HopAwaited(c) => ReplyTimeout
    /\ resp' = [resp EXCEPT ![c] = IF c \in Job \cap Async THEN "error" ELSE answer]
    /\ pc' = [pc EXCEPT ![c] = "respond"]
    /\ UNCHANGED <<store, queue, modules>>

\* The acceptance ack of an async capability, whose worker may be anywhere by now.
Acknowledge(c) ==
    /\ pc[c] = "called" /\ worker[Own(c)] # "none"
    /\ resp' = [resp EXCEPT ![c] = "accepted"]
    /\ pc' = [pc EXCEPT ![c] = "respond"]
    /\ UNCHANGED <<store, queue, modules>>

\* mutant: no deferred advance().
CompleteQuietly(c) ==
    /\ pc[c] = "respond"
    /\ exchange' = [exchange EXCEPT ![c] = resp[c]]
    /\ pc' = [pc EXCEPT ![c] = "returned"]
    /\ UNCHANGED <<resp, folded, queuedAt, clock, started, queue, modules>>

\* The deferred Complete; only an originating call then runs advance().
Complete(c) ==
    /\ pc[c] = "respond"
    /\ exchange' = [exchange EXCEPT ![c] = resp[c]]
    /\ pc' = [pc EXCEPT ![c] = IF c \in Job THEN "release" ELSE "returned"]
    /\ UNCHANGED <<resp, folded, queuedAt, clock, started, queue, modules>>

(* --- advance ------------------------------------------------------------ *)

\* Take the admission lock and read the queue; the store can change before the
\* running calls are read, because it has a lock of its own.
Lock(p) ==
    /\ admitMu = {}
    /\ admitMu' = {p}
    /\ queued' = Queued

\* Read the running calls, stamp the plan, wake every parked caller, unlock.
Promote(p) ==
    /\ admitMu = {p}
    /\ admitMu' = {}
    /\ \E P \in SUBSET queued :
          /\ IsPlan(P, queued, Running)
          /\ started' = started \cup P
    /\ queued' = {}
    /\ parked' = {}

AdvanceCall(c) ==
    /\ pc[c] \in {"enqueue", "release"}
    /\ Lock(c)
    /\ UNCHANGED <<pc, resp, store, parked, timers, expired, modules>>

PromoteCall(c) ==
    /\ Promote(c)
    /\ pc' = [pc EXCEPT ![c] = IF pc[c] = "enqueue" THEN "wait" ELSE "returned"]
    /\ UNCHANGED <<resp, exchange, folded, queuedAt, clock, timers, expired, modules>>

(* --- handleJobUpdate ----------------------------------------------------- *)

\* The report is recorded and so folded into the job ...
Record(r) ==
    LET w == Sender(r) IN
    /\ serving[r] = "inflight"
    /\ Recorded(Owner(w))
    /\ folded' = [folded EXCEPT ![Owner(w)] =
                     IF r = First(w) THEN "running" ELSE outcome[w]]
    /\ serving' = [serving EXCEPT ![r] = "recorded"]
    /\ UNCHANGED <<pc, resp, exchange, queuedAt, clock, started, queue,
                   worker, outcome, surface, crashes>>

\* mutant: a terminal report frees nothing.
DeliverOnly(r) ==
    /\ serving[r] = "recorded"
    /\ surface' = [surface EXCEPT ![Owner(Sender(r))] = folded[Owner(Sender(r))]]
    /\ serving' = [serving EXCEPT ![r] = "answered"]
    /\ UNCHANGED <<pc, resp, store, queue, worker, outcome, crashes>>

\* ... then routed to the surface, if the face originated the job; a terminal
\* report goes on to run advance().
Deliver(r) ==
    LET w == Sender(r) IN
    /\ serving[r] = "recorded"
    /\ surface' = IF Owner(w) \in Job
                  THEN [surface EXCEPT ![Owner(w)] =
                           IF r = First(w) THEN "running" ELSE outcome[w]]
                  ELSE surface
    /\ serving' = [serving EXCEPT ![r] =
                      IF r = Final(w) THEN "advance" ELSE "answered"]
    /\ UNCHANGED <<pc, resp, store, queue, worker, outcome, crashes>>

AdvanceReport(r) ==
    /\ serving[r] = "advance"
    /\ Lock(r)
    /\ UNCHANGED <<pc, resp, store, parked, timers, expired, modules>>

PromoteReport(r) ==
    /\ Promote(r)
    /\ serving' = [serving EXCEPT ![r] = "answered"]
    /\ UNCHANGED <<pc, resp, exchange, folded, queuedAt, clock, timers, expired,
                   worker, outcome, surface, crashes>>

(* --- the modules (sdk/modserver) ------------------------------------------ *)

Site(w) == IF w = Own(Owner(w)) THEN Target[Owner(w)] ELSE HopTarget[Owner(w)]

\* Is the handler that the call was routed to at work?
Executing(c) ==
    IF c \in Async
    THEN worker[Own(c)] \in {"spawned", "announcing", "working"}
    ELSE pc[c] = "called"

\* An async capability spawns its worker before the ack is on the wire.
Accept(c) ==
    /\ pc[c] = "called" /\ c \in Async /\ worker[Own(c)] = "none"
    /\ worker' = [worker EXCEPT ![Own(c)] = "spawned"]
    /\ UNCHANGED <<pc, resp, store, queue, outcome, serving, surface, crashes>>

\* A handler calls a capability of another module under its own job's token.  A
\* sync one runs while the handler waits; an async one is acknowledged at once
\* and works on by itself, reporting on that same token.
Hop(c) ==
    /\ c \in SyncHop \cup AsyncHop
    /\ worker[Side(c)] = "none"
    /\ IF c \in Async THEN worker[Own(c)] = "working" ELSE pc[c] = "called"
    /\ worker' = [worker EXCEPT ![Side(c)] =
                     IF c \in SyncHop THEN "working" ELSE "spawned"]
    /\ UNCHANGED <<pc, resp, store, queue, outcome, serving, surface, crashes>>

HopReturns(c) ==
    /\ c \in SyncHop /\ worker[Side(c)] = "working"
    /\ worker' = [worker EXCEPT ![Side(c)] = "gone"]
    /\ UNCHANGED <<pc, resp, store, queue, outcome, serving, surface, crashes>>

\* runAsync: a leading running report ...
Announce(w) ==
    /\ worker[w] = "spawned"
    /\ worker' = [worker EXCEPT ![w] = "announcing"]
    /\ serving' = [serving EXCEPT ![First(w)] = "inflight"]
    /\ UNCHANGED <<pc, resp, store, queue, outcome, surface, crashes>>

\* mutant: the running report is sent without waiting for its reply.
WorkAtOnce(w) ==
    /\ worker[w] = "announcing"
    /\ worker' = [worker EXCEPT ![w] = "working"]
    /\ UNCHANGED <<pc, resp, store, queue, outcome, serving, surface, crashes>>

\* ... the handler once that report is answered, or given up on ...
Work(w) ==
    /\ worker[w] = "announcing"
    /\ serving[First(w)] = "answered" \/ ReplyTimeout
    /\ worker' = [worker EXCEPT ![w] = "working"]
    /\ UNCHANGED <<pc, resp, store, queue, outcome, serving, surface, crashes>>

\* mutant: the handler leaves its hop behind.
FinishEarly(w, result) ==
    /\ worker[w] = "working" /\ (w = Own(Owner(w)) \/ Owner(w) \in AsyncHop)
    /\ worker' = [worker EXCEPT ![w] = "gone"]
    /\ outcome' = [outcome EXCEPT ![w] = result]
    /\ serving' = [serving EXCEPT ![Final(w)] = "inflight"]
    /\ UNCHANGED <<pc, resp, store, queue, surface, crashes>>

\* ... and one terminal report.
Finish(w, result) ==
    /\ worker[w] = "working"
    /\ IF w = Own(Owner(w)) THEN HopAwaited(Owner(w)) => ReplyTimeout
                            ELSE Owner(w) \in AsyncHop
    /\ worker' = [worker EXCEPT ![w] = "gone"]
    /\ outcome' = [outcome EXCEPT ![w] = result]
    /\ serving' = [serving EXCEPT ![Final(w)] = "inflight"]
    /\ UNCHANGED <<pc, resp, store, queue, surface, crashes>>

\* A module process dies: its workers are gone and the calls in its hands fail,
\* except those whose ack it had already written.  What it has sent is served.
Die(m) ==
    LET inside == {c \in Call : pc[c] = "called" /\ Target[c] = m}
        accepted == {c \in inside : worker[Own(c)] # "none"} IN
    /\ crashes < MaxCrash
    /\ crashes' = crashes + 1
    /\ \E acked \in SUBSET accepted :
          /\ pc' = [c \in Call |-> IF c \in inside \ acked THEN "respond" ELSE pc[c]]
          /\ resp' = [c \in Call |-> IF c \in inside \ acked THEN "error" ELSE resp[c]]
    /\ worker' = [w \in Worker |->
                     IF Site(w) = m /\ worker[w] # "none" THEN "gone" ELSE worker[w]]
    /\ UNCHANGED <<store, queue, outcome, serving, surface>>

\* Every caller has been answered and no module has work left.
Quiet ==
    /\ \A c \in Call : pc[c] = "returned"
    /\ \A w \in Worker : worker[w] \in {"none", "gone"}
    /\ \A r \in Report : serving[r] \in {"none", "answered"}
    /\ UNCHANGED vars

-----------------------------------------------------------------------------
Serve(c) ==
    \/ BeginWait(c) \/ WakeStarted(c) \/ WakeTimedOut(c) \/ WakeAgain(c)
    \/ TimerFires(c)
    \/ Dispatch(c) \/ RouteFails(c) \/ Acknowledge(c) \/ Complete(c)
    \/ AdvanceCall(c) \/ PromoteCall(c)

ServeReport(r) == Record(r) \/ Deliver(r) \/ AdvanceReport(r) \/ PromoteReport(r)

Answer(c) == (\E answer \in {"ok", "error"} : Reply(c, answer)) \/ Accept(c) \/ HopReturns(c)

RunAsync(w) == Announce(w) \/ Work(w) \/ (\E result \in Terminal : Finish(w, result))

Next ==
    \/ \E c \in Call : Reject(c) \/ Open(c) \/ Serve(c) \/ Expire(c) \/ Answer(c) \/ Hop(c)
    \/ \E r \in Report : ServeReport(r)
    \/ \E w \in Worker : RunAsync(w)
    \/ \E m \in Module : Die(m)
    \/ Quiet

Spec == Init /\ [][Next]_vars

\* The broker's own goroutines are scheduled, and the SDK's workers go on until
\* their handler returns.
Fairness ==
    /\ \A c \in Call : WF_vars(Serve(c)) /\ WF_vars(Answer(c))
    /\ \A r \in Report : WF_vars(ServeReport(r))
    /\ \A w \in Worker : WF_vars(RunAsync(w))

LiveSpec == Spec /\ Fairness

\* Time passes too: a deadline that nothing else forestalls is reached.
TimedSpec == LiveSpec /\ \A c \in Call : WF_vars(Expire(c))

-----------------------------------------------------------------------------
CallPC == {"idle", "enqueue", "wait", "waiting", "route", "called", "respond",
           "release", "returned"}
Reply3 == {"none", "ok", "accepted", "error"}

\* Every variable keeps to the values the code can give it, and only one
\* advance() runs at a time.
TypeOK ==
    /\ pc \in [Call -> CallPC]
    /\ resp \in [Call -> Reply3]
    /\ exchange \in [Call -> Reply3 \cup {"open"}]
    /\ folded \in [Call -> {"none", "running"} \cup Terminal]
    /\ queuedAt \in [Call -> Nat] /\ clock \in Nat
    /\ started \subseteq Call
    /\ admitMu \subseteq Call \cup Report /\ \A p, q \in admitMu : p = q
    /\ queued \subseteq Call
    /\ parked \subseteq Call /\ timers \subseteq Call /\ expired \subseteq Call
    /\ worker \in [Worker -> {"none", "spawned", "announcing", "working", "gone"}]
    /\ outcome \in [Worker -> {"none"} \cup Terminal]
    /\ serving \in [Report -> {"none", "inflight", "recorded", "advance", "answered"}]
    /\ surface \in [Call -> {"none", "running"} \cup Terminal]
    /\ crashes \in 0 .. MaxCrash

\* Jobs that leave no work of their own token running in another module.
Simple == Job \ AsyncHop

\* While a job's handler is at work, in the invoke itself or in the background
\* after its ack, the store derives the job as running: admission and the
\* deactivation gate (gate.Busy) both see its modules as taken.
HeldWhileExecuting ==
    \A c \in Simple : Executing(c) => c \in Running

\* Two jobs whose footprints share a module never have their handlers at work
\* together (queue.go: a job sharing a footprint waits its turn).
Serialized ==
    \A c, d \in Simple :
        c # d /\ Executing(c) /\ Executing(d) => Hold(c) \cap Hold(d) = {}

\* Work a job does in another module is done inside the footprint the job holds
\* (broker.go: a hop is already inside its originator's running footprint).
HopRunning(c) == worker[Side(c)] \in {"spawned", "announcing", "working"}
HopInsideFootprint ==
    \A c \in Job : HopRunning(c) => c \in Running

\* An advance() is running or certain to run.
AdvancePending ==
    \/ admitMu # {}
    \/ \E c \in Call : pc[c] \in {"enqueue", "release"}
    \/ \E w \in Worker : serving[Final(w)] \in {"recorded", "advance"}

\* No job is left in the queue while its footprint is free: every event that
\* frees a footprint or adds a job is followed by an advance() that sees it.
NoStrandedJob ==
    ~AdvancePending => \A c \in Queued \cap Job : ~Admissible(Hold(c), Busy(Running))

\* A job is never overtaken by a later one that needs all the modules it needs.
NotOvertaken ==
    \A c, d \in Job :
        /\ Recorded(c) /\ queuedAt[c] < queuedAt[d]
        /\ Hold(c) \subseteq Hold(d)
        /\ d \in started
        => c \in started \/ Ended(c)

\* A job that has ended stays ended, and ended the same way, whatever reports
\* and acks still arrive.
EndIsFinal ==
    [][\A c \in Job : Ended(c) => Ended(c)' /\ Result(c)' = Result(c)]_vars

\* Once its reports are served the face was last told what the store derives.
SurfaceAgrees ==
    \A c \in Job :
        (\A r \in Report : Owner(Sender(r)) = c => serving[r] \in {"none", "inflight", "answered"})
            => surface[c] = folded[c]

\* What a job came to is said once: the end the store derives is never taken back
\* or changed, and the face that waits for the job was told that end.
EndsAsTold == EndIsFinal /\ []SurfaceAgrees

\* The queue keeps the promise of Admission: exclusive footprints, one end each.
Abstract == INSTANCE Admission WITH
    Caller <- Call, Resource <- Module, Needs <- [c \in Call |-> Hold(c)],
    waiting <- Queued, holding <- Running, ended <- EndedCalls
Implements == Abstract!Spec

\* A recorded call is answered in the end, if need be by the admission timeout.
EveryCallAnswered == \A c \in Call : pc[c] = "enqueue" ~> pc[c] = "returned"

\* A recorded job ends, without needing its deadline to leave the queue.
EventuallyEnds == \A c \in Job : c \in Queued ~> c \in EndedCalls
=============================================================================
