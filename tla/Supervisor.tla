----------------------------- MODULE Supervisor -----------------------------
(***************************************************************************)
(* internal/supervisor: one module process, launched, waited for, restarted *)
(* after a crash and stopped on demand.  A launch is known by its number;   *)
(* 0 stands for none.  The monitor goroutine and every caller of Stop have  *)
(* a program counter: each step is one critical section of s.mu, one        *)
(* channel operation or one system call.                                    *)
(*                                                                         *)
(* Timing.  The restart window is WindowPasses, which ages out crashes from *)
(* the oldest on.  A Stop gives up on a graceful exit (TimesOut) only while *)
(* no relaunch is under way: a launch takes less than StopTimeout (30 s).   *)
(***************************************************************************)
EXTENDS Integers, FiniteSets

CONSTANTS Stoppers,       \* goroutines that call Stop
          Concurrent,     \* two of them may be inside Stop together
          Restarts,       \* health escalation calls Restart
          MaxRestarts,    \* Config.MaxRestarts
          Launches        \* bound: how many processes a behaviour may launch

ASSUME SupervisorAssumption == /\ Concurrent \in BOOLEAN /\ Restarts \in BOOLEAN
                               /\ MaxRestarts \in Nat \ {0}
                               /\ Launches \in Nat \ {0}

VARIABLES
  state,        \* s.state
  cmd,          \* s.cmd: the launch the supervisor holds
  intentional,  \* s.intentional: the launch Restart raised the flag for (the code keeps only whether it is raised)
  counted,      \* s.restarts: the launches whose crash is inside the window
  channel,      \* s.channel: the launch whose wire end the supervisor holds
  stopping,     \* s.stopCh is closed
  gone,         \* s.exitCh is closed
  mon,          \* where Start's caller, then the monitor goroutine, stands
  stop,         \* where each caller of Stop stands
  alive,        \* the processes that exist
  deaf,         \* those that do not react to the graceful stop request
  asked,        \* those that have received it
  open,         \* the launches whose core end of the wire is open
  bound,        \* the launch last handed to OnChannel
  spawned,      \* how many processes were started
  crashed,      \* launches that exited unasked, inside the window
  announced,    \* launches whose exit fired OnCrash
  panicked      \* a closed channel was closed again

sup  == <<state, cmd, intentional, counted, channel, stopping, gone>>
procs == <<alive, deaf, asked, open, bound, spawned>>
seen == <<crashed, announced, panicked>>
vars == <<sup, mon, stop, procs, seen>>

Launch == 1..Launches
Relaunching == {"Take", "Crash", "Spawn", "Publish", "Swap", "Bind", "Recheck"}
Signalled == asked \cup (alive \cap {cmd})         \* signalStop: a dead process hears nothing

Init == /\ state = "idle" /\ cmd = 0 /\ intentional = 0 /\ counted = {} /\ channel = 0
        /\ stopping = FALSE /\ gone = FALSE
        /\ mon = "Spawn" /\ stop = [c \in Stoppers |-> "Out"]
        /\ alive = {} /\ deaf = {} /\ asked = {} /\ open = {} /\ bound = 0 /\ spawned = 0
        /\ crashed = {} /\ announced = {} /\ panicked = FALSE

-----------------------------------------------------------------------------
(* launch: called by Start, then by the monitor. *)

Spawn == /\ mon = "Spawn" /\ spawned < Launches
         /\ spawned' = spawned + 1
         /\ alive' = alive \cup {spawned'} /\ open' = open \cup {spawned'}
         /\ deaf' \in {deaf, deaf \cup {spawned'}}
         /\ mon' = "Publish"
         /\ UNCHANGED <<sup, stop, asked, bound, seen>>

(* A first launch that fails leaves the supervisor idle; a relaunch fails it. *)
SpawnFails == /\ mon = "Spawn"
              /\ IF cmd = 0 THEN mon' = "End" /\ UNCHANGED state
                            ELSE mon' = "Leave" /\ state' = "failed"
              /\ UNCHANGED <<cmd, intentional, counted, channel, stopping, gone, stop, procs, seen>>

Publish == /\ mon = "Publish"
           /\ state' = "running" /\ cmd' = spawned /\ mon' = "Swap"
           /\ UNCHANGED <<intentional, counted, channel, stopping, gone, stop, procs, seen>>

SwapKeepingOld == /\ mon = "Swap"   \* mutant
                  /\ channel' = cmd /\ mon' = "Bind"
                  /\ UNCHANGED <<state, cmd, intentional, counted, stopping, gone, stop, procs, seen>>

Swap == /\ mon = "Swap"
        /\ open' = open \ {channel} /\ channel' = cmd /\ mon' = "Bind"
        /\ UNCHANGED <<state, cmd, intentional, counted, stopping, gone, stop,
                       alive, deaf, asked, bound, spawned, seen>>

Bind == /\ mon = "Bind"
        /\ bound' = channel
        /\ mon' = IF cmd = 1 THEN "Wait" ELSE "Recheck"
        /\ UNCHANGED <<sup, stop, alive, deaf, asked, open, spawned, seen>>

(* stopFreshChildIfStopping: a Stop that raced the relaunch asked the process before this one. *)
Recheck == /\ mon = "Recheck"
           /\ asked' = IF stopping THEN Signalled ELSE asked
           /\ mon' = "Wait"
           /\ UNCHANGED <<sup, stop, alive, deaf, open, bound, spawned, seen>>

-----------------------------------------------------------------------------
(* monitor *)

ExitedBlind == /\ mon = "Wait" /\ cmd \notin alive   \* mutant
               /\ IF stopping /\ intentional = 0
                    THEN state' = "stopped" /\ mon' = "Leave"
                    ELSE mon' = "Take" /\ UNCHANGED state
               /\ UNCHANGED <<cmd, intentional, counted, channel, stopping, gone, stop, procs, seen>>

Exited == /\ mon = "Wait" /\ cmd \notin alive
          /\ IF stopping THEN state' = "stopped" /\ mon' = "Leave"
                         ELSE mon' = "Take" /\ UNCHANGED state
          /\ UNCHANGED <<cmd, intentional, counted, channel, stopping, gone, stop, procs, seen>>

Take == /\ mon = "Take"
        /\ intentional' = 0
        /\ mon' = IF intentional # 0 THEN "Spawn" ELSE "Crash"
        /\ UNCHANGED <<state, cmd, counted, channel, stopping, gone, stop, procs, seen>>

(* OnCrash is fired and the crash counted; the guard trips above MaxRestarts. *)
Crash == /\ mon = "Crash"
         /\ announced' = announced \cup {cmd}
         /\ counted' = counted \cup {cmd}
         /\ IF Cardinality(counted') > MaxRestarts
              THEN state' = "failed" /\ mon' = "Leave"
              ELSE mon' = "Spawn" /\ UNCHANGED state
         /\ UNCHANGED <<cmd, intentional, channel, stopping, gone, stop, procs, crashed, panicked>>

Leave == /\ mon = "Leave"
         /\ gone' = TRUE /\ mon' = "End"
         /\ UNCHANGED <<state, cmd, intentional, counted, channel, stopping, stop, procs, seen>>

-----------------------------------------------------------------------------
(* Restart *)

Restart == /\ Restarts /\ state = "running"
           /\ cmd < Launches                         \* bound
           /\ intentional' = cmd /\ asked' = Signalled
           /\ UNCHANGED <<state, cmd, counted, channel, stopping, gone, mon, stop,
                          alive, deaf, open, bound, spawned, seen>>

(* Stop.  The lifecycle publishes a supervisor only after Start has returned. *)
Inside(c) == stop[c] \notin {"Out", "Done"}

Call(c) == /\ ~Inside(c) /\ (Concurrent \/ \A d \in Stoppers : ~Inside(d))
           /\ ~(mon # "End" /\ spawned <= 1 /\ bound = 0)
           /\ stop' = [stop EXCEPT ![c] = IF state = "idle" THEN "Done" ELSE "Look"]
           /\ UNCHANGED <<sup, mon, procs, seen>>

Look(c) == /\ stop[c] = "Look"
           /\ stop' = [stop EXCEPT ![c] = IF stopping THEN "Signal" ELSE "Close"]
           /\ UNCHANGED <<sup, mon, procs, seen>>

Close(c) == /\ stop[c] = "Close"
            /\ stopping' = TRUE /\ panicked' = (panicked \/ stopping)
            /\ stop' = [stop EXCEPT ![c] = "Signal"]
            /\ UNCHANGED <<state, cmd, intentional, counted, channel, gone, mon, procs, crashed, announced>>

Signal(c) == /\ stop[c] = "Signal"
             /\ asked' = Signalled
             /\ stop' = [stop EXCEPT ![c] = "Await"]
             /\ UNCHANGED <<sup, mon, alive, deaf, open, bound, spawned, seen>>

SeesExit(c) == /\ stop[c] = "Await" /\ gone
               /\ stop' = [stop EXCEPT ![c] = "Release"]
               /\ UNCHANGED <<sup, mon, procs, seen>>

TimesOutAway(c) == /\ stop[c] = "Await" /\ mon \notin Relaunching   \* mutant
                   /\ stop' = [stop EXCEPT ![c] = "Release"]
                   /\ UNCHANGED <<sup, mon, procs, seen>>

TimesOut(c) == /\ stop[c] = "Await" /\ mon \notin Relaunching
               /\ alive' = alive \ {cmd}                          \* SIGKILL
               /\ stop' = [stop EXCEPT ![c] = "Release"]
               /\ UNCHANGED <<sup, mon, deaf, asked, open, bound, spawned, seen>>

Release(c) == /\ stop[c] = "Release"
              /\ open' = open \ {channel} /\ channel' = 0
              /\ stop' = [stop EXCEPT ![c] = "Done"]
              /\ UNCHANGED <<state, cmd, intentional, counted, stopping, gone, mon,
                             alive, deaf, asked, bound, spawned, seen>>

-----------------------------------------------------------------------------
(* The process: it crashes at any time, or exits once it was asked to; one that is
   deaf may also never do. *)

Crashes(g) == /\ g \in alive \ asked
              /\ spawned < Launches \/ stopping      \* bound
              /\ alive' = alive \ {g}
              /\ crashed' = crashed \cup {g}
              /\ UNCHANGED <<sup, mon, stop, deaf, asked, open, bound, spawned, announced, panicked>>

Obeys(g) == /\ g \in alive \cap asked
            /\ alive' = alive \ {g}
            /\ UNCHANGED <<sup, mon, stop, deaf, asked, open, bound, spawned, seen>>

(* The oldest crashes leave the window, in the supervisor's list as in fact. *)
WindowPasses(g) == /\ g \in counted
                   /\ crashed' = {h \in crashed : h > g} /\ counted' = {h \in counted : h > g}
                   /\ UNCHANGED <<state, cmd, intentional, channel, stopping, gone, mon, stop, procs,
                                  announced, panicked>>

Stopping(c) == Look(c) \/ Close(c) \/ Signal(c) \/ SeesExit(c) \/ TimesOut(c) \/ Release(c)
Launching == Spawn \/ SpawnFails \/ Publish \/ Swap \/ Bind \/ Recheck
Monitor == Launching \/ Exited \/ Take \/ Crash \/ Leave

Next == \/ Monitor \/ Restart
        \/ \E c \in Stoppers : Call(c) \/ Stopping(c)
        \/ \E g \in Launch : Crashes(g) \/ Obeys(g) \/ WindowPasses(g)

Spec == Init /\ [][Next]_vars
FairSpec == /\ Spec /\ WF_vars(Monitor)
            /\ \A c \in Stoppers : WF_vars(Stopping(c))
            /\ \A g \in Launch : WF_vars(g \notin deaf /\ Obeys(g))

-----------------------------------------------------------------------------
TypeOK ==
  /\ state \in {"idle", "running", "stopped", "failed"}
  /\ spawned \in 0..Launches
  /\ cmd \in 0..spawned /\ intentional \in 0..spawned /\ channel \in 0..spawned /\ bound \in 0..spawned
  /\ mon \in Relaunching \cup {"Wait", "Leave", "End"}
  /\ stop \in [Stoppers -> {"Out", "Look", "Close", "Signal", "Await", "Release", "Done"}]
  /\ counted \subseteq 1..spawned /\ alive \subseteq 1..spawned /\ deaf \subseteq 1..spawned
  /\ asked \subseteq 1..spawned /\ open \subseteq 1..spawned
  /\ crashed \subseteq 1..spawned /\ announced \subseteq 1..spawned
  /\ stopping \in BOOLEAN /\ gone \in BOOLEAN /\ panicked \in BOOLEAN
  /\ gone => mon = "End" /\ state \in {"stopped", "failed"}

(* A module never has two processes: a relaunch waits for the exit of the one before. *)
OneProcess == \A g, h \in alive : g = h

(* Once a Stop has returned, no process of the module is started again, not even by the
   relaunch or the health restart that Stop raced with. *)
StoppedForGood == [][(\E c \in Stoppers : stop[c] = "Done") => alive' \subseteq alive]_vars

(* SIGKILL is the last resort: the process it hits was asked to stop before, the fresh
   child of a relaunch that raced Stop included. *)
KilledOnlyAfterAsked ==
  [][\A c \in Stoppers : TimesOut(c) => alive \ alive' \subseteq asked]_vars

(* No core end of a wire outlives its launch: the supervisor holds every open one but that
   of the launch in progress, and when every Stop has returned none is left. *)
WiresAccounted ==
  /\ open \ {channel} \subseteq (IF mon \in {"Publish", "Swap"} THEN {spawned} ELSE {})
  /\ (mon = "End" /\ \E c \in Stoppers : stop[c] = "Done") /\ (\A c \in Stoppers : ~Inside(c))
       => open = {}

(* While its process runs, the broker talks to the wire of that very process. *)
BoundToLive == mon = "Wait" /\ ~stopping => bound = cmd /\ cmd \in open

(* Stop may be called from any goroutine: the stop channel is closed once. *)
StopsOnce == ~panicked

(* One process and one wire to it, at every step of every launch, restart and Stop. *)
ProcessAndWire == OneProcess /\ WiresAccounted /\ BoundToLive /\ StopsOnce

(* Stop is final and it is polite: nothing comes back, nothing is killed unasked. *)
StopIsOrderly == StoppedForGood /\ KilledOnlyAfterAsked

(* Every exit nobody asked for fires OnCrash and counts against the guard, no other exit
   does, and the module comes back only within the guard's budget. *)
CrashesCounted ==
  mon = "Wait" => /\ counted = crashed \ (IF cmd \in alive THEN {} ELSE {cmd})
                  /\ counted \subseteq announced
                  /\ Cardinality(counted) <= MaxRestarts

(* A restart asked of one process excuses the exit of that process and of no other.  The
   code does not keep this: TLC refutes it (README, section 5). *)
RestartExcusesItsOwn == [][Take /\ mon' = "Spawn" => intentional = cmd]_vars

(* A Stop that has begun returns, and no process is left: one that ignores the request is killed. *)
StopStops == \A c \in Stoppers : (stop[c] = "Signal") ~> (stop[c] = "Done" /\ alive = {})

=============================================================================
