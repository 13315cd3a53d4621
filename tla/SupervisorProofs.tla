-------------------------- MODULE SupervisorProofs --------------------------
(***************************************************************************)
(* Proofs about Supervisor for any callers of Stop, concurrent ones and     *)
(* health restarts included, any restart budget and any number of launches. *)
(* IInv relates where the monitor stands to what it holds: the launch in    *)
(* progress is the only process there may be, a relaunch is out of the      *)
(* question from the moment a Stop stops waiting, and a process the monitor *)
(* waits for has been asked to stop once a Stop is past its signal.         *)
(***************************************************************************)
EXTENDS Supervisor, FiniteSetTheorems, TLAPS

\* What the supervisor holds is the last launch, up to the step it is in.
PhaseInv ==
  /\ alive \subseteq {spawned}
  /\ cmd = (IF mon = "Publish" THEN spawned - 1 ELSE spawned)
  /\ bound = (IF mon \in {"Publish", "Swap", "Bind"} THEN spawned - 1 ELSE spawned)
  /\ mon \in Relaunching \cup {"Wait"} /\ mon # "Spawn" => spawned > 0
  /\ mon \in {"Take", "Crash", "Spawn", "Leave", "End"} => alive = {}
  /\ state = "idle" => cmd = 0 /\ channel = 0 /\ mon \in {"Spawn", "Publish", "End"}
  /\ mon = "Leave" => state \in {"stopped", "failed"}

\* A caller of Stop got in after Start returned; past its close of stopCh the flag is up,
\* and past its wait the monitor can only leave.
StopInv ==
  \A c \in Stoppers :
    /\ stop[c] # "Out" => spawned > 1 \/ bound > 0 \/ mon = "End"
    /\ stop[c] \in {"Signal", "Await", "Release"} => stopping
    /\ stop[c] \in {"Release", "Done"} => mon \notin Relaunching /\ (stopping \/ mon = "End")
    /\ stop[c] \in {"Await", "Release", "Done"} /\ mon = "Wait" => alive \subseteq asked
    /\ stop[c] = "Done" => channel = 0

WireInv ==
  /\ open \subseteq {channel} \cup (IF mon \in {"Publish", "Swap"} THEN {spawned} ELSE {})
  /\ mon \in {"Publish", "Swap"} => channel < spawned /\ spawned \in open
  /\ mon \in {"Bind", "Recheck", "Wait"} /\ ~stopping => channel = cmd /\ cmd \in open
  /\ mon = "Bind" => channel = cmd

IInv == TypeOK /\ PhaseInv /\ StopInv /\ WireInv

LEMMA Initially == Init => IInv
<1> SUFFICES ASSUME Init PROVE IInv
  OBVIOUS
<1> USE SupervisorAssumption DEF Init, Relaunching
<1>1. TypeOK
  <2>1. stop \in [Stoppers -> {"Out", "Look", "Close", "Signal", "Await", "Release", "Done"}]
    OBVIOUS
  <2>2. 0 \in 0..Launches /\ 0 \in 0..0
    OBVIOUS
  <2> QED
    BY <2>1, <2>2 DEF TypeOK
<1>2. PhaseInv
  BY DEF PhaseInv
<1>3. StopInv /\ WireInv
  BY DEF StopInv, WireInv
<1> QED
  BY <1>1, <1>2, <1>3 DEF IInv

LEMMA Stepwise == IInv /\ [Next]_vars => IInv'
<1> SUFFICES ASSUME IInv, [Next]_vars PROVE IInv'
  OBVIOUS
<1> USE SupervisorAssumption DEF IInv, TypeOK, PhaseInv, StopInv, WireInv, Relaunching, sup, procs, seen
<1>1. CASE Spawn
  BY <1>1 DEF Spawn
<1>2. CASE SpawnFails
  BY <1>2 DEF SpawnFails
<1>3. CASE Publish
  BY <1>3 DEF Publish
<1>4. CASE Swap
  BY <1>4 DEF Swap
<1>5. CASE Bind
  BY <1>5 DEF Bind
<1>6. CASE Recheck
  BY <1>6 DEF Recheck, Signalled
<1>7. CASE Exited
  BY <1>7 DEF Exited
<1>8. CASE Take
  BY <1>8 DEF Take
<1>9. CASE Crash
  BY <1>9 DEF Crash
<1>10. CASE Leave
  BY <1>10 DEF Leave
<1>11. CASE Restart
  BY <1>11 DEF Restart, Signalled
<1>12. ASSUME NEW c \in Stoppers, Call(c) PROVE IInv'
  BY <1>12 DEF Call, Inside
<1>13. ASSUME NEW c \in Stoppers, Look(c) PROVE IInv'
  BY <1>13 DEF Look
<1>14. ASSUME NEW c \in Stoppers, Close(c) PROVE IInv'
  BY <1>14 DEF Close
<1>15. ASSUME NEW c \in Stoppers, Signal(c) PROVE IInv'
  BY <1>15 DEF Signal, Signalled
<1>16. ASSUME NEW c \in Stoppers, SeesExit(c) PROVE IInv'
  BY <1>16 DEF SeesExit
<1>17. ASSUME NEW c \in Stoppers, TimesOut(c) PROVE IInv'
  BY <1>17 DEF TimesOut
<1>18. ASSUME NEW c \in Stoppers, Release(c) PROVE IInv'
  BY <1>18 DEF Release
<1>19. ASSUME NEW g \in Launch, Crashes(g) PROVE IInv'
  BY <1>19 DEF Crashes, Launch
<1>20. ASSUME NEW g \in Launch, Obeys(g) PROVE IInv'
  BY <1>20 DEF Obeys, Launch
<1>21. ASSUME NEW g \in Launch, WindowPasses(g) PROVE IInv'
  BY <1>21, ZenonT(30) DEF WindowPasses, Launch
<1>22. CASE UNCHANGED vars
  BY <1>22 DEF vars
<1> QED
  BY <1>1, <1>2, <1>3, <1>4, <1>5, <1>6, <1>7, <1>8, <1>9, <1>10, <1>11, <1>12, <1>13, <1>14, <1>15, <1>16, <1>17, <1>18, <1>19, <1>20, <1>21, <1>22 DEF Next, Monitor, Launching, Stopping

LEMMA Inductive == Spec => []IInv
  BY Initially, Stepwise, PTL DEF Spec

-----------------------------------------------------------------------------
(* Every variable keeps its type, and the exit channel is closed only by a monitor that has
   recorded how the module ended. *)
THEOREM TypeCorrect == Spec => []TypeOK
<1>1. IInv => TypeOK
  BY DEF IInv
<1> QED
  BY <1>1, Inductive, PTL

(* A module never has two processes, whatever crashes, restarts and stops race. *)
THEOREM NeverTwo == Spec => []OneProcess
<1>1. IInv => OneProcess
  BY DEF IInv, PhaseInv, OneProcess
<1> QED
  BY <1>1, Inductive, PTL

(* No wire end is leaked, by any interleaving of relaunches and stops. *)
THEOREM NoWireLeaks == Spec => []WiresAccounted
<1>1. IInv => WiresAccounted
  BY DEF IInv, TypeOK, StopInv, WireInv, WiresAccounted, Inside, Relaunching
<1> QED
  BY <1>1, Inductive, PTL

(* The broker is bound to the wire of the running process. *)
THEOREM BoundCorrect == Spec => []BoundToLive
<1>1. IInv => BoundToLive
  BY DEF IInv, PhaseInv, WireInv, BoundToLive
<1> QED
  BY <1>1, Inductive, PTL

(* Once a Stop has returned the module has no new process: of all steps only a launch adds
   one, and the monitor is past launching when a Stop stops waiting. *)
THEOREM StopIsForGood == Spec => StoppedForGood
<1>1. ASSUME IInv, [Next]_vars, NEW c \in Stoppers, stop[c] = "Done"
      PROVE  alive' \subseteq alive
  <2>1. mon # "Spawn"
    BY <1>1 DEF IInv, StopInv, Relaunching
  <2>2. CASE Next
    BY <2>1, <2>2 DEF Next, Monitor, Launching, Stopping, Spawn, SpawnFails, Publish, Swap, Bind,
       Recheck, Exited, Take, Crash, Leave, Restart, Call, Look, Close, Signal, SeesExit, TimesOut,
       Release, Crashes, Obeys, WindowPasses, procs
  <2>3. CASE UNCHANGED vars
    BY <2>3 DEF vars, procs
  <2> QED
    BY <1>1, <2>2, <2>3
<1>2. IInv /\ [Next]_vars =>
        [(\E c \in Stoppers : stop[c] = "Done") => alive' \subseteq alive]_vars
  BY <1>1
<1> QED
  BY <1>2, Inductive, PTL DEF Spec, StoppedForGood

(* A process hit by SIGKILL had received the graceful request. *)
THEOREM AskedBeforeKilled == Spec => KilledOnlyAfterAsked
<1>1. ASSUME IInv, NEW c \in Stoppers, TimesOut(c)
      PROVE  alive \ alive' \subseteq asked
  <2>1. mon \in {"Wait", "Leave", "End"}
    BY <1>1 DEF IInv, TypeOK, TimesOut
  <2> QED
    BY <1>1, <2>1 DEF IInv, PhaseInv, StopInv, TimesOut
<1>2. IInv /\ [Next]_vars =>
        [\A c \in Stoppers : TimesOut(c) => alive \ alive' \subseteq asked]_vars
  BY <1>1
<1> QED
  BY <1>2, Inductive, PTL DEF Spec, KilledOnlyAfterAsked


-----------------------------------------------------------------------------
(* Crash accounting, when nobody calls Restart. *)
CountInv ==
  /\ intentional = 0
  /\ ~stopping => asked = {}
  /\ alive \cap crashed = {}
  /\ mon \in {"Wait", "Publish", "Swap", "Bind", "Recheck"} /\ ~stopping =>
       spawned \in alive \cup crashed
  /\ mon \in {"Take", "Crash"} => spawned \in crashed
  /\ mon = "Spawn" => counted = crashed
  /\ mon \in Relaunching \cup {"Wait"} /\ mon # "Spawn" => counted = crashed \ {spawned}
  /\ counted \subseteq announced
  /\ mon \notin {"Leave", "End"} => Cardinality(counted) <= MaxRestarts

LEMMA CountStepwise ==
  ASSUME Restarts = FALSE
  PROVE  IInv /\ IInv' /\ CountInv /\ [Next]_vars => CountInv'
<1> SUFFICES ASSUME IInv, IInv', CountInv, [Next]_vars PROVE CountInv'
  OBVIOUS
<1> USE SupervisorAssumption DEF IInv, TypeOK, PhaseInv, CountInv, StopInv, Relaunching, sup, procs, seen
<1>1. CASE Spawn
  BY <1>1 DEF Spawn
<1>2. CASE SpawnFails
  BY <1>2 DEF SpawnFails
<1>3. CASE Publish
  BY <1>3 DEF Publish
<1>4. CASE Swap
  BY <1>4 DEF Swap
<1>5. CASE Bind
  BY <1>5 DEF Bind
<1>6. CASE Recheck
  BY <1>6 DEF Recheck, Signalled
<1>7. CASE Exited
  BY <1>7 DEF Exited
<1>8. CASE Take
  BY <1>8 DEF Take
<1>9. CASE Leave
  BY <1>9 DEF Leave
<1>10. ASSUME NEW c \in Stoppers, Call(c) PROVE CountInv'
  BY <1>10 DEF Call, Inside
<1>11. ASSUME NEW c \in Stoppers, Look(c) PROVE CountInv'
  BY <1>11 DEF Look
<1>12. ASSUME NEW c \in Stoppers, Close(c) PROVE CountInv'
  BY <1>12 DEF Close
<1>13. ASSUME NEW c \in Stoppers, Signal(c) PROVE CountInv'
  BY <1>13 DEF Signal, Signalled
<1>14. ASSUME NEW c \in Stoppers, SeesExit(c) PROVE CountInv'
  BY <1>14 DEF SeesExit
<1>15. ASSUME NEW c \in Stoppers, TimesOut(c) PROVE CountInv'
  BY <1>15 DEF TimesOut
<1>16. ASSUME NEW c \in Stoppers, Release(c) PROVE CountInv'
  BY <1>16 DEF Release
<1>17. ASSUME NEW g \in Launch, Crashes(g) PROVE CountInv'
  BY <1>17 DEF Crashes, Launch
<1>18. ASSUME NEW g \in Launch, Obeys(g) PROVE CountInv'
  BY <1>18 DEF Obeys, Launch
<1>a. \A S : S \subseteq 1..spawned => IsFiniteSet(S) /\ Cardinality(S) \in Nat
  <2>1. spawned \in Int /\ IsFiniteSet(1..spawned)
    BY FS_Interval
  <2> QED
    BY <2>1, FS_Subset, FS_CardinalityType
<1>19. CASE Crash
  <2>1. counted' \subseteq 1..spawned /\ Cardinality(counted') \in Nat /\ MaxRestarts \in Nat
    BY <1>19, <1>a DEF Crash
  <2> QED
    BY <1>19, <2>1 DEF Crash
<1>20. ASSUME NEW g \in Launch, WindowPasses(g) PROVE CountInv'
  <2>1. IsFiniteSet(counted)
    BY <1>a
  <2>2. counted' \subseteq counted
    BY <1>20 DEF WindowPasses
  <2>3. Cardinality(counted') <= Cardinality(counted) /\ Cardinality(counted) \in Nat /\ Cardinality(counted') \in Nat
    BY <2>1, <2>2, FS_Subset, FS_CardinalityType
  <2>4. mon \in Relaunching \cup {"Wait"} /\ mon # "Spawn" => g < spawned
    BY <1>20 DEF WindowPasses
  <2>5. mon' = mon /\ MaxRestarts \in Nat
    BY <1>20 DEF WindowPasses
  <2>6. mon \notin {"Leave", "End"} => Cardinality(counted') <= MaxRestarts
    BY <2>3, <2>5
  <2> QED
    BY <1>20, <2>4, <2>5, <2>6 DEF WindowPasses
<1>21. CASE UNCHANGED vars
  BY <1>21 DEF vars
<1>22. ~Restart
  BY DEF Restart
<1> QED
  BY <1>1, <1>2, <1>3, <1>4, <1>5, <1>6, <1>7, <1>8, <1>9, <1>10, <1>11, <1>12, <1>13, <1>14, <1>15, <1>16, <1>17, <1>18, <1>19, <1>20, <1>21, <1>22 DEF Next, Monitor, Launching, Stopping

(* Without health restarts every unexpected exit fires OnCrash and counts, no other exit does,
   and a module that comes back is within its budget of crashes. *)
THEOREM CrashesAccounted ==
  ASSUME Restarts = FALSE
  PROVE  Spec => []CrashesCounted
<1>1. Init => CountInv
  BY FS_EmptySet, SupervisorAssumption DEF Init, CountInv, Relaunching
<1>2. IInv /\ CountInv => CrashesCounted
  BY DEF IInv, PhaseInv, CountInv, CrashesCounted, Relaunching
<1> QED
  BY <1>1, <1>2, CountStepwise, Inductive, PTL DEF Spec

-----------------------------------------------------------------------------
(* Callers of Stop that come one after the other, as the record that hands the supervisor
   out to one of them makes them: who goes to close the channel is alone and finds it open. *)
StopperInv ==
  /\ \A c, d \in Stoppers : Inside(c) /\ Inside(d) => c = d
  /\ \A c \in Stoppers : stop[c] = "Close" => ~stopping
  /\ ~panicked

LEMMA StopperStepwise ==
  ASSUME Concurrent = FALSE, TypeOK, StopperInv, [Next]_vars
  PROVE  StopperInv'
<1> USE DEF TypeOK, StopperInv, Inside
<1>1. ASSUME NEW c \in Stoppers, Call(c) PROVE StopperInv'
  BY <1>1 DEF Call, sup, seen
<1>2. ASSUME NEW c \in Stoppers, Look(c) PROVE StopperInv'
  BY <1>2 DEF Look, sup, seen
<1>3. ASSUME NEW c \in Stoppers, Close(c) PROVE StopperInv'
  BY <1>3 DEF Close
<1>4. ASSUME NEW c \in Stoppers, Signal(c) \/ SeesExit(c) \/ TimesOut(c) \/ Release(c)
      PROVE  StopperInv'
  BY <1>4 DEF Signal, SeesExit, TimesOut, Release, sup, seen
<1>5. ASSUME UNCHANGED <<stop, stopping, panicked>> PROVE StopperInv'
  BY <1>5
<1>6. CASE Monitor \/ Restart
  BY <1>5, <1>6 DEF Monitor, Launching, Spawn, SpawnFails, Publish, Swap, Bind, Recheck,
     Exited, Take, Crash, Leave, Restart, sup, seen
<1>7. ASSUME NEW g \in Launch, Crashes(g) \/ Obeys(g) \/ WindowPasses(g) PROVE StopperInv'
  BY <1>5, <1>7 DEF Crashes, Obeys, WindowPasses, sup, seen
<1>8. CASE UNCHANGED vars
  BY <1>5, <1>8 DEF vars, sup, seen
<1> QED
  BY <1>1, <1>2, <1>3, <1>4, <1>6, <1>7, <1>8 DEF Next, Stopping

(* The stop channel is closed once, by whoever came first. *)
THEOREM ClosedOnce ==
  ASSUME Concurrent = FALSE
  PROVE  Spec => []StopsOnce
<1>1. Init => StopperInv
  BY DEF Init, StopperInv, Inside
<1>2. StopperInv => StopsOnce
  BY DEF StopperInv, StopsOnce
<1>3. IInv => TypeOK
  BY DEF IInv
<1> QED
  BY <1>1, <1>2, <1>3, StopperStepwise, Inductive, PTL DEF Spec

(* At every step of every launch, restart and Stop a module has one process and one wire. *)
THEOREM OneProcessOneWire ==
  ASSUME Concurrent = FALSE
  PROVE  Spec => []ProcessAndWire
BY NeverTwo, NoWireLeaks, BoundCorrect, ClosedOnce, PTL DEF ProcessAndWire

(* Nothing comes back after a Stop, and nothing is killed that was not asked. *)
THEOREM StopsOrderly == Spec => StopIsOrderly
BY StopIsForGood, AskedBeforeKilled, PTL DEF StopIsOrderly

=============================================================================
