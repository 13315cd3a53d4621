---------------------------- MODULE BrokerProofs ----------------------------
(***************************************************************************)
(* Proofs about Broker for any modules, jobs, hops, footprints and any     *)
(* number of crashes.  The inductive invariant IInv says, besides types,   *)
(* how far a call's goroutine, its worker and its reports can be apart,    *)
(* and that the live jobs - started, no final response, no terminal report *)
(* recorded by their own worker - have pairwise disjoint footprints.       *)
(* The last section proves the promotion loop, for queues of any length,   *)
(* and that it computes the plan that a pass of Broker stamps.             *)
(***************************************************************************)
EXTENDS Broker, PlanPromotions, TLAPS

InHand == {"enqueue", "wait", "waiting", "route", "called", "respond"}
AtWork == {"spawned", "announcing", "working"}

\* A record is open exactly while its goroutine has not completed it, and past
\* the queue a job has its stamp.
CallInv ==
    \A c \in Call :
        /\ exchange[c] = "open" <=> pc[c] \in InHand
        /\ pc[c] = "idle" => exchange[c] = "none"
        /\ pc[c] = "respond" => resp[c] # "none"
        /\ c \in started => Recorded(c)
        /\ c \in Job /\ pc[c] \in {"route", "called"} => c \in started

\* Background work belongs to a dispatched call; its ack is in the module's
\* hands, in the broker's, or recorded.
Dispatched(c) ==
    /\ pc[c] \in {"called", "respond", "release", "returned"}
    /\ Recorded(c)
    /\ c \in Job => c \in started
WorkerInv ==
    \A c \in Call :
        /\ worker[Own(c)] # "none" => c \in Async /\ Dispatched(c)
        /\ worker[Side(c)] # "none" => Dispatched(c)
        /\ worker[Own(c)] \in AtWork =>
              \/ pc[c] = "called"
              \/ pc[c] = "respond" /\ resp[c] = "accepted"
              \/ exchange[c] = "accepted"
        /\ c \notin AsyncHop => worker[Side(c)] \in {"none", "working", "gone"}

\* A report is sent by a worker that has got that far; a sync hop sends none.
ReportInv ==
    /\ \A w \in Worker :
           /\ worker[w] \in {"none", "spawned"} => serving[First(w)] = "none"
           /\ worker[w] # "gone" => serving[Final(w)] = "none"
    /\ \A c \in Call \ AsyncHop :
           serving[First(Side(c))] = "none" /\ serving[Final(Side(c))] = "none"

\* Only a job's own worker ends it by a report, and that report is never unsaid.
Reported(c) == serving[Final(Own(c))] \in {"recorded", "advance", "answered"}
FoldInv == \A c \in Call \ AsyncHop : folded[c] \in Terminal => Reported(c)

\* Opening times order the recorded calls.
TimeInv ==
    \A c \in Call : Recorded(c) =>
        /\ queuedAt[c] < clock
        /\ \A d \in Call : Recorded(d) /\ c # d => queuedAt[c] # queuedAt[d]

\* The admission lock is held by a goroutine inside its advance(), which has
\* read recorded calls.
LockInv ==
    /\ \A c \in Call : c \in admitMu => pc[c] \in {"enqueue", "release"}
    /\ \A r \in Report : r \in admitMu => serving[r] = "advance"
    /\ \A c \in queued : Recorded(c)

\* What advance() read as queued misses no earlier job that still waits.
SnapshotInv ==
    admitMu # {} => \A c, d \in Job :
        /\ d \in queued /\ Recorded(c) /\ queuedAt[c] < queuedAt[d]
        /\ c \notin started /\ ~Ended(c)
        => c \in queued

Live(c) ==
    /\ c \in started /\ exchange[c] \in {"open", "accepted"}
    /\ folded[c] \notin Terminal /\ ~Reported(c)
LiveDisjoint ==
    \A c, d \in Simple : c # d /\ Live(c) /\ Live(d) => Hold(c) \cap Hold(d) = {}

LocalInv == CallInv /\ WorkerInv /\ ReportInv /\ FoldInv /\ TimeInv /\ LockInv
IInv == TypeOK /\ LocalInv /\ SnapshotInv /\ LiveDisjoint /\ NotOvertaken

-----------------------------------------------------------------------------
(* Types.                                                                   *)

\* How workers and reports are indexed: all that the proofs use of the tuples.
LEMMA WorkerIndex ==
    /\ \A c \in Call : Own(c) \in Worker /\ Side(c) \in Worker
    /\ \A c, d : /\ Own(c) # Side(d)
                 /\ Own(c) = Own(d) => c = d
                 /\ Side(c) = Side(d) => c = d
  BY DEF Worker, Own, Side

LEMMA WorkerOwner ==
    /\ \A c : Owner(Own(c)) = c /\ Owner(Side(c)) = c
    /\ \A w \in Worker : Owner(w) \in Call /\ (w = Own(Owner(w)) \/ w = Side(Owner(w)))
  BY DEF Worker, Own, Side, Owner

LEMMA ReportIndex ==
    /\ \A w \in Worker : First(w) \in Report /\ Final(w) \in Report
    /\ \A v, w : /\ First(v) # Final(w)
                 /\ First(v) = First(w) => v = w
                 /\ Final(v) = Final(w) => v = w
  BY DEF Report, First, Final

LEMMA ReportSender ==
    /\ \A w : Sender(First(w)) = w /\ Sender(Final(w)) = w
    /\ \A r \in Report : Sender(r) \in Worker /\ (r = First(Sender(r)) \/ r = Final(Sender(r)))
  BY DEF Report, First, Final, Sender

LEMMA InitTypeOK == Init => TypeOK
  BY BoundAssumption DEF Init, TypeOK, CallPC, Reply3, Terminal

LEMMA NextTypeOK == TypeOK /\ [Next]_vars => TypeOK'
<1> SUFFICES ASSUME TypeOK, [Next]_vars PROVE TypeOK'
  OBVIOUS
<1> USE BoundAssumption DEF TypeOK, CallPC, Reply3, Terminal, store, queue, modules
<1>1. ASSUME NEW c \in Call, Reject(c) \/ Open(c) PROVE TypeOK'
  BY <1>1 DEF Reject, Open
<1>2. ASSUME NEW c \in Call, BeginWait(c) PROVE TypeOK'
  BY <1>2 DEF BeginWait
<1>3. ASSUME NEW c \in Call, WakeStarted(c) \/ WakeTimedOut(c) \/ WakeAgain(c) PROVE TypeOK'
  BY <1>3 DEF WakeStarted, WakeTimedOut, WakeAgain, Woken
<1>4. ASSUME NEW c \in Call, Expire(c) \/ TimerFires(c) PROVE TypeOK'
  BY <1>4 DEF Expire, TimerFires
<1>5. ASSUME NEW c \in Call, Dispatch(c) \/ RouteFails(c) \/ Acknowledge(c) PROVE TypeOK'
  BY <1>5 DEF Dispatch, RouteFails, Acknowledge
<1>6. ASSUME NEW c \in Call, NEW answer \in {"ok", "error"}, Reply(c, answer) PROVE TypeOK'
  BY <1>6 DEF Reply
<1>7. ASSUME NEW c \in Call, Complete(c) PROVE TypeOK'
  BY <1>7 DEF Complete
<1>8. ASSUME NEW c \in Call, AdvanceCall(c) PROVE TypeOK'
  BY <1>8 DEF AdvanceCall, Lock, Queued
<1>9. ASSUME NEW c \in Call, PromoteCall(c) PROVE TypeOK'
  BY <1>9 DEF PromoteCall, Promote
<1>10. ASSUME NEW c \in Call, Accept(c) \/ Hop(c) \/ HopReturns(c) PROVE TypeOK'
  <2>1. Own(c) \in Worker /\ Side(c) \in Worker
    BY WorkerIndex
  <2>2. CASE Accept(c)
    BY <2>1, <2>2 DEF Accept
  <2>3. CASE Hop(c)
    BY <2>1, <2>3 DEF Hop
  <2>4. CASE HopReturns(c)
    BY <2>1, <2>4 DEF HopReturns
  <2> QED
    BY <1>10, <2>2, <2>3, <2>4
<1>11. ASSUME NEW r \in Report, Record(r) PROVE TypeOK'
  <2>1. Sender(r) \in Worker /\ Owner(Sender(r)) \in Call
    BY WorkerOwner, ReportSender
  <2>2. outcome[Sender(r)] \in {"none", "done", "failed"}
    BY <2>1
  <2> QED
    BY <1>11, <2>1, <2>2 DEF Record
<1>12. ASSUME NEW r \in Report, Deliver(r) PROVE TypeOK'
  <2>1. Sender(r) \in Worker /\ Owner(Sender(r)) \in Call
    BY WorkerOwner, ReportSender
  <2>2. outcome[Sender(r)] \in {"none", "done", "failed"}
    BY <2>1
  <2> QED
    BY <1>12, <2>1, <2>2 DEF Deliver
<1>13. ASSUME NEW r \in Report, AdvanceReport(r) PROVE TypeOK'
  BY <1>13 DEF AdvanceReport, Lock, Queued
<1>14. ASSUME NEW r \in Report, PromoteReport(r) PROVE TypeOK'
  BY <1>14 DEF PromoteReport, Promote
<1>15. ASSUME NEW w \in Worker, Announce(w) \/ Work(w) PROVE TypeOK'
  BY <1>15, ReportIndex DEF Announce, Work
<1>16. ASSUME NEW w \in Worker, NEW result \in Terminal, Finish(w, result) PROVE TypeOK'
  BY <1>16, ReportIndex DEF Finish
<1>17. ASSUME NEW m \in Module, Die(m) PROVE TypeOK'
  BY <1>17 DEF Die
<1>18. CASE Quiet \/ UNCHANGED vars
  BY <1>18 DEF Quiet, vars
<1> QED
  BY <1>1, <1>2, <1>3, <1>4, <1>5, <1>6, <1>7, <1>8, <1>9, <1>10, <1>11, <1>12,
     <1>13, <1>14, <1>15, <1>16, <1>17, <1>18
  DEF Next, Serve, Answer, ServeReport, RunAsync

-----------------------------------------------------------------------------
(* The local invariants.                                                    *)

LEMMA InitLocalInv == Init => LocalInv
<1> SUFFICES ASSUME Init PROVE LocalInv
  OBVIOUS
<1> USE WorkerIndex, ReportIndex DEF Init, Recorded
<1>1. CallInv
  BY DEF CallInv, InHand
<1>2. WorkerInv
  BY DEF WorkerInv, AtWork
<1>3. ReportInv
  BY DEF ReportInv
<1>4. FoldInv
  BY DEF FoldInv, Terminal
<1>5. TimeInv
  BY DEF TimeInv
<1>6. LockInv
  BY DEF LockInv
<1> QED
  BY <1>1, <1>2, <1>3, <1>4, <1>5, <1>6 DEF LocalInv

LEMMA NextCallInv == TypeOK /\ LocalInv /\ [Next]_vars => CallInv'
<1> SUFFICES ASSUME TypeOK, CallInv, LockInv, WorkerInv, [Next]_vars PROVE CallInv'
  BY DEF LocalInv
<1> USE DEF TypeOK, CallInv, InHand, Recorded, store, queue, modules
<1>1. ASSUME NEW c \in Call, Reject(c) PROVE CallInv'
  BY <1>1 DEF Reject
<1>2. ASSUME NEW c \in Call, Open(c) PROVE CallInv'
  BY <1>2, CallAssumption DEF Open, Call
<1>3. ASSUME NEW c \in Call, BeginWait(c) PROVE CallInv'
  BY <1>3 DEF BeginWait
<1>4. ASSUME NEW c \in Call, WakeStarted(c) PROVE CallInv'
  BY <1>4 DEF WakeStarted, Woken
<1>5. ASSUME NEW c \in Call, WakeTimedOut(c) PROVE CallInv'
  BY <1>5 DEF WakeTimedOut, Woken
<1>6. ASSUME NEW c \in Call, WakeAgain(c) \/ Expire(c) \/ TimerFires(c)
      PROVE  CallInv'
  BY <1>6 DEF WakeAgain, Expire, TimerFires
<1>7. ASSUME NEW c \in Call, Dispatch(c) PROVE CallInv'
  BY <1>7 DEF Dispatch
<1>8. ASSUME NEW c \in Call, RouteFails(c) PROVE CallInv'
  BY <1>8 DEF RouteFails
<1>9. ASSUME NEW c \in Call, NEW answer \in {"ok", "error"}, Reply(c, answer)
      PROVE  CallInv'
  BY <1>9 DEF Reply
<1>10. ASSUME NEW c \in Call, Acknowledge(c) PROVE CallInv'
  BY <1>10 DEF Acknowledge
<1>11. ASSUME NEW c \in Call, Complete(c) PROVE CallInv'
  BY <1>11 DEF Complete, Reply3
<1>12. ASSUME NEW c \in Call, AdvanceCall(c) PROVE CallInv'
  BY <1>12 DEF AdvanceCall, Lock
<1>13. ASSUME NEW c \in Call, PromoteCall(c) PROVE CallInv'
  BY <1>13 DEF PromoteCall, Promote, LockInv
<1>14. ASSUME NEW c \in Call, Accept(c) PROVE CallInv'
  BY <1>14 DEF Accept
<1>15. ASSUME NEW c \in Call, Hop(c) PROVE CallInv'
  BY <1>15 DEF Hop
<1>16. ASSUME NEW c \in Call, HopReturns(c) PROVE CallInv'
  BY <1>16 DEF HopReturns
<1>17. ASSUME NEW r \in Report, Record(r) PROVE CallInv'
  BY <1>17 DEF Record
<1>18. ASSUME NEW r \in Report, Deliver(r) PROVE CallInv'
  BY <1>18 DEF Deliver
<1>19. ASSUME NEW r \in Report, AdvanceReport(r) PROVE CallInv'
  BY <1>19 DEF AdvanceReport, Lock
<1>20. ASSUME NEW r \in Report, PromoteReport(r) PROVE CallInv'
  BY <1>20 DEF PromoteReport, Promote, LockInv
<1>21. ASSUME NEW w \in Worker, Announce(w) PROVE CallInv'
  BY <1>21 DEF Announce
<1>22. ASSUME NEW w \in Worker, Work(w) PROVE CallInv'
  BY <1>22 DEF Work
<1>23. ASSUME NEW w \in Worker, NEW result \in Terminal, Finish(w, result)
      PROVE  CallInv'
  BY <1>23 DEF Finish
<1>24. ASSUME NEW m \in Module, Die(m) PROVE CallInv'
  BY <1>24 DEF Die
<1>25. CASE Quiet \/ UNCHANGED vars
  BY <1>25 DEF Quiet, vars
<1> QED
  BY <1>1, <1>2, <1>3, <1>4, <1>5, <1>6, <1>7, <1>8, <1>9, <1>10, <1>11,
     <1>12, <1>13, <1>14, <1>15, <1>16, <1>17, <1>18, <1>19, <1>20, <1>21,
     <1>22, <1>23, <1>24, <1>25
  DEF Next, Serve, Answer, ServeReport, RunAsync

LEMMA NextLockInv == TypeOK /\ LocalInv /\ [Next]_vars => LockInv'
<1> SUFFICES ASSUME TypeOK, CallInv, LockInv, ReportInv, [Next]_vars PROVE LockInv'
  BY DEF LocalInv
<1> USE DEF TypeOK, LockInv, Recorded, store, queue, modules
<1>1. ASSUME NEW c \in Call, Reject(c) PROVE LockInv'
  BY <1>1 DEF Reject
<1>2. ASSUME NEW c \in Call, Open(c) PROVE LockInv'
  BY <1>2 DEF Open, CallInv
<1>3. ASSUME NEW c \in Call, BeginWait(c) PROVE LockInv'
  BY <1>3 DEF BeginWait
<1>4. ASSUME NEW c \in Call, WakeStarted(c) PROVE LockInv'
  BY <1>4 DEF WakeStarted, Woken
<1>5. ASSUME NEW c \in Call, WakeTimedOut(c) PROVE LockInv'
  BY <1>5 DEF WakeTimedOut, Woken
<1>6. ASSUME NEW c \in Call, WakeAgain(c) \/ Expire(c) \/ TimerFires(c)
      PROVE  LockInv'
  BY <1>6 DEF WakeAgain, Expire, TimerFires
<1>7. ASSUME NEW c \in Call, Dispatch(c) PROVE LockInv'
  BY <1>7 DEF Dispatch
<1>8. ASSUME NEW c \in Call, RouteFails(c) PROVE LockInv'
  BY <1>8 DEF RouteFails
<1>9. ASSUME NEW c \in Call, NEW answer \in {"ok", "error"}, Reply(c, answer)
      PROVE  LockInv'
  BY <1>9 DEF Reply
<1>10. ASSUME NEW c \in Call, Acknowledge(c) PROVE LockInv'
  BY <1>10 DEF Acknowledge
<1>11. ASSUME NEW c \in Call, Complete(c) PROVE LockInv'
  BY <1>11 DEF Complete, CallInv
<1>12. ASSUME NEW c \in Call, AdvanceCall(c) PROVE LockInv'
  BY <1>12, CallAssumption DEF AdvanceCall, Lock, Queued
<1>13. ASSUME NEW c \in Call, PromoteCall(c) PROVE LockInv'
  BY <1>13 DEF PromoteCall, Promote, CallInv
<1>14. ASSUME NEW c \in Call, Accept(c) PROVE LockInv'
  BY <1>14 DEF Accept
<1>15. ASSUME NEW c \in Call, Hop(c) PROVE LockInv'
  BY <1>15 DEF Hop
<1>16. ASSUME NEW c \in Call, HopReturns(c) PROVE LockInv'
  BY <1>16 DEF HopReturns
<1>17. ASSUME NEW r \in Report, Record(r) PROVE LockInv'
  BY <1>17 DEF Record
<1>18. ASSUME NEW r \in Report, Deliver(r) PROVE LockInv'
  BY <1>18 DEF Deliver
<1>19. ASSUME NEW r \in Report, AdvanceReport(r) PROVE LockInv'
  BY <1>19, CallAssumption DEF AdvanceReport, Lock, Queued
<1>20. ASSUME NEW r \in Report, PromoteReport(r) PROVE LockInv'
  BY <1>20 DEF PromoteReport, Promote
<1>21. ASSUME NEW w \in Worker, Announce(w) PROVE LockInv'
  BY <1>21, ReportIndex DEF Announce, ReportInv
<1>22. ASSUME NEW w \in Worker, Work(w) PROVE LockInv'
  BY <1>22 DEF Work
<1>23. ASSUME NEW w \in Worker, NEW result \in Terminal, Finish(w, result)
      PROVE  LockInv'
  BY <1>23, ReportIndex DEF Finish, ReportInv
<1>24. ASSUME NEW m \in Module, Die(m) PROVE LockInv'
  BY <1>24 DEF Die
<1>25. CASE Quiet \/ UNCHANGED vars
  BY <1>25 DEF Quiet, vars
<1> QED
  BY <1>1, <1>2, <1>3, <1>4, <1>5, <1>6, <1>7, <1>8, <1>9, <1>10, <1>11,
     <1>12, <1>13, <1>14, <1>15, <1>16, <1>17, <1>18, <1>19, <1>20, <1>21,
     <1>22, <1>23, <1>24, <1>25
  DEF Next, Serve, Answer, ServeReport, RunAsync

LEMMA NextReportInv == TypeOK /\ LocalInv /\ [Next]_vars => ReportInv'
<1> SUFFICES ASSUME TypeOK, ReportInv, WorkerInv, LockInv, [Next]_vars PROVE ReportInv'
  BY DEF LocalInv
<1> USE DEF TypeOK, ReportInv, store, queue, modules
<1>1. ASSUME NEW c \in Call, Reject(c) PROVE ReportInv'
  BY <1>1 DEF Reject
<1>2. ASSUME NEW c \in Call, Open(c) PROVE ReportInv'
  BY <1>2 DEF Open
<1>3. ASSUME NEW c \in Call, BeginWait(c) PROVE ReportInv'
  BY <1>3 DEF BeginWait
<1>4. ASSUME NEW c \in Call, WakeStarted(c) PROVE ReportInv'
  BY <1>4 DEF WakeStarted, Woken
<1>5. ASSUME NEW c \in Call, WakeTimedOut(c) PROVE ReportInv'
  BY <1>5 DEF WakeTimedOut, Woken
<1>6. ASSUME NEW c \in Call, WakeAgain(c) \/ Expire(c) \/ TimerFires(c)
      PROVE  ReportInv'
  BY <1>6 DEF WakeAgain, Expire, TimerFires
<1>7. ASSUME NEW c \in Call, Dispatch(c) PROVE ReportInv'
  BY <1>7 DEF Dispatch
<1>8. ASSUME NEW c \in Call, RouteFails(c) PROVE ReportInv'
  BY <1>8 DEF RouteFails
<1>9. ASSUME NEW c \in Call, NEW answer \in {"ok", "error"}, Reply(c, answer)
      PROVE  ReportInv'
  BY <1>9 DEF Reply
<1>10. ASSUME NEW c \in Call, Acknowledge(c) PROVE ReportInv'
  BY <1>10 DEF Acknowledge
<1>11. ASSUME NEW c \in Call, Complete(c) PROVE ReportInv'
  BY <1>11 DEF Complete
<1>12. ASSUME NEW c \in Call, AdvanceCall(c) PROVE ReportInv'
  BY <1>12 DEF AdvanceCall, Lock
<1>13. ASSUME NEW c \in Call, PromoteCall(c) PROVE ReportInv'
  BY <1>13 DEF PromoteCall, Promote
<1>14. ASSUME NEW c \in Call, Accept(c) PROVE ReportInv'
  BY <1>14, WorkerIndex DEF Accept
<1>15. ASSUME NEW c \in Call, Hop(c) PROVE ReportInv'
  BY <1>15, WorkerIndex, CallAssumption DEF Hop
<1>16. ASSUME NEW c \in Call, HopReturns(c) PROVE ReportInv'
  BY <1>16, WorkerIndex DEF HopReturns
<1>17. ASSUME NEW r \in Report, Record(r) PROVE ReportInv'
  BY <1>17, ReportIndex, WorkerIndex DEF Record
<1>18. ASSUME NEW r \in Report, Deliver(r) PROVE ReportInv'
  BY <1>18, ReportIndex, WorkerIndex DEF Deliver
<1>19. ASSUME NEW r \in Report, AdvanceReport(r) PROVE ReportInv'
  BY <1>19 DEF AdvanceReport, Lock
<1>20. ASSUME NEW r \in Report, PromoteReport(r) PROVE ReportInv'
  BY <1>20, ReportIndex, WorkerIndex DEF PromoteReport, Promote, LockInv
<1>21. ASSUME NEW w \in Worker, Announce(w) PROVE ReportInv'
  <2>1. \A c \in Call \ AsyncHop : w # Side(c)
    BY <1>21, WorkerIndex DEF Announce, WorkerInv
  <2>2. worker' = [worker EXCEPT ![w] = "announcing"] /\ worker[w] = "spawned"
    BY <1>21 DEF Announce
  <2>3. serving' = [serving EXCEPT ![First(w)] = "inflight"]
    BY <1>21 DEF Announce
  <2>4. \A v \in Worker : /\ serving'[Final(v)] = serving[Final(v)]
                          /\ v # w => serving'[First(v)] = serving[First(v)]
    BY <2>3, ReportIndex
  <2> QED
    BY <2>1, <2>2, <2>4, WorkerIndex
<1>22. ASSUME NEW w \in Worker, Work(w) PROVE ReportInv'
  BY <1>22, ReportIndex, WorkerIndex DEF Work
<1>23. ASSUME NEW w \in Worker, NEW result \in Terminal, Finish(w, result)
      PROVE  ReportInv'
  <2>1. \A c \in Call \ AsyncHop : w # Side(c)
    BY <1>23, WorkerIndex, WorkerOwner DEF Finish
  <2>2. worker' = [worker EXCEPT ![w] = "gone"]
    BY <1>23 DEF Finish
  <2>3. serving' = [serving EXCEPT ![Final(w)] = "inflight"]
    BY <1>23 DEF Finish
  <2>4. \A v \in Worker : /\ serving'[First(v)] = serving[First(v)]
                          /\ v # w => serving'[Final(v)] = serving[Final(v)]
    BY <2>3, ReportIndex
  <2>5. worker[w] = "working"
    BY <1>23 DEF Finish
  <2> QED
    BY <2>1, <2>2, <2>4, <2>5, WorkerIndex
<1>24. ASSUME NEW m \in Module, Die(m) PROVE ReportInv'
  BY <1>24, ReportIndex, WorkerIndex DEF Die
<1>25. CASE Quiet \/ UNCHANGED vars
  BY <1>25 DEF Quiet, vars
<1> QED
  BY <1>1, <1>2, <1>3, <1>4, <1>5, <1>6, <1>7, <1>8, <1>9, <1>10, <1>11,
     <1>12, <1>13, <1>14, <1>15, <1>16, <1>17, <1>18, <1>19, <1>20, <1>21,
     <1>22, <1>23, <1>24, <1>25
  DEF Next, Serve, Answer, ServeReport, RunAsync

LEMMA NextWorkerInv == TypeOK /\ LocalInv /\ [Next]_vars => WorkerInv'
<1> SUFFICES ASSUME TypeOK, CallInv, WorkerInv, LockInv, [Next]_vars PROVE WorkerInv'
  BY DEF LocalInv
<1> USE DEF TypeOK, WorkerInv, Dispatched, AtWork, Recorded, store, queue, modules
<1>1. ASSUME NEW c \in Call, Reject(c) PROVE WorkerInv'
  BY <1>1, WorkerIndex DEF Reject
<1>2. ASSUME NEW c \in Call, Open(c) PROVE WorkerInv'
  BY <1>2, WorkerIndex DEF Open
<1>3. ASSUME NEW c \in Call, BeginWait(c) PROVE WorkerInv'
  BY <1>3, WorkerIndex DEF BeginWait
<1>4. ASSUME NEW c \in Call, WakeStarted(c) PROVE WorkerInv'
  BY <1>4, WorkerIndex DEF WakeStarted, Woken
<1>5. ASSUME NEW c \in Call, WakeTimedOut(c) PROVE WorkerInv'
  BY <1>5, WorkerIndex DEF WakeTimedOut, Woken
<1>6. ASSUME NEW c \in Call, WakeAgain(c) \/ Expire(c) \/ TimerFires(c)
      PROVE  WorkerInv'
  BY <1>6, WorkerIndex DEF WakeAgain, Expire, TimerFires
<1>7. ASSUME NEW c \in Call, Dispatch(c) PROVE WorkerInv'
  BY <1>7, WorkerIndex DEF Dispatch
<1>8. ASSUME NEW c \in Call, RouteFails(c) PROVE WorkerInv'
  BY <1>8, WorkerIndex DEF RouteFails
<1>9. ASSUME NEW c \in Call, NEW answer \in {"ok", "error"}, Reply(c, answer)
      PROVE  WorkerInv'
  BY <1>9, WorkerIndex DEF Reply
<1>10. ASSUME NEW c \in Call, Acknowledge(c) PROVE WorkerInv'
  BY <1>10, WorkerIndex DEF Acknowledge
<1>11. ASSUME NEW c \in Call, Complete(c) PROVE WorkerInv'
  BY <1>11, WorkerIndex DEF Complete, CallInv, InHand
<1>12. ASSUME NEW c \in Call, AdvanceCall(c) PROVE WorkerInv'
  BY <1>12, WorkerIndex DEF AdvanceCall, Lock
<1>13. ASSUME NEW c \in Call, PromoteCall(c) PROVE WorkerInv'
  BY <1>13, WorkerIndex DEF PromoteCall, Promote, LockInv
<1>14. ASSUME NEW c \in Call, Accept(c) PROVE WorkerInv'
  <2>1. Dispatched(c)
    BY <1>14 DEF Accept, CallInv, InHand
  <2>2. worker' = [worker EXCEPT ![Own(c)] = "spawned"] /\ Own(c) \in Worker
    BY <1>14, WorkerIndex DEF Accept
  <2>3. /\ \A d \in Call : worker'[Side(d)] = worker[Side(d)]
        /\ \A d \in Call : d # c => worker'[Own(d)] = worker[Own(d)]
    BY <2>2, WorkerIndex
  <2> QED
    BY <1>14, <2>1, <2>3 DEF Accept
<1>15. ASSUME NEW c \in Call, Hop(c) PROVE WorkerInv'
  <2>1. Dispatched(c) /\ Side(c) \in Worker
    BY <1>15, WorkerIndex DEF Hop, CallInv, InHand
  <2>2. worker' = [worker EXCEPT ![Side(c)] = IF c \in SyncHop THEN "working" ELSE "spawned"]
    BY <1>15 DEF Hop
  <2>3. c \notin AsyncHop => worker'[Side(c)] = "working"
    BY <1>15, <2>1, <2>2 DEF Hop
  <2>4. \A d \in Call : worker'[Own(d)] = worker[Own(d)]
    BY <2>1, <2>2, WorkerIndex
  <2>5. \A d \in Call : d # c => worker'[Side(d)] = worker[Side(d)]
    BY <2>1, <2>2, WorkerIndex
  <2> QED
    BY <1>15, <2>1, <2>3, <2>4, <2>5 DEF Hop
<1>16. ASSUME NEW c \in Call, HopReturns(c) PROVE WorkerInv'
  BY <1>16, WorkerIndex DEF HopReturns
<1>17. ASSUME NEW r \in Report, Record(r) PROVE WorkerInv'
  BY <1>17, WorkerIndex DEF Record
<1>18. ASSUME NEW r \in Report, Deliver(r) PROVE WorkerInv'
  BY <1>18, WorkerIndex DEF Deliver
<1>19. ASSUME NEW r \in Report, AdvanceReport(r) PROVE WorkerInv'
  BY <1>19, WorkerIndex DEF AdvanceReport, Lock
<1>20. ASSUME NEW r \in Report, PromoteReport(r) PROVE WorkerInv'
  BY <1>20, WorkerIndex DEF PromoteReport, Promote
<1>21. ASSUME NEW w \in Worker, Announce(w) PROVE WorkerInv'
  BY <1>21, WorkerIndex DEF Announce
<1>22. ASSUME NEW w \in Worker, Work(w) PROVE WorkerInv'
  BY <1>22, WorkerIndex DEF Work
<1>23. ASSUME NEW w \in Worker, NEW result \in Terminal, Finish(w, result)
      PROVE  WorkerInv'
  BY <1>23, WorkerIndex DEF Finish
<1>24. ASSUME NEW m \in Module, Die(m) PROVE WorkerInv'
  <2>1. \A c \in Call : /\ Site(Own(c)) = Target[c]
                       /\ Own(c) \in Worker /\ Side(c) \in Worker
    BY WorkerIndex, WorkerOwner DEF Site
  <2>2. \A w \in Worker : /\ worker'[w] = "none" <=> worker[w] = "none"
                          /\ worker'[w] \in {worker[w], "gone"}
                          /\ Site(w) = m => worker'[w] \in {"none", "gone"}
    BY <1>24 DEF Die
  <2>3. \A c \in Call :
           \/ pc'[c] = pc[c] /\ resp'[c] = resp[c]
           \/ pc[c] = "called" /\ Target[c] = m /\ pc'[c] = "respond"
    BY <1>24 DEF Die
  <2>4. exchange' = exchange /\ started' = started
    BY <1>24 DEF Die
  <2> HIDE DEF TypeOK
  <2> QED
    BY <2>1, <2>2, <2>3, <2>4
<1>25. CASE Quiet \/ UNCHANGED vars
  BY <1>25 DEF Quiet, vars
<1> QED
  BY <1>1, <1>2, <1>3, <1>4, <1>5, <1>6, <1>7, <1>8, <1>9, <1>10, <1>11,
     <1>12, <1>13, <1>14, <1>15, <1>16, <1>17, <1>18, <1>19, <1>20, <1>21,
     <1>22, <1>23, <1>24, <1>25
  DEF Next, Serve, Answer, ServeReport, RunAsync

LEMMA NextFoldInv == TypeOK /\ LocalInv /\ [Next]_vars => FoldInv'
<1> SUFFICES ASSUME TypeOK, CallInv, WorkerInv, ReportInv, FoldInv, [Next]_vars PROVE FoldInv'
  BY DEF LocalInv
<1> USE DEF TypeOK, FoldInv, Reported, Terminal, store, queue, modules
<1>1. ASSUME NEW c \in Call, Reject(c) PROVE FoldInv'
  BY <1>1 DEF Reject
<1>2. ASSUME NEW c \in Call, Open(c) PROVE FoldInv'
  BY <1>2 DEF Open
<1>3. ASSUME NEW c \in Call, BeginWait(c) PROVE FoldInv'
  BY <1>3 DEF BeginWait
<1>4. ASSUME NEW c \in Call, WakeStarted(c) PROVE FoldInv'
  BY <1>4 DEF WakeStarted, Woken
<1>5. ASSUME NEW c \in Call, WakeTimedOut(c) PROVE FoldInv'
  BY <1>5 DEF WakeTimedOut, Woken
<1>6. ASSUME NEW c \in Call, WakeAgain(c) \/ Expire(c) \/ TimerFires(c)
      PROVE  FoldInv'
  BY <1>6 DEF WakeAgain, Expire, TimerFires
<1>7. ASSUME NEW c \in Call, Dispatch(c) PROVE FoldInv'
  BY <1>7 DEF Dispatch
<1>8. ASSUME NEW c \in Call, RouteFails(c) PROVE FoldInv'
  BY <1>8 DEF RouteFails
<1>9. ASSUME NEW c \in Call, NEW answer \in {"ok", "error"}, Reply(c, answer)
      PROVE  FoldInv'
  BY <1>9 DEF Reply
<1>10. ASSUME NEW c \in Call, Acknowledge(c) PROVE FoldInv'
  BY <1>10 DEF Acknowledge
<1>11. ASSUME NEW c \in Call, Complete(c) PROVE FoldInv'
  BY <1>11 DEF Complete
<1>12. ASSUME NEW c \in Call, AdvanceCall(c) PROVE FoldInv'
  BY <1>12 DEF AdvanceCall, Lock
<1>13. ASSUME NEW c \in Call, PromoteCall(c) PROVE FoldInv'
  BY <1>13 DEF PromoteCall, Promote
<1>14. ASSUME NEW c \in Call, Accept(c) PROVE FoldInv'
  BY <1>14 DEF Accept
<1>15. ASSUME NEW c \in Call, Hop(c) PROVE FoldInv'
  BY <1>15 DEF Hop
<1>16. ASSUME NEW c \in Call, HopReturns(c) PROVE FoldInv'
  BY <1>16 DEF HopReturns
<1>17. ASSUME NEW r \in Report, Record(r) PROVE FoldInv'
  <2> DEFINE w == Sender(r)
             c == Owner(w)
  <2>1. w \in Worker /\ c \in Call /\ (w = Own(c) \/ w = Side(c)) /\ (r = First(w) \/ r = Final(w))
    BY WorkerOwner, ReportSender
  <2>2. c \notin AsyncHop => r = First(w) \/ r = Final(Own(c))
    BY <1>17, <2>1 DEF Record, ReportInv
  <2>3. \A d \in Call : d # c => r # Final(Own(d))
    BY <2>1, WorkerOwner, ReportSender
  <2>4. \A d \in Call : Final(Own(d)) \in Report
    BY WorkerIndex, ReportIndex
  <2>5. folded' = [folded EXCEPT ![c] = IF r = First(w) THEN "running" ELSE outcome[w]]
    BY <1>17 DEF Record
  <2>6. serving' = [serving EXCEPT ![r] = "recorded"]
    BY <1>17 DEF Record
  <2> HIDE DEF c, w
  <2>7. \A d \in Call : Reported(d) => Reported(d)'
    BY <2>4, <2>6
  <2>8. folded'[c] \in Terminal /\ c \notin AsyncHop => Reported(c)'
    BY <2>1, <2>2, <2>4, <2>5, <2>6
  <2> QED
    BY <2>1, <2>5, <2>7, <2>8
<1>18. ASSUME NEW r \in Report, Deliver(r) PROVE FoldInv'
  BY <1>18, WorkerIndex, ReportIndex DEF Deliver
<1>19. ASSUME NEW r \in Report, AdvanceReport(r) PROVE FoldInv'
  BY <1>19 DEF AdvanceReport, Lock
<1>20. ASSUME NEW r \in Report, PromoteReport(r) PROVE FoldInv'
  BY <1>20, WorkerIndex, ReportIndex DEF PromoteReport, Promote
<1>21. ASSUME NEW w \in Worker, Announce(w) PROVE FoldInv'
  <2>1. \A c \in Call : Final(Own(c)) # First(w) /\ First(w) \in Report
    BY ReportIndex
  <2> QED
    BY <1>21, <2>1 DEF Announce
<1>22. ASSUME NEW w \in Worker, Work(w) PROVE FoldInv'
  BY <1>22 DEF Work
<1>23. ASSUME NEW w \in Worker, NEW result \in Terminal, Finish(w, result)
      PROVE  FoldInv'
  BY <1>23, WorkerIndex, ReportIndex DEF Finish, ReportInv
<1>24. ASSUME NEW m \in Module, Die(m) PROVE FoldInv'
  BY <1>24 DEF Die
<1>25. CASE Quiet \/ UNCHANGED vars
  BY <1>25 DEF Quiet, vars
<1> QED
  BY <1>1, <1>2, <1>3, <1>4, <1>5, <1>6, <1>7, <1>8, <1>9, <1>10, <1>11,
     <1>12, <1>13, <1>14, <1>15, <1>16, <1>17, <1>18, <1>19, <1>20, <1>21,
     <1>22, <1>23, <1>24, <1>25
  DEF Next, Serve, Answer, ServeReport, RunAsync

LEMMA NextTimeInv == TypeOK /\ LocalInv /\ [Next]_vars => TimeInv'
<1> SUFFICES ASSUME TypeOK, CallInv, TimeInv, [Next]_vars PROVE TimeInv'
  BY DEF LocalInv
<1> USE DEF TypeOK, TimeInv, Recorded, store, queue, modules
<1>1. ASSUME NEW c \in Call, Reject(c) PROVE TimeInv'
  BY <1>1 DEF Reject
<1>2. ASSUME NEW c \in Call, Open(c) PROVE TimeInv'
  BY <1>2 DEF Open, CallInv
<1>3. ASSUME NEW c \in Call, BeginWait(c) PROVE TimeInv'
  BY <1>3 DEF BeginWait
<1>4. ASSUME NEW c \in Call, WakeStarted(c) PROVE TimeInv'
  BY <1>4 DEF WakeStarted, Woken
<1>5. ASSUME NEW c \in Call, WakeTimedOut(c) PROVE TimeInv'
  BY <1>5 DEF WakeTimedOut, Woken
<1>6. ASSUME NEW c \in Call, WakeAgain(c) \/ Expire(c) \/ TimerFires(c)
      PROVE  TimeInv'
  BY <1>6 DEF WakeAgain, Expire, TimerFires
<1>7. ASSUME NEW c \in Call, Dispatch(c) PROVE TimeInv'
  BY <1>7 DEF Dispatch
<1>8. ASSUME NEW c \in Call, RouteFails(c) PROVE TimeInv'
  BY <1>8 DEF RouteFails
<1>9. ASSUME NEW c \in Call, NEW answer \in {"ok", "error"}, Reply(c, answer)
      PROVE  TimeInv'
  BY <1>9 DEF Reply
<1>10. ASSUME NEW c \in Call, Acknowledge(c) PROVE TimeInv'
  BY <1>10 DEF Acknowledge
<1>11. ASSUME NEW c \in Call, Complete(c) PROVE TimeInv'
  BY <1>11 DEF Complete, CallInv, InHand
<1>12. ASSUME NEW c \in Call, AdvanceCall(c) PROVE TimeInv'
  BY <1>12 DEF AdvanceCall, Lock
<1>13. ASSUME NEW c \in Call, PromoteCall(c) PROVE TimeInv'
  BY <1>13 DEF PromoteCall, Promote
<1>14. ASSUME NEW c \in Call, Accept(c) PROVE TimeInv'
  BY <1>14 DEF Accept
<1>15. ASSUME NEW c \in Call, Hop(c) PROVE TimeInv'
  BY <1>15 DEF Hop
<1>16. ASSUME NEW c \in Call, HopReturns(c) PROVE TimeInv'
  BY <1>16 DEF HopReturns
<1>17. ASSUME NEW r \in Report, Record(r) PROVE TimeInv'
  BY <1>17 DEF Record
<1>18. ASSUME NEW r \in Report, Deliver(r) PROVE TimeInv'
  BY <1>18 DEF Deliver
<1>19. ASSUME NEW r \in Report, AdvanceReport(r) PROVE TimeInv'
  BY <1>19 DEF AdvanceReport, Lock
<1>20. ASSUME NEW r \in Report, PromoteReport(r) PROVE TimeInv'
  BY <1>20 DEF PromoteReport, Promote
<1>21. ASSUME NEW w \in Worker, Announce(w) PROVE TimeInv'
  BY <1>21 DEF Announce
<1>22. ASSUME NEW w \in Worker, Work(w) PROVE TimeInv'
  BY <1>22 DEF Work
<1>23. ASSUME NEW w \in Worker, NEW result \in Terminal, Finish(w, result)
      PROVE  TimeInv'
  BY <1>23 DEF Finish
<1>24. ASSUME NEW m \in Module, Die(m) PROVE TimeInv'
  BY <1>24 DEF Die
<1>25. CASE Quiet \/ UNCHANGED vars
  BY <1>25 DEF Quiet, vars
<1> QED
  BY <1>1, <1>2, <1>3, <1>4, <1>5, <1>6, <1>7, <1>8, <1>9, <1>10, <1>11,
     <1>12, <1>13, <1>14, <1>15, <1>16, <1>17, <1>18, <1>19, <1>20, <1>21,
     <1>22, <1>23, <1>24, <1>25
  DEF Next, Serve, Answer, ServeReport, RunAsync

-----------------------------------------------------------------------------
(* Admission.                                                                *)

\* A report is on its way only for a call that has left the queue.
LEMMA ReportOfStarted ==
    ASSUME LocalInv, NEW r \in Report, serving[r] # "none"
    PROVE  LET c == Owner(Sender(r)) IN Recorded(c) /\ (c \in Job => c \in started)
<1> DEFINE w == Sender(r)
           c == Owner(w)
<1>1. w \in Worker /\ (r = First(w) \/ r = Final(w))
  BY ReportSender
<1>2. worker[w] # "none"
  BY <1>1 DEF LocalInv, ReportInv
<1>3. c \in Call /\ (w = Own(c) \/ w = Side(c))
  BY <1>1, WorkerOwner
<1>4. Dispatched(c)
  BY <1>2, <1>3 DEF LocalInv, WorkerInv
<1> QED
  BY <1>4 DEF Dispatched

\* What a plan's definition says about any two calls: those it takes are free of
\* the running ones and of each other, and none is taken before an earlier one
\* that needs no more than it does.
LEMMA PlanFacts ==
    ASSUME TypeOK, LocalInv, NEW P \in SUBSET queued, IsPlan(P, queued, Running)
    PROVE  /\ \A c \in P, d \in Running : Hold(c) \cap Hold(d) = {}
           /\ \A c, d \in P : c # d => Hold(c) \cap Hold(d) = {}
           /\ \A c \in queued \ P, d \in P :
                 queuedAt[c] < queuedAt[d] => ~(Hold(c) \subseteq Hold(d))
<1>1. \A c \in P : Hold(c) \cap (Busy(Running) \cup Busy(Before(P, c))) = {}
  BY DEF IsPlan, Admissible
<1>2. \A c \in queued \ P : Hold(c) \cap (Busy(Running) \cup Busy(Before(P, c))) # {}
  BY DEF IsPlan, Admissible
<1>3. \A C : \A d \in C : Hold(d) \subseteq Busy(C)
  BY DEF Busy
<1>4. \A c \in P : queuedAt[c] \in Nat /\ Recorded(c) /\ c \in Call
  BY DEF TypeOK, LocalInv, LockInv
<1>5. ASSUME NEW c \in P, NEW d \in Running PROVE Hold(c) \cap Hold(d) = {}
  BY <1>1, <1>3
<1>6. ASSUME NEW c \in P, NEW d \in P, queuedAt[c] < queuedAt[d]
      PROVE  Hold(c) \cap Hold(d) = {}
  <2>1. c \in Before(P, d)
    BY <1>6 DEF Before
  <2> QED
    BY <2>1, <1>1, <1>3
<1>7. ASSUME NEW c \in P, NEW d \in P, c # d PROVE Hold(c) \cap Hold(d) = {}
  <2>1. queuedAt[c] # queuedAt[d]
    BY <1>4, <1>7 DEF LocalInv, TimeInv
  <2>2. queuedAt[c] < queuedAt[d] \/ queuedAt[d] < queuedAt[c]
    BY <2>1, <1>4
  <2> QED
    BY <2>2, <1>6
<1>8. ASSUME NEW c \in queued \ P, NEW d \in P, queuedAt[c] < queuedAt[d],
             Hold(c) \subseteq Hold(d)
      PROVE  FALSE
  <2>1. queuedAt[c] \in Nat /\ queuedAt[d] \in Nat
    BY DEF TypeOK
  <2>2. Before(P, c) \subseteq Before(P, d)
    BY <2>1, <1>4, <1>8 DEF Before
  <2>3. Busy(Before(P, c)) \subseteq Busy(Before(P, d))
    BY <2>2 DEF Busy
  <2> QED
    BY <2>3, <1>1, <1>2, <1>8
<1> QED
  BY <1>5, <1>7, <1>8

LEMMA NextSnapshotInv == TypeOK /\ LocalInv /\ SnapshotInv /\ [Next]_vars => SnapshotInv'
<1> SUFFICES ASSUME TypeOK, LocalInv, SnapshotInv, [Next]_vars PROVE SnapshotInv'
  BY DEF LocalInv
<1> USE DEF SnapshotInv, Recorded, Ended, store, queue, modules
<1>1. ASSUME NEW c \in Call, Reject(c) PROVE SnapshotInv'
  BY <1>1 DEF Reject
<1>2. ASSUME NEW c \in Call, Open(c) PROVE SnapshotInv'
  BY <1>2 DEF Open, TypeOK, LocalInv, CallInv, TimeInv, LockInv, Recorded
<1>3. ASSUME NEW c \in Call, BeginWait(c) PROVE SnapshotInv'
  BY <1>3 DEF BeginWait
<1>4. ASSUME NEW c \in Call, WakeStarted(c) PROVE SnapshotInv'
  BY <1>4 DEF WakeStarted, Woken
<1>5. ASSUME NEW c \in Call, WakeTimedOut(c) PROVE SnapshotInv'
  BY <1>5 DEF WakeTimedOut, Woken
<1>6. ASSUME NEW c \in Call, WakeAgain(c) \/ Expire(c) \/ TimerFires(c)
      PROVE  SnapshotInv'
  BY <1>6 DEF WakeAgain, Expire, TimerFires
<1>7. ASSUME NEW c \in Call, Dispatch(c) PROVE SnapshotInv'
  BY <1>7 DEF Dispatch
<1>8. ASSUME NEW c \in Call, RouteFails(c) PROVE SnapshotInv'
  BY <1>8 DEF RouteFails
<1>9. ASSUME NEW c \in Call, NEW answer \in {"ok", "error"}, Reply(c, answer)
      PROVE  SnapshotInv'
  BY <1>9 DEF Reply
<1>10. ASSUME NEW c \in Call, Acknowledge(c) PROVE SnapshotInv'
  BY <1>10 DEF Acknowledge
<1>11. ASSUME NEW c \in Call, Complete(c) PROVE SnapshotInv'
  BY <1>11 DEF Complete, TypeOK, LocalInv, CallInv, InHand
<1>12. ASSUME NEW c \in Call, AdvanceCall(c) PROVE SnapshotInv'
  BY <1>12 DEF AdvanceCall, Lock, Queued, Call
<1>13. ASSUME NEW c \in Call, PromoteCall(c) PROVE SnapshotInv'
  BY <1>13 DEF PromoteCall, Promote
<1>14. ASSUME NEW c \in Call, Accept(c) PROVE SnapshotInv'
  BY <1>14 DEF Accept
<1>15. ASSUME NEW c \in Call, Hop(c) PROVE SnapshotInv'
  BY <1>15 DEF Hop
<1>16. ASSUME NEW c \in Call, HopReturns(c) PROVE SnapshotInv'
  BY <1>16 DEF HopReturns
<1>17. ASSUME NEW r \in Report, Record(r) PROVE SnapshotInv'
  <2>1. Owner(Sender(r)) \in Job => Owner(Sender(r)) \in started
    BY <1>17, ReportOfStarted DEF Record
  <2>2. \A c : c # Owner(Sender(r)) => folded'[c] = folded[c]
    BY <1>17 DEF Record, TypeOK
  <2> QED
    BY <1>17, <2>1, <2>2 DEF Record
<1>18. ASSUME NEW r \in Report, Deliver(r) PROVE SnapshotInv'
  BY <1>18 DEF Deliver
<1>19. ASSUME NEW r \in Report, AdvanceReport(r) PROVE SnapshotInv'
  BY <1>19 DEF AdvanceReport, Lock, Queued, Call
<1>20. ASSUME NEW r \in Report, PromoteReport(r) PROVE SnapshotInv'
  BY <1>20 DEF PromoteReport, Promote
<1>21. ASSUME NEW w \in Worker, Announce(w) PROVE SnapshotInv'
  BY <1>21 DEF Announce
<1>22. ASSUME NEW w \in Worker, Work(w) PROVE SnapshotInv'
  BY <1>22 DEF Work
<1>23. ASSUME NEW w \in Worker, NEW result \in Terminal, Finish(w, result)
      PROVE  SnapshotInv'
  BY <1>23 DEF Finish
<1>24. ASSUME NEW m \in Module, Die(m) PROVE SnapshotInv'
  BY <1>24 DEF Die
<1>25. CASE Quiet \/ UNCHANGED vars
  BY <1>25 DEF Quiet, vars
<1> QED
  BY <1>1, <1>2, <1>3, <1>4, <1>5, <1>6, <1>7, <1>8, <1>9, <1>10, <1>11,
     <1>12, <1>13, <1>14, <1>15, <1>16, <1>17, <1>18, <1>19, <1>20, <1>21,
     <1>22, <1>23, <1>24, <1>25
  DEF Next, Serve, Answer, ServeReport, RunAsync

\* A step that makes no job live keeps the live ones disjoint ...
LEMMA LiveShrinks ==
    ASSUME LiveDisjoint, \A c \in Simple : Live(c)' => Live(c)
    PROVE  LiveDisjoint'
  BY DEF LiveDisjoint, Hold

\* ... and a job is live only if the store counts it as running.
LEMMA LiveRuns == \A c \in Simple : Live(c) => c \in Running
  BY DEF Live, Running, Simple, Call, Recorded, Ended

\* A promotion adds jobs whose footprints are free.
LEMMA PromoteLiveDisjoint ==
    ASSUME TypeOK, LocalInv, LiveDisjoint, NEW x, Promote(x), UNCHANGED <<exchange, folded>>,
           \A c \in Simple : Reported(c) => Reported(c)'
    PROVE  LiveDisjoint'
<1>1. PICK P \in SUBSET queued : IsPlan(P, queued, Running) /\ started' = started \cup P
  BY DEF Promote
<1>2. /\ \A c \in P, d \in Running : Hold(c) \cap Hold(d) = {}
      /\ \A c, d \in P : c # d => Hold(c) \cap Hold(d) = {}
  BY <1>1, PlanFacts
<1>3. \A c \in Simple : Live(c)' => Live(c) \/ c \in P
  BY <1>1 DEF Live
<1>4. \A c, d \in Simple : c # d /\ Live(c)' /\ Live(d)' => Hold(c) \cap Hold(d) = {}
  BY <1>2, <1>3, LiveRuns DEF LiveDisjoint
<1> QED
  BY <1>4 DEF LiveDisjoint, Hold

LEMMA NextLiveDisjoint == TypeOK /\ LocalInv /\ LiveDisjoint /\ [Next]_vars => LiveDisjoint'
<1> SUFFICES ASSUME TypeOK, LocalInv, LiveDisjoint, [Next]_vars PROVE LiveDisjoint'
  OBVIOUS
<1> USE DEF store, queue, modules
<1>1. ASSUME NEW c \in Call, Reject(c) PROVE LiveDisjoint'
  BY <1>1, LiveShrinks DEF Live, Reported, Reject
<1>2. ASSUME NEW c \in Call, Open(c) PROVE LiveDisjoint'
  <2>1. \A d \in Simple : Live(d)' => Live(d)
    BY <1>2 DEF Open, TypeOK, CallInv, LocalInv, Recorded, Live, Reported, Simple, Call
  <2> QED
    BY <2>1, LiveShrinks
<1>3. ASSUME NEW c \in Call, BeginWait(c) PROVE LiveDisjoint'
  BY <1>3, LiveShrinks DEF Live, Reported, BeginWait
<1>4. ASSUME NEW c \in Call, WakeStarted(c) PROVE LiveDisjoint'
  BY <1>4, LiveShrinks DEF Live, Reported, WakeStarted, Woken
<1>5. ASSUME NEW c \in Call, WakeTimedOut(c) PROVE LiveDisjoint'
  BY <1>5, LiveShrinks DEF Live, Reported, WakeTimedOut, Woken
<1>6. ASSUME NEW c \in Call, WakeAgain(c) \/ Expire(c) \/ TimerFires(c)
      PROVE  LiveDisjoint'
  BY <1>6, LiveShrinks DEF Live, Reported, WakeAgain, Expire, TimerFires
<1>7. ASSUME NEW c \in Call, Dispatch(c) PROVE LiveDisjoint'
  BY <1>7, LiveShrinks DEF Live, Reported, Dispatch
<1>8. ASSUME NEW c \in Call, RouteFails(c) PROVE LiveDisjoint'
  BY <1>8, LiveShrinks DEF Live, Reported, RouteFails
<1>9. ASSUME NEW c \in Call, NEW answer \in {"ok", "error"}, Reply(c, answer)
      PROVE  LiveDisjoint'
  BY <1>9, LiveShrinks DEF Live, Reported, Reply
<1>10. ASSUME NEW c \in Call, Acknowledge(c) PROVE LiveDisjoint'
  BY <1>10, LiveShrinks DEF Live, Reported, Acknowledge
<1>11. ASSUME NEW c \in Call, Complete(c) PROVE LiveDisjoint'
  <2>1. \A d \in Simple : Live(d)' => Live(d)
    BY <1>11 DEF Complete, TypeOK, LocalInv, CallInv, InHand, Live, Reported, Simple, Call
  <2> QED
    BY <2>1, LiveShrinks
<1>12. ASSUME NEW c \in Call, AdvanceCall(c) PROVE LiveDisjoint'
  BY <1>12, LiveShrinks DEF Live, Reported, AdvanceCall, Lock
<1>13. ASSUME NEW c \in Call, PromoteCall(c) PROVE LiveDisjoint'
  BY <1>13, PromoteLiveDisjoint DEF PromoteCall, Reported
<1>14. ASSUME NEW c \in Call, Accept(c) PROVE LiveDisjoint'
  BY <1>14, LiveShrinks DEF Live, Reported, Accept
<1>15. ASSUME NEW c \in Call, Hop(c) PROVE LiveDisjoint'
  BY <1>15, LiveShrinks DEF Live, Reported, Hop
<1>16. ASSUME NEW c \in Call, HopReturns(c) PROVE LiveDisjoint'
  BY <1>16, LiveShrinks DEF Live, Reported, HopReturns
<1>17. ASSUME NEW r \in Report, Record(r) PROVE LiveDisjoint'
  <2>1. \A c \in Simple : Reported(c) => Reported(c)'
    BY <1>17 DEF Record, TypeOK, Reported
  <2>2. \A c \in Simple : folded[c] \in Terminal => Reported(c)
    BY DEF LocalInv, FoldInv, Simple, Call
  <2>3. \A c \in Simple : Live(c)' => Live(c)
    BY <1>17, <2>1, <2>2 DEF Record, Live
  <2> QED
    BY <2>3, LiveShrinks
<1>18. ASSUME NEW r \in Report, Deliver(r) PROVE LiveDisjoint'
  <2>1. \A c \in Simple : Reported(c) => Reported(c)'
    BY <1>18 DEF Deliver, TypeOK, Reported
  <2>2. \A c \in Simple : Live(c)' => Live(c)
    BY <1>18, <2>1 DEF Deliver, Live
  <2> QED
    BY <2>2, LiveShrinks
<1>19. ASSUME NEW r \in Report, AdvanceReport(r) PROVE LiveDisjoint'
  BY <1>19, LiveShrinks DEF Live, Reported, AdvanceReport, Lock
<1>20. ASSUME NEW r \in Report, PromoteReport(r) PROVE LiveDisjoint'
  <2>1. \A c \in Simple : Reported(c) => Reported(c)'
    BY <1>20 DEF PromoteReport, TypeOK, Reported
  <2> QED
    BY <1>20, <2>1, PromoteLiveDisjoint DEF PromoteReport
<1>21. ASSUME NEW w \in Worker, Announce(w) PROVE LiveDisjoint'
  <2>1. \A c \in Simple : Reported(c) => Reported(c)'
    BY <1>21, ReportIndex, WorkerIndex DEF Announce, TypeOK, Reported, Simple, Call
  <2>2. \A c \in Simple : Live(c)' => Live(c)
    BY <1>21, <2>1 DEF Announce, Live
  <2> QED
    BY <2>2, LiveShrinks
<1>22. ASSUME NEW w \in Worker, Work(w) PROVE LiveDisjoint'
  BY <1>22, LiveShrinks DEF Live, Reported, Work
<1>23. ASSUME NEW w \in Worker, NEW result \in Terminal, Finish(w, result)
      PROVE  LiveDisjoint'
  <2>1. \A c \in Simple : Reported(c) => Reported(c)'
    BY <1>23 DEF Finish, LocalInv, ReportInv, TypeOK, Reported
  <2>2. \A c \in Simple : Live(c)' => Live(c)
    BY <1>23, <2>1 DEF Finish, Live
  <2> QED
    BY <2>2, LiveShrinks
<1>24. ASSUME NEW m \in Module, Die(m) PROVE LiveDisjoint'
  BY <1>24, LiveShrinks DEF Live, Reported, Die
<1>25. CASE Quiet \/ UNCHANGED vars
  BY <1>25, LiveShrinks DEF Quiet, vars, Live, Reported
<1> QED
  BY <1>1, <1>2, <1>3, <1>4, <1>5, <1>6, <1>7, <1>8, <1>9, <1>10, <1>11,
     <1>12, <1>13, <1>14, <1>15, <1>16, <1>17, <1>18, <1>19, <1>20, <1>21,
     <1>22, <1>23, <1>24, <1>25
  DEF Next, Serve, Answer, ServeReport, RunAsync

\* A promotion overtakes no job that waits with a smaller need.
LEMMA PromoteNotOvertaken ==
    ASSUME TypeOK, LocalInv, SnapshotInv, NotOvertaken, NEW x, Promote(x),
           UNCHANGED <<exchange, folded, queuedAt>>
    PROVE  NotOvertaken'
<1>1. PICK P \in SUBSET queued : IsPlan(P, queued, Running) /\ started' = started \cup P
  BY DEF Promote
<1>2. \A c \in queued \ P, d \in P :
         queuedAt[c] < queuedAt[d] => ~(Hold(c) \subseteq Hold(d))
  BY <1>1, PlanFacts
<1>3. admitMu # {}
  BY DEF Promote
<1>4. \A c : (Recorded(c) <=> Recorded(c)') /\ (Ended(c) <=> Ended(c)') /\ Hold(c)' = Hold(c)
  BY DEF Recorded, Ended, Hold
<1> SUFFICES ASSUME NEW c \in Job, NEW d \in Job, Recorded(c), queuedAt[c] < queuedAt[d],
                    Hold(c) \subseteq Hold(d), d \in started'
             PROVE  c \in started' \/ Ended(c)
  BY <1>4 DEF NotOvertaken
<1>5. CASE d \in started
  BY <1>1, <1>5 DEF NotOvertaken
<1>6. CASE d \in P
  <2>1. c \in started \/ Ended(c) \/ c \in queued
    BY <1>3, <1>6 DEF SnapshotInv
  <2> QED
    BY <1>1, <1>2, <1>6, <2>1
<1> QED
  BY <1>1, <1>5, <1>6

LEMMA NextNotOvertaken == TypeOK /\ LocalInv /\ SnapshotInv /\ NotOvertaken /\ [Next]_vars => NotOvertaken'
<1> SUFFICES ASSUME TypeOK, LocalInv, SnapshotInv, NotOvertaken, [Next]_vars PROVE NotOvertaken'
  OBVIOUS
<1> USE DEF NotOvertaken, Recorded, Ended, Hold, store, queue, modules
<1>1. ASSUME NEW c \in Call, Reject(c) PROVE NotOvertaken'
  BY <1>1 DEF Reject
<1>2. ASSUME NEW c \in Call, Open(c) PROVE NotOvertaken'
  <2>1. \A d \in Job : d \in started => d # c /\ queuedAt[d] < clock
    BY <1>2 DEF Open, TypeOK, LocalInv, CallInv, TimeInv, Recorded, Call
  <2> QED
    BY <1>2, <2>1 DEF Open, TypeOK, Call
<1>3. ASSUME NEW c \in Call, BeginWait(c) PROVE NotOvertaken'
  BY <1>3 DEF BeginWait
<1>4. ASSUME NEW c \in Call, WakeStarted(c) PROVE NotOvertaken'
  BY <1>4 DEF WakeStarted, Woken
<1>5. ASSUME NEW c \in Call, WakeTimedOut(c) PROVE NotOvertaken'
  BY <1>5 DEF WakeTimedOut, Woken
<1>6. ASSUME NEW c \in Call, WakeAgain(c) \/ Expire(c) \/ TimerFires(c)
      PROVE  NotOvertaken'
  BY <1>6 DEF WakeAgain, Expire, TimerFires
<1>7. ASSUME NEW c \in Call, Dispatch(c) PROVE NotOvertaken'
  BY <1>7 DEF Dispatch
<1>8. ASSUME NEW c \in Call, RouteFails(c) PROVE NotOvertaken'
  BY <1>8 DEF RouteFails
<1>9. ASSUME NEW c \in Call, NEW answer \in {"ok", "error"}, Reply(c, answer)
      PROVE  NotOvertaken'
  BY <1>9 DEF Reply
<1>10. ASSUME NEW c \in Call, Acknowledge(c) PROVE NotOvertaken'
  BY <1>10 DEF Acknowledge
<1>11. ASSUME NEW c \in Call, Complete(c) PROVE NotOvertaken'
  BY <1>11 DEF Complete, TypeOK, LocalInv, CallInv, InHand, Call
<1>12. ASSUME NEW c \in Call, AdvanceCall(c) PROVE NotOvertaken'
  BY <1>12 DEF AdvanceCall, Lock
<1>13. ASSUME NEW c \in Call, PromoteCall(c) PROVE NotOvertaken'
  BY <1>13, PromoteNotOvertaken DEF PromoteCall
<1>14. ASSUME NEW c \in Call, Accept(c) PROVE NotOvertaken'
  BY <1>14 DEF Accept
<1>15. ASSUME NEW c \in Call, Hop(c) PROVE NotOvertaken'
  BY <1>15 DEF Hop
<1>16. ASSUME NEW c \in Call, HopReturns(c) PROVE NotOvertaken'
  BY <1>16 DEF HopReturns
<1>17. ASSUME NEW r \in Report, Record(r) PROVE NotOvertaken'
  <2>1. Owner(Sender(r)) \in Job => Owner(Sender(r)) \in started
    BY <1>17, ReportOfStarted DEF Record
  <2>2. \A c : c # Owner(Sender(r)) => folded'[c] = folded[c]
    BY <1>17 DEF Record, TypeOK
  <2> QED
    BY <1>17, <2>1, <2>2 DEF Record
<1>18. ASSUME NEW r \in Report, Deliver(r) PROVE NotOvertaken'
  BY <1>18 DEF Deliver
<1>19. ASSUME NEW r \in Report, AdvanceReport(r) PROVE NotOvertaken'
  BY <1>19 DEF AdvanceReport, Lock
<1>20. ASSUME NEW r \in Report, PromoteReport(r) PROVE NotOvertaken'
  BY <1>20, PromoteNotOvertaken DEF PromoteReport
<1>21. ASSUME NEW w \in Worker, Announce(w) PROVE NotOvertaken'
  BY <1>21 DEF Announce
<1>22. ASSUME NEW w \in Worker, Work(w) PROVE NotOvertaken'
  BY <1>22 DEF Work
<1>23. ASSUME NEW w \in Worker, NEW result \in Terminal, Finish(w, result)
      PROVE  NotOvertaken'
  BY <1>23 DEF Finish
<1>24. ASSUME NEW m \in Module, Die(m) PROVE NotOvertaken'
  BY <1>24 DEF Die
<1>25. CASE Quiet \/ UNCHANGED vars
  BY <1>25 DEF Quiet, vars
<1> QED
  BY <1>1, <1>2, <1>3, <1>4, <1>5, <1>6, <1>7, <1>8, <1>9, <1>10, <1>11,
     <1>12, <1>13, <1>14, <1>15, <1>16, <1>17, <1>18, <1>19, <1>20, <1>21,
     <1>22, <1>23, <1>24, <1>25
  DEF Next, Serve, Answer, ServeReport, RunAsync

-----------------------------------------------------------------------------
(* The theorems.                                                            *)

LEMMA InitIInv == Init => IInv
<1> SUFFICES ASSUME Init PROVE IInv
  OBVIOUS
<1>1. TypeOK /\ LocalInv
  BY InitTypeOK, InitLocalInv
<1>2. SnapshotInv
  BY DEF Init, SnapshotInv
<1>3. LiveDisjoint
  BY DEF Init, LiveDisjoint, Live
<1>4. NotOvertaken
  BY DEF Init, NotOvertaken
<1> QED
  BY <1>1, <1>2, <1>3, <1>4 DEF IInv

LEMMA NextIInv == IInv /\ [Next]_vars => IInv'
<1> SUFFICES ASSUME IInv, [Next]_vars PROVE IInv'
  OBVIOUS
<1> USE DEF IInv
<1>1. TypeOK'
  BY NextTypeOK
<1>2. CallInv' /\ WorkerInv' /\ ReportInv'
  BY NextCallInv, NextWorkerInv, NextReportInv
<1>3. FoldInv' /\ TimeInv' /\ LockInv'
  BY NextFoldInv, NextTimeInv, NextLockInv
<1>4. LocalInv'
  BY <1>2, <1>3 DEF LocalInv
<1>5. SnapshotInv'
  BY NextSnapshotInv
<1>6. LiveDisjoint'
  BY NextLiveDisjoint
<1>7. NotOvertaken'
  BY NextNotOvertaken
<1> QED
  BY <1>1, <1>4, <1>5, <1>6, <1>7

LEMMA BrokerInvariant == Spec => []IInv
  BY InitIInv, NextIInv, PTL DEF Spec

\* A job at work is live: its record is open or acknowledged, and the terminal
\* report that would end it has not been sent.
LEMMA ExecutingIsLive ==
    ASSUME IInv, NEW c \in Simple, Executing(c)
    PROVE  Live(c)
<1>1. c \in Call /\ c \in Job /\ c \notin AsyncHop /\ Own(c) \in Worker
  BY WorkerIndex DEF Simple, Call
<1>2. worker[Own(c)] # "gone" /\ c \in started /\ exchange[c] \in {"open", "accepted"}
  <2>1. CASE c \in Async
    <3>1. worker[Own(c)] \in AtWork
      BY <2>1 DEF Executing, AtWork
    <3>2. Dispatched(c)
      BY <1>1, <3>1 DEF IInv, LocalInv, WorkerInv, AtWork
    <3>3. pc[c] \in {"called", "respond"} \/ exchange[c] = "accepted"
      BY <1>1, <3>1 DEF IInv, LocalInv, WorkerInv
    <3> QED
      BY <1>1, <3>1, <3>2, <3>3 DEF IInv, LocalInv, CallInv, InHand, AtWork, Dispatched
  <2>2. CASE c \notin Async
    <3>1. pc[c] = "called" /\ worker[Own(c)] = "none"
      BY <1>1, <2>2 DEF Executing, IInv, LocalInv, WorkerInv
    <3> QED
      BY <1>1, <3>1 DEF IInv, LocalInv, CallInv, InHand
  <2> QED
    BY <2>1, <2>2
<1>3. serving[Final(Own(c))] = "none"
  BY <1>1, <1>2 DEF IInv, LocalInv, ReportInv
<1>4. ~Reported(c)
  BY <1>3 DEF Reported
<1>5. folded[c] \notin Terminal
  BY <1>1, <1>4 DEF IInv, LocalInv, FoldInv
<1> QED
  BY <1>2, <1>4, <1>5 DEF Live

\* Every variable of the broker keeps to the values the code can give it.
THEOREM TypeCorrect == Spec => []TypeOK
<1>1. IInv => TypeOK
  BY DEF IInv
<1> QED
  BY <1>1, BrokerInvariant, PTL

\* While a job's handler is at work - inside the invoke, or in the background
\* after its ack - the store derives the job as running, whatever dies and
\* whichever replies are given up on: gate.Busy and advance() see its footprint.
THEOREM HeldThroughout == Spec => []HeldWhileExecuting
<1>1. IInv => HeldWhileExecuting
  BY ExecutingIsLive, LiveRuns DEF HeldWhileExecuting
<1> QED
  BY <1>1, BrokerInvariant, PTL

\* Jobs whose footprints share a module never have their handlers at work at the
\* same time, although queue and running set are read in two steps while hops,
\* acks, reports and deaths go on.
THEOREM JobsSerialized == Spec => []Serialized
<1>1. IInv => Serialized
  BY ExecutingIsLive DEF Serialized, IInv, LiveDisjoint
<1> QED
  BY <1>1, BrokerInvariant, PTL

\* First come, first served among jobs whose needs are nested: planPromotions
\* lets no job past an earlier one that needs no more than it does.
THEOREM NoOvertaking == Spec => []NotOvertaken
<1>1. IInv => NotOvertaken
  BY DEF IInv
<1> QED
  BY <1>1, BrokerInvariant, PTL

-----------------------------------------------------------------------------
(* No job is stranded.                                                       *)

\* While a pass has the lock, a queued job it has not read is one that has yet to
\* make its own pass, and so is, on its way out, one that it has read and that has
\* ended since.
PassInv ==
    /\ \A c \in Job : c \notin started => folded[c] = "none"
    /\ admitMu # {} => \A c \in Job :
           /\ c \in Queued \ queued => pc[c] = "enqueue" /\ c \notin admitMu
           /\ c \in queued => /\ c \notin started
                              /\ Ended(c) => pc[c] = "release" /\ c \notin admitMu

\* A step after which as much is held and no more waits strands nobody ...
LEMMA StillBlocked ==
    ASSUME NoStrandedJob, AdvancePending => AdvancePending',
           Queued' \cap Job \subseteq Queued, Running \subseteq Running'
    PROVE  NoStrandedJob'
<1>1. Busy(Running) \subseteq Busy(Running')
  BY DEF Busy
<1>2. Busy(Running)' = Busy(Running')
  BY DEF Busy, Hold
<1>3. \A c, B : Admissible(Hold(c), B)' <=> Admissible(Hold(c), B)
  BY DEF Admissible, Hold
<1> QED BY <1>1, <1>2, <1>3 DEF NoStrandedJob, Admissible

\* ... and neither does a promotion, unless another pass is on its way.
LEMMA PromoteBlocks ==
    ASSUME TypeOK, LocalInv, PassInv, Stray = {}, NEW x, Promote(x),
           UNCHANGED <<exchange, folded>>,
           \A c \in Call : c # x => pc'[c] = pc[c]
    PROVE  NoStrandedJob'
<1>1. PICK P \in SUBSET queued : IsPlan(P, queued, Running) /\ started' = started \cup P
  BY DEF Promote
<1>2. /\ \A c : (Recorded(c)' <=> Recorded(c)) /\ (Ended(c)' <=> Ended(c))
      /\ Call = Job /\ admitMu = {x}
  BY DEF Recorded, Ended, Call, Promote
<1> SUFFICES ASSUME ~AdvancePending', NEW c \in Queued', c \in Job, Admissible(Hold(c), Busy(Running))'
             PROVE  FALSE
  BY DEF NoStrandedJob
<1>3. c \in Queued /\ c \notin P
  BY <1>1, <1>2 DEF Queued
<1>4. c \in queued
  BY <1>2, <1>3 DEF PassInv, AdvancePending
<1>5. P \subseteq Running'
  <2> SUFFICES ASSUME NEW p \in P PROVE p \in Running'
    OBVIOUS
  <2>1. p \in Job /\ Recorded(p)
    BY <1>2 DEF TypeOK, LocalInv, LockInv
  <2>2. ~Ended(p)
    BY <1>2, <2>1 DEF PassInv, AdvancePending
  <2> QED BY <1>1, <1>2, <2>1, <2>2 DEF Running
<1>6. Running \subseteq Running'
  BY <1>1, <1>2 DEF Running
<1>7. Busy(Running) \cup Busy(Before(P, c)) \subseteq Busy(Running')
  BY <1>5, <1>6 DEF Busy, Before
<1>8. ~Admissible(Hold(c), Busy(Running) \cup Busy(Before(P, c)))
  BY <1>1, <1>3, <1>4 DEF IsPlan
<1>9. Admissible(Hold(c), Busy(Running'))
  BY DEF Admissible, Busy, Hold
<1> QED BY <1>7, <1>8, <1>9 DEF Admissible

\* Every step keeps what a pass relies on.
LEMMA NextPassInv == Stray = {} /\ TypeOK /\ LocalInv /\ PassInv /\ [Next]_vars => PassInv'
<1> SUFFICES ASSUME Stray = {}, TypeOK, LocalInv, PassInv, [Next]_vars PROVE PassInv'
  OBVIOUS
<1> USE DEF PassInv, Queued, Recorded, Ended, store, queue, modules
<1>1. ASSUME NEW c \in Call, Reject(c) PROVE PassInv'
  BY <1>1 DEF TypeOK, Reject
<1>2. ASSUME NEW c \in Call, Open(c) PROVE PassInv'
  BY <1>2 DEF TypeOK, LocalInv, CallInv, LockInv, Call, Open
<1>3. ASSUME NEW c \in Call, BeginWait(c) PROVE PassInv'
  BY <1>3 DEF TypeOK, BeginWait
<1>4. ASSUME NEW c \in Call, WakeStarted(c) PROVE PassInv'
  BY <1>4 DEF TypeOK, WakeStarted, Woken
<1>5. ASSUME NEW c \in Call, WakeTimedOut(c) PROVE PassInv'
  BY <1>5 DEF TypeOK, WakeTimedOut, Woken
<1>6. ASSUME NEW c \in Call, WakeAgain(c) \/ Expire(c) \/ TimerFires(c) PROVE PassInv'
  BY <1>6 DEF TypeOK, WakeAgain, Expire, TimerFires
<1>7. ASSUME NEW c \in Call, Dispatch(c) PROVE PassInv'
  BY <1>7 DEF TypeOK, Dispatch
<1>8. ASSUME NEW c \in Call, RouteFails(c) PROVE PassInv'
  BY <1>8 DEF TypeOK, RouteFails
<1>9. ASSUME NEW c \in Call, NEW answer \in {"ok", "error"}, Reply(c, answer) PROVE PassInv'
  BY <1>9 DEF TypeOK, Reply
<1>10. ASSUME NEW c \in Call, Acknowledge(c) PROVE PassInv'
  BY <1>10 DEF TypeOK, Acknowledge
<1>11. ASSUME NEW c \in Call, Complete(c) PROVE PassInv'
  BY <1>11 DEF TypeOK, LocalInv, CallInv, LockInv, InHand, Call, Complete
<1>12. ASSUME NEW c \in Call, AdvanceCall(c) PROVE PassInv'
  BY <1>12 DEF TypeOK, AdvanceCall, Lock
<1>13. ASSUME NEW c \in Call, PromoteCall(c) PROVE PassInv'
  BY <1>13 DEF TypeOK, PromoteCall, Promote
<1>14. ASSUME NEW c \in Call, Accept(c) PROVE PassInv'
  BY <1>14 DEF TypeOK, Accept
<1>15. ASSUME NEW c \in Call, Hop(c) PROVE PassInv'
  BY <1>15 DEF TypeOK, Hop
<1>16. ASSUME NEW c \in Call, HopReturns(c) PROVE PassInv'
  BY <1>16 DEF TypeOK, HopReturns
<1>17. ASSUME NEW r \in Report, Record(r) PROVE PassInv'
  <2>1. Owner(Sender(r)) \in Job => Owner(Sender(r)) \in started
    BY <1>17, ReportOfStarted DEF Record
  <2>2. \A c : c # Owner(Sender(r)) => folded'[c] = folded[c]
    BY <1>17 DEF Record, TypeOK
  <2> QED
    BY <1>17, <2>1, <2>2 DEF Record
<1>18. ASSUME NEW r \in Report, Deliver(r) PROVE PassInv'
  BY <1>18 DEF TypeOK, Deliver
<1>19. ASSUME NEW r \in Report, AdvanceReport(r) PROVE PassInv'
  BY <1>19 DEF TypeOK, AdvanceReport, Lock
<1>20. ASSUME NEW r \in Report, PromoteReport(r) PROVE PassInv'
  BY <1>20 DEF TypeOK, PromoteReport, Promote
<1>21. ASSUME NEW w \in Worker, Announce(w) PROVE PassInv'
  BY <1>21 DEF TypeOK, Announce
<1>22. ASSUME NEW w \in Worker, Work(w) PROVE PassInv'
  BY <1>22 DEF TypeOK, Work
<1>23. ASSUME NEW w \in Worker, NEW result \in Terminal, Finish(w, result) PROVE PassInv'
  BY <1>23 DEF TypeOK, Finish
<1>24. ASSUME NEW m \in Module, Die(m) PROVE PassInv'
  BY <1>24 DEF TypeOK, Die
<1>25. CASE Quiet \/ UNCHANGED vars
  BY <1>25 DEF TypeOK, Quiet, vars
<1> QED
  BY <1>1, <1>2, <1>3, <1>4, <1>5, <1>6, <1>7, <1>8, <1>9, <1>10, <1>11,
     <1>12, <1>13, <1>14, <1>15, <1>16, <1>17, <1>18, <1>19, <1>20, <1>21,
     <1>22, <1>23, <1>24, <1>25
  DEF Next, Serve, Answer, ServeReport, RunAsync

\* Every step that frees a footprint or adds a job has a pass behind it.
LEMMA NextNoStrandedJob ==
    Stray = {} /\ TypeOK /\ LocalInv /\ PassInv /\ NoStrandedJob /\ [Next]_vars => NoStrandedJob'
<1> SUFFICES ASSUME Stray = {}, TypeOK, LocalInv, PassInv, NoStrandedJob, [Next]_vars PROVE NoStrandedJob'
  OBVIOUS
<1> USE DEF store, queue, modules
<1>1. ASSUME NEW c \in Call, Reject(c) PROVE NoStrandedJob'
  BY <1>1, StillBlocked DEF AdvancePending, Queued, Running, Recorded, Ended, Reject
<1>2. ASSUME NEW c \in Call, Open(c) PROVE NoStrandedJob'
  <2>1. pc'[c] = "enqueue"
    BY <1>2 DEF Open, TypeOK, Call
  <2> QED
    BY <2>1 DEF NoStrandedJob, AdvancePending
<1>3. ASSUME NEW c \in Call, BeginWait(c) PROVE NoStrandedJob'
  BY <1>3, StillBlocked DEF AdvancePending, Queued, Running, Recorded, Ended, BeginWait, TypeOK
<1>4. ASSUME NEW c \in Call, WakeStarted(c) PROVE NoStrandedJob'
  BY <1>4, StillBlocked DEF AdvancePending, Queued, Running, Recorded, Ended, WakeStarted, Woken
<1>5. ASSUME NEW c \in Call, WakeTimedOut(c) PROVE NoStrandedJob'
  BY <1>5, StillBlocked DEF AdvancePending, Queued, Running, Recorded, Ended, WakeTimedOut, Woken
<1>6. ASSUME NEW c \in Call, WakeAgain(c) \/ Expire(c) \/ TimerFires(c) PROVE NoStrandedJob'
  BY <1>6, StillBlocked DEF AdvancePending, Queued, Running, Recorded, Ended, WakeAgain, Expire, TimerFires
<1>7. ASSUME NEW c \in Call, Dispatch(c) PROVE NoStrandedJob'
  BY <1>7, StillBlocked DEF AdvancePending, Queued, Running, Recorded, Ended, Dispatch
<1>8. ASSUME NEW c \in Call, RouteFails(c) PROVE NoStrandedJob'
  BY <1>8, StillBlocked DEF AdvancePending, Queued, Running, Recorded, Ended, RouteFails
<1>9. ASSUME NEW c \in Call, NEW answer \in {"ok", "error"}, Reply(c, answer) PROVE NoStrandedJob'
  BY <1>9, StillBlocked DEF AdvancePending, Queued, Running, Recorded, Ended, Reply
<1>10. ASSUME NEW c \in Call, Acknowledge(c) PROVE NoStrandedJob'
  BY <1>10, StillBlocked DEF AdvancePending, Queued, Running, Recorded, Ended, Acknowledge
<1>11. ASSUME NEW c \in Call, Complete(c) PROVE NoStrandedJob'
  <2>1. pc'[c] = "release"
    BY <1>11 DEF Complete, TypeOK, Call
  <2> QED
    BY <2>1 DEF NoStrandedJob, AdvancePending
<1>12. ASSUME NEW c \in Call, AdvanceCall(c) PROVE NoStrandedJob'
  BY <1>12, StillBlocked DEF AdvancePending, Queued, Running, Recorded, Ended, AdvanceCall, Lock
<1>13. ASSUME NEW c \in Call, PromoteCall(c) PROVE NoStrandedJob'
  BY <1>13, PromoteBlocks DEF PromoteCall, TypeOK
<1>14. ASSUME NEW c \in Call, Accept(c) PROVE NoStrandedJob'
  BY <1>14, StillBlocked DEF AdvancePending, Queued, Running, Recorded, Ended, Accept
<1>15. ASSUME NEW c \in Call, Hop(c) PROVE NoStrandedJob'
  BY <1>15, StillBlocked DEF AdvancePending, Queued, Running, Recorded, Ended, Hop
<1>16. ASSUME NEW c \in Call, HopReturns(c) PROVE NoStrandedJob'
  BY <1>16, StillBlocked DEF AdvancePending, Queued, Running, Recorded, Ended, HopReturns
<1>17. ASSUME NEW r \in Report, Record(r) PROVE NoStrandedJob'
  <2> DEFINE w == Sender(r)
  <2>1. w \in Worker /\ Owner(w) \in Call /\ (r = First(w) \/ r = Final(w))
    BY ReportSender, WorkerOwner
  <2>2. CASE r = Final(w)
    <3>1. serving'[Final(w)] = "recorded"
      BY <1>17, <2>2 DEF Record, TypeOK
    <3> QED
      BY <2>1, <3>1 DEF NoStrandedJob, AdvancePending
  <2>3. CASE r = First(w)
    <3>1. Owner(w) \in started
      BY <1>17, <2>1, ReportOfStarted DEF Record, Call
    <3>2. /\ UNCHANGED <<exchange, started, admitMu, pc>>
          /\ folded' = [folded EXCEPT ![Owner(w)] = "running"]
          /\ \A v \in Worker : serving'[Final(v)] = serving[Final(v)]
      BY <1>17, <2>3, ReportIndex DEF Record, TypeOK
    <3>3. Queued' \subseteq Queued
      BY <2>1, <3>1, <3>2 DEF Queued, Recorded, Ended, TypeOK
    <3>4. Running \subseteq Running'
      BY <3>2 DEF Running, Recorded, Ended, TypeOK, Terminal
    <3> QED
      BY <3>2, <3>3, <3>4, StillBlocked DEF AdvancePending
  <2> QED
    BY <2>1, <2>2, <2>3
<1>18. ASSUME NEW r \in Report, Deliver(r) PROVE NoStrandedJob'
  <2>1. \A v \in Worker : serving[Final(v)] \in {"recorded", "advance"} => serving'[Final(v)] \in {"recorded", "advance"}
    BY <1>18, ReportIndex, ReportSender DEF Deliver, TypeOK
  <2> QED
    BY <1>18, <2>1, StillBlocked DEF AdvancePending, Queued, Running, Recorded, Ended, Deliver
<1>19. ASSUME NEW r \in Report, AdvanceReport(r) PROVE NoStrandedJob'
  BY <1>19, StillBlocked DEF AdvancePending, Queued, Running, Recorded, Ended, AdvanceReport, Lock
<1>20. ASSUME NEW r \in Report, PromoteReport(r) PROVE NoStrandedJob'
  BY <1>20, PromoteBlocks DEF PromoteReport
<1>21. ASSUME NEW w \in Worker, Announce(w) PROVE NoStrandedJob'
  <2>1. \A v \in Worker : serving'[Final(v)] = serving[Final(v)]
    BY <1>21, ReportIndex DEF Announce, TypeOK
  <2> QED
    BY <1>21, <2>1, StillBlocked DEF AdvancePending, Queued, Running, Recorded, Ended, Announce
<1>22. ASSUME NEW w \in Worker, Work(w) PROVE NoStrandedJob'
  BY <1>22, StillBlocked DEF AdvancePending, Queued, Running, Recorded, Ended, Work
<1>23. ASSUME NEW w \in Worker, NEW result \in Terminal, Finish(w, result) PROVE NoStrandedJob'
  <2>1. \A v \in Worker : serving[Final(v)] \in {"recorded", "advance"} => serving'[Final(v)] = serving[Final(v)]
    BY <1>23, ReportIndex DEF Finish, TypeOK, LocalInv, ReportInv
  <2> QED
    BY <1>23, <2>1, StillBlocked DEF AdvancePending, Queued, Running, Recorded, Ended, Finish
<1>24. ASSUME NEW m \in Module, Die(m) PROVE NoStrandedJob'
  BY <1>24, StillBlocked DEF AdvancePending, Queued, Running, Recorded, Ended, Die
<1>25. CASE Quiet \/ UNCHANGED vars
  BY <1>25, StillBlocked DEF AdvancePending, Queued, Running, Recorded, Ended, Quiet, vars
<1> QED
  BY <1>1, <1>2, <1>3, <1>4, <1>5, <1>6, <1>7, <1>8, <1>9, <1>10, <1>11,
     <1>12, <1>13, <1>14, <1>15, <1>16, <1>17, <1>18, <1>19, <1>20, <1>21,
     <1>22, <1>23, <1>24, <1>25
  DEF Next, Serve, Answer, ServeReport, RunAsync

\* No job is left in the queue while its footprint is free and no pass is on its
\* way, whatever dies, is given up on or is left running, provided modules make
\* their calls under the token of the job they work on: every event that frees a
\* footprint or adds a job is followed by an advance() that sees it.
THEOREM NoneStranded == ASSUME Stray = {} PROVE Spec => []NoStrandedJob
<1>1. Init => PassInv /\ NoStrandedJob
  BY DEF Init, PassInv, NoStrandedJob, Queued, Recorded, Call
<1>2. IInv => TypeOK /\ LocalInv
  BY DEF IInv
<1>3. TypeOK /\ LocalInv /\ PassInv /\ [Next]_vars => PassInv'
  BY NextPassInv
<1>4. TypeOK /\ LocalInv /\ PassInv /\ NoStrandedJob /\ [Next]_vars => NoStrandedJob'
  BY NextNoStrandedJob
<1> QED
  BY <1>1, <1>2, <1>3, <1>4, BrokerInvariant, PTL DEF Spec

------------------------------------------------------------------------------
(***************************************************************************)
(* The broker's queue implements Admission when every module waits for the *)
(* reply to each report it sends, and no handler starts an async           *)
(* capability elsewhere: then a job's reports arrive in the order they     *)
(* were sent, and nothing takes back the end of a job.                     *)
(*                                                                         *)
(* While no process dies either, a hop keeps to the footprint of its job,  *)
(* and a job ends in one way, which the face is told.                      *)
(***************************************************************************)

\* A worker goes on, and sends its terminal report, only once its running report
\* is answered; that terminal report says how the handler ended.
OrderInv ==
    /\ \A c \in Call :
           serving[Final(Own(c))] # "none" \/ worker[Own(c)] = "working"
               => serving[First(Own(c))] = "answered"
    /\ \A w \in Worker : serving[Final(w)] # "none" => outcome[w] \in Terminal

RInv == TypeOK /\ LocalInv /\ OrderInv

Orderly == AsyncHop = {} /\ ReplyTimeout = FALSE

LEMMA NextOrderInv == Orderly /\ TypeOK /\ LocalInv /\ OrderInv /\ [Next]_vars => OrderInv'
<1> SUFFICES ASSUME Orderly, TypeOK, LocalInv, OrderInv, [Next]_vars PROVE OrderInv'
  OBVIOUS
<1> USE DEF TypeOK, OrderInv, store, queue, modules
<1>1. ASSUME NEW c \in Call, Reject(c) PROVE OrderInv'
  BY <1>1 DEF Reject
<1>2. ASSUME NEW c \in Call, Open(c) PROVE OrderInv'
  BY <1>2 DEF Open
<1>3. ASSUME NEW c \in Call, BeginWait(c) PROVE OrderInv'
  BY <1>3 DEF BeginWait
<1>4. ASSUME NEW c \in Call, WakeStarted(c) PROVE OrderInv'
  BY <1>4 DEF WakeStarted, Woken
<1>5. ASSUME NEW c \in Call, WakeTimedOut(c) PROVE OrderInv'
  BY <1>5 DEF WakeTimedOut, Woken
<1>6. ASSUME NEW c \in Call, WakeAgain(c) \/ Expire(c) \/ TimerFires(c)
      PROVE  OrderInv'
  BY <1>6 DEF WakeAgain, Expire, TimerFires
<1>7. ASSUME NEW c \in Call, Dispatch(c) PROVE OrderInv'
  BY <1>7 DEF Dispatch
<1>8. ASSUME NEW c \in Call, RouteFails(c) PROVE OrderInv'
  BY <1>8 DEF RouteFails
<1>9. ASSUME NEW c \in Call, NEW answer \in {"ok", "error"}, Reply(c, answer)
      PROVE  OrderInv'
  BY <1>9 DEF Reply
<1>10. ASSUME NEW c \in Call, Acknowledge(c) PROVE OrderInv'
  BY <1>10 DEF Acknowledge
<1>11. ASSUME NEW c \in Call, Complete(c) PROVE OrderInv'
  BY <1>11 DEF Complete
<1>12. ASSUME NEW c \in Call, AdvanceCall(c) PROVE OrderInv'
  BY <1>12 DEF AdvanceCall, Lock
<1>13. ASSUME NEW c \in Call, PromoteCall(c) PROVE OrderInv'
  BY <1>13 DEF PromoteCall, Promote
<1>14. ASSUME NEW c \in Call, Accept(c) PROVE OrderInv'
  BY <1>14 DEF Accept
<1>15. ASSUME NEW c \in Call, Hop(c) PROVE OrderInv'
  BY <1>15, WorkerIndex DEF Hop
<1>16. ASSUME NEW c \in Call, HopReturns(c) PROVE OrderInv'
  BY <1>16 DEF HopReturns
<1>17. ASSUME NEW r \in Report, Record(r) PROVE OrderInv'
  <2>1. \A x \in Report : x # r => serving'[x] = serving[x]
    BY <1>17 DEF Record
  <2>2. serving[r] # "none" /\ serving'[r] # "none" /\ outcome' = outcome /\ worker' = worker
    BY <1>17 DEF Record, LocalInv, LockInv
  <2>3. serving[r] = "answered" => serving'[r] = "answered"
    BY <1>17 DEF Record
  <2> QED
    BY <2>1, <2>2, <2>3, WorkerIndex, ReportIndex
<1>18. ASSUME NEW r \in Report, Deliver(r) PROVE OrderInv'
  <2>1. \A x \in Report : x # r => serving'[x] = serving[x]
    BY <1>18 DEF Deliver
  <2>2. serving[r] # "none" /\ serving'[r] # "none" /\ outcome' = outcome /\ worker' = worker
    BY <1>18 DEF Deliver, LocalInv, LockInv
  <2>3. serving[r] = "answered" => serving'[r] = "answered"
    BY <1>18 DEF Deliver
  <2> QED
    BY <2>1, <2>2, <2>3, WorkerIndex, ReportIndex
<1>19. ASSUME NEW r \in Report, AdvanceReport(r) PROVE OrderInv'
  BY <1>19 DEF AdvanceReport, Lock
<1>20. ASSUME NEW r \in Report, PromoteReport(r) PROVE OrderInv'
  <2>1. \A x \in Report : x # r => serving'[x] = serving[x]
    BY <1>20 DEF PromoteReport, Promote
  <2>2. serving[r] # "none" /\ serving'[r] # "none" /\ outcome' = outcome /\ worker' = worker
    BY <1>20 DEF PromoteReport, Promote, LocalInv, LockInv
  <2>3. serving[r] = "answered" => serving'[r] = "answered"
    BY <1>20 DEF PromoteReport, Promote
  <2> QED
    BY <2>1, <2>2, <2>3, WorkerIndex, ReportIndex
<1>21. ASSUME NEW w \in Worker, Announce(w) PROVE OrderInv'
  BY <1>21, WorkerIndex, ReportIndex DEF Announce, LocalInv, ReportInv, Orderly
<1>22. ASSUME NEW w \in Worker, Work(w) PROVE OrderInv'
  BY <1>22, WorkerIndex, ReportIndex DEF Work, LocalInv, ReportInv, Orderly
<1>23. ASSUME NEW w \in Worker, NEW result \in Terminal, Finish(w, result)
      PROVE  OrderInv'
  BY <1>23, WorkerIndex, ReportIndex DEF Finish, LocalInv, ReportInv, Orderly
<1>24. ASSUME NEW m \in Module, Die(m) PROVE OrderInv'
  <2>1. \A w \in Worker : worker'[w] = "working" => worker[w] = "working"
    BY <1>24 DEF Die
  <2> QED
    BY <1>24, <2>1, WorkerIndex DEF Die
<1>25. CASE Quiet \/ UNCHANGED vars
  BY <1>25 DEF Quiet, vars
<1> QED
  BY <1>1, <1>2, <1>3, <1>4, <1>5, <1>6, <1>7, <1>8, <1>9, <1>10, <1>11,
     <1>12, <1>13, <1>14, <1>15, <1>16, <1>17, <1>18, <1>19, <1>20, <1>21,
     <1>22, <1>23, <1>24, <1>25
  DEF Next, Serve, Answer, ServeReport, RunAsync

LEMMA OrderlyInvariant == ASSUME Orderly PROVE Spec => []RInv
<1>1. Init => RInv
  <2>1. Init => OrderInv
    BY WorkerIndex, ReportIndex DEF Init, OrderInv
  <2> QED
    BY <2>1, InitTypeOK, InitLocalInv DEF RInv
<1>2. RInv /\ [Next]_vars => RInv'
  <2> SUFFICES ASSUME RInv, [Next]_vars PROVE RInv'
    OBVIOUS
  <2>1. LocalInv'
    BY NextCallInv, NextWorkerInv, NextReportInv, NextFoldInv, NextTimeInv, NextLockInv
    DEF RInv, LocalInv
  <2> QED
    BY <2>1, NextTypeOK, NextOrderInv DEF RInv
<1> QED
  BY <1>1, <1>2, PTL DEF Spec

-----------------------------------------------------------------------------
(* What each step does to the queue as Admission sees it.                   *)

\* The record, the fold and the stamp decide where a call is.
LEMMA SameView ==
    ASSUME UNCHANGED <<exchange, folded, started>>
    PROVE  Queued' = Queued /\ Running' = Running /\ EndedCalls' = EndedCalls
  BY DEF Queued, Running, EndedCalls, Recorded, Ended

\* A call that ends leaves the queue or the running calls.
LEMMA EndStep ==
    ASSUME NEW c \in Call, Recorded(c), ~Ended(c), Ended(c)', started' = started,
           \A d \in Call : d # c => (Recorded(d)' <=> Recorded(d)) /\ (Ended(d)' <=> Ended(d))
    PROVE  Abstract!End(c)
<1>1. c \in Queued \cup Running
  BY DEF Queued, Running
<1>2. Queued' = Queued \ {c}
  BY DEF Queued
<1>3. Running' = Running \ {c}
  BY DEF Running
<1>4. EndedCalls' = EndedCalls \cup {c}
  BY DEF EndedCalls
<1> QED
  BY <1>1, <1>2, <1>3, <1>4 DEF Abstract!End

\* A call of which nothing changes but what a step leaves it as.
LEMMA StillStep ==
    ASSUME NEW c \in Call, Recorded(c), Recorded(c)', Ended(c)' <=> Ended(c), started' = started,
           \A d \in Call : d # c => (Recorded(d)' <=> Recorded(d)) /\ (Ended(d)' <=> Ended(d))
    PROVE  Queued' = Queued /\ Running' = Running /\ EndedCalls' = EndedCalls
  BY DEF Queued, Running, EndedCalls

\* A call that no worker has reported on is not ended by its reports.
LEMMA FoldedReported ==
    ASSUME Orderly, RInv, NEW c \in Call, folded[c] \in Terminal
    PROVE  Recorded(c) /\ Reported(c) /\ serving[First(Own(c))] = "answered"
<1>1. Reported(c)
  BY DEF RInv, LocalInv, FoldInv, Orderly
<1>2. Final(Own(c)) \in Report /\ Owner(Sender(Final(Own(c)))) = c
  BY WorkerIndex, WorkerOwner, ReportIndex, ReportSender
<1>3. Recorded(c)
  BY <1>1, <1>2, ReportOfStarted DEF Reported, RInv
<1>4. serving[First(Own(c))] = "answered"
  BY <1>1 DEF Reported, RInv, OrderInv
<1> QED
  BY <1>1, <1>3, <1>4

\* A new record enters the queue.
LEMMA OpenEnters ==
    ASSUME Orderly, RInv, NEW c \in Call, Open(c)
    PROVE  Abstract!Enter(c)
<1>1. ~Recorded(c) /\ c \notin started
  BY DEF Open, RInv, LocalInv, CallInv, Recorded
<1>2. folded[c] \notin Terminal
  BY <1>1, FoldedReported
<1>3. ~Ended(c)
  BY <1>1, <1>2 DEF Ended, Recorded
<1>4. Recorded(c)' /\ ~Ended(c)' /\ UNCHANGED <<folded, started>>
  BY <1>2 DEF Open, store, Recorded, Ended, RInv, TypeOK
<1>5. \A d \in Call : d # c => (Recorded(d)' <=> Recorded(d)) /\ (Ended(d)' <=> Ended(d))
  BY <1>4 DEF Open, Recorded, Ended, RInv, TypeOK
<1>6. Queued' = Queued \cup {c}
  BY <1>1, <1>3, <1>4, <1>5 DEF Queued
<1>7. Running' = Running
  BY <1>1, <1>3, <1>4, <1>5 DEF Running
<1>8. EndedCalls' = EndedCalls
  BY <1>1, <1>3, <1>4, <1>5 DEF EndedCalls
<1>9. c \notin Queued \cup Running \cup EndedCalls
  BY <1>1, <1>3 DEF Queued, Running, EndedCalls
<1> QED
  BY <1>6, <1>7, <1>8, <1>9 DEF Abstract!Enter

View == <<Queued, Running, EndedCalls>>

\* Completing a record ends the call, unless the response was an ack or the
\* worker's terminal report came first.
LEMMA CompleteEnds ==
    ASSUME RInv, NEW c \in Call, Complete(c)
    PROVE  Abstract!End(c) \/ UNCHANGED View
<1>1. exchange[c] = "open" /\ resp[c] \in {"ok", "accepted", "error"}
  BY DEF Complete, RInv, LocalInv, CallInv, InHand, TypeOK, Reply3
<1>2. Recorded(c) /\ Recorded(c)' /\ UNCHANGED <<folded, started>>
  BY <1>1 DEF Complete, Recorded, RInv, TypeOK
<1>3. Ended(c) => Ended(c)'
  BY <1>1, <1>2 DEF Ended
<1>4. \A d \in Call : d # c => (Recorded(d)' <=> Recorded(d)) /\ (Ended(d)' <=> Ended(d))
  BY <1>2 DEF Complete, Recorded, Ended, RInv, TypeOK
<1> QED
  BY <1>2, <1>3, <1>4, EndStep, StillStep DEF View

\* Recording a report ends the call if it is terminal, and never takes an end back.
LEMMA RecordEnds ==
    ASSUME Orderly, RInv, NEW r \in Report, Record(r)
    PROVE  \/ Abstract!End(Owner(Sender(r)))
           \/ UNCHANGED View
<1> DEFINE w == Sender(r)
           c == Owner(w)
<1>1. w \in Worker /\ c \in Call /\ w = Own(c) /\ (r = First(w) \/ r = Final(w))
  <2>1. w \in Worker /\ c \in Call /\ (w = Own(c) \/ w = Side(c)) /\ (r = First(w) \/ r = Final(w))
    BY ReportSender, WorkerOwner
  <2>2. serving[r] # "none"
    BY DEF Record
  <2> QED
    BY <2>1, <2>2 DEF RInv, LocalInv, ReportInv, Orderly
<1>2. serving[r] = "inflight" /\ Recorded(c)
  BY DEF Record
<1>3. folded' = [folded EXCEPT ![c] = IF r = First(w) THEN "running" ELSE outcome[w]]
  BY DEF Record
<1>4. UNCHANGED <<exchange, started>>
  BY DEF Record
<1>5. folded[c] \notin Terminal
  BY <1>1, <1>2, FoldedReported DEF Reported
<1> HIDE DEF c, w
<1>6. Recorded(c)' /\ (Ended(c) => Ended(c)')
  BY <1>2, <1>4, <1>5 DEF Recorded, Ended
<1>7. \A d \in Call : d # c => (Recorded(d)' <=> Recorded(d)) /\ (Ended(d)' <=> Ended(d))
  BY <1>3, <1>4 DEF Recorded, Ended, RInv, TypeOK
<1>8. started' = started
  BY <1>4
<1>9. Abstract!End(c) \/ UNCHANGED View
  BY <1>1, <1>2, <1>6, <1>7, <1>8, EndStep, StillStep DEF View
<1> QED
  BY <1>9 DEF c, w

\* A promotion admits the planned calls that have not ended meanwhile.
LEMMA PromoteAdmits ==
    ASSUME RInv, NEW x, Promote(x), UNCHANGED <<exchange, folded>>
    PROVE  \E A \in SUBSET Queued : Abstract!Admit(A)
<1>1. PICK P \in SUBSET queued : IsPlan(P, queued, Running) /\ started' = started \cup P
  BY DEF Promote
<1>2. /\ \A c \in P, d \in Running : Hold(c) \cap Hold(d) = {}
      /\ \A c, d \in P : c # d => Hold(c) \cap Hold(d) = {}
  BY <1>1, PlanFacts DEF RInv
<1>3. \A c \in P : c \in Call /\ Recorded(c) /\ c \notin Running
  <2>1. \A c \in P : c \in Call /\ Recorded(c)
    BY DEF RInv, TypeOK, LocalInv, LockInv
  <2>2. \A c \in P : Hold(c) # {}
    BY <2>1, RouteAssumption, FootprintAssumption DEF Hold
  <2> QED
    BY <1>2, <2>1, <2>2
<1>4. \A c : (Recorded(c)' <=> Recorded(c)) /\ (Ended(c)' <=> Ended(c))
  BY DEF Recorded, Ended
<1> DEFINE A == {c \in P : ~Ended(c)}
<1>5. A \subseteq Queued
  BY <1>3 DEF Queued, Running
<1>6. Queued' = Queued \ A
  BY <1>1, <1>4 DEF Queued
<1>7. Running' = Running \cup A
  BY <1>1, <1>3, <1>4 DEF Running
<1>8. EndedCalls' = EndedCalls
  BY <1>4 DEF EndedCalls
<1>9. \A c \in A : Abstract!Free(c, Running \cup A)
  <2> SUFFICES ASSUME NEW c \in A, NEW d \in (Running \cup A) \ {c}
               PROVE  Hold(c) \cap Hold(d) = {}
    BY <1>3 DEF Abstract!Free, Running
  <2> QED
    BY <1>2
<1> QED
  BY <1>5, <1>6, <1>7, <1>8, <1>9 DEF Abstract!Admit

\* A step that opens, completes, records or promotes nothing does not show.
LEMMA ViewStep ==
    ASSUME Orderly, RInv, [Next]_vars
    PROVE  [Abstract!Next]_<<Queued, Running, EndedCalls>>
<1> DEFINE Shown == [Abstract!Next]_<<Queued, Running, EndedCalls>>
<1> USE DEF store, queue, modules
<1>1. ASSUME NEW c \in Call, Reject(c) PROVE Shown
  BY <1>1, SameView DEF Reject
<1>2. ASSUME NEW c \in Call, Open(c) PROVE Shown
  BY <1>2, OpenEnters DEF Abstract!Next, Call
<1>3. ASSUME NEW c \in Call, BeginWait(c) PROVE Shown
  BY <1>3, SameView DEF BeginWait
<1>4. ASSUME NEW c \in Call, WakeStarted(c) PROVE Shown
  BY <1>4, SameView DEF WakeStarted, Woken
<1>5. ASSUME NEW c \in Call, WakeTimedOut(c) PROVE Shown
  BY <1>5, SameView DEF WakeTimedOut, Woken
<1>6. ASSUME NEW c \in Call, WakeAgain(c) \/ Expire(c) \/ TimerFires(c)
      PROVE  Shown
  BY <1>6, SameView DEF WakeAgain, Expire, TimerFires
<1>7. ASSUME NEW c \in Call, Dispatch(c) PROVE Shown
  BY <1>7, SameView DEF Dispatch
<1>8. ASSUME NEW c \in Call, RouteFails(c) PROVE Shown
  BY <1>8, SameView DEF RouteFails
<1>9. ASSUME NEW c \in Call, NEW answer \in {"ok", "error"}, Reply(c, answer)
      PROVE  Shown
  BY <1>9, SameView DEF Reply
<1>10. ASSUME NEW c \in Call, Acknowledge(c) PROVE Shown
  BY <1>10, SameView DEF Acknowledge
<1>11. ASSUME NEW c \in Call, Complete(c) PROVE Shown
  BY <1>11, CompleteEnds DEF View, Abstract!Next
<1>12. ASSUME NEW c \in Call, AdvanceCall(c) PROVE Shown
  BY <1>12, SameView DEF AdvanceCall, Lock
<1>13. ASSUME NEW c \in Call, PromoteCall(c) PROVE Shown
  BY <1>13, PromoteAdmits DEF PromoteCall, Abstract!Next
<1>14. ASSUME NEW c \in Call, Accept(c) PROVE Shown
  BY <1>14, SameView DEF Accept
<1>15. ASSUME NEW c \in Call, Hop(c) PROVE Shown
  BY <1>15, SameView DEF Hop
<1>16. ASSUME NEW c \in Call, HopReturns(c) PROVE Shown
  BY <1>16, SameView DEF HopReturns
<1>17. ASSUME NEW r \in Report, Record(r) PROVE Shown
  <2>1. Owner(Sender(r)) \in Call
    BY ReportSender, WorkerOwner
  <2> QED
    BY <1>17, <2>1, RecordEnds DEF View, Abstract!Next
<1>18. ASSUME NEW r \in Report, Deliver(r) PROVE Shown
  BY <1>18, SameView DEF Deliver
<1>19. ASSUME NEW r \in Report, AdvanceReport(r) PROVE Shown
  BY <1>19, SameView DEF AdvanceReport, Lock
<1>20. ASSUME NEW r \in Report, PromoteReport(r) PROVE Shown
  BY <1>20, PromoteAdmits DEF PromoteReport, Abstract!Next
<1>21. ASSUME NEW w \in Worker, Announce(w) PROVE Shown
  BY <1>21, SameView DEF Announce
<1>22. ASSUME NEW w \in Worker, Work(w) PROVE Shown
  BY <1>22, SameView DEF Work
<1>23. ASSUME NEW w \in Worker, NEW result \in Terminal, Finish(w, result)
      PROVE  Shown
  BY <1>23, SameView DEF Finish
<1>24. ASSUME NEW m \in Module, Die(m) PROVE Shown
  BY <1>24, SameView DEF Die
<1>25. CASE Quiet \/ UNCHANGED vars
  BY <1>25, SameView DEF Quiet, vars
<1> QED
  BY <1>1, <1>2, <1>3, <1>4, <1>5, <1>6, <1>7, <1>8, <1>9, <1>10, <1>11,
     <1>12, <1>13, <1>14, <1>15, <1>16, <1>17, <1>18, <1>19, <1>20, <1>21,
     <1>22, <1>23, <1>24, <1>25
  DEF Next, Serve, Answer, ServeReport, RunAsync

\* With orderly modules every behaviour of the broker is one of Admission: each
\* job waits, holds its whole footprint exclusively, and ends exactly once.
THEOREM BrokerImplementsAdmission == ASSUME Orderly PROVE Spec => Implements
<1>1. Init => Abstract!Init
  BY DEF Init, Abstract!Init, Queued, Running, EndedCalls, Recorded, Ended, Terminal
<1>2. RInv /\ [Next]_vars => [Abstract!Next]_<<Queued, Running, EndedCalls>>
  BY ViewStep
<1>3. Spec => []RInv
  BY OrderlyInvariant
<1> QED
  BY <1>1, <1>2, <1>3, PTL DEF Spec, Implements, Abstract!Spec, Abstract!vars

\* So no module is ever in the footprint of two jobs the store derives as running.
THEOREM RunningExclusive == ASSUME Orderly PROVE Spec => []Abstract!Exclusive
<1>1. Init => Abstract!Exclusive
  BY DEF Init, Abstract!Exclusive, Running, Recorded
<1>2. Abstract!Exclusive /\ [Abstract!Next]_<<Queued, Running, EndedCalls>>
          => Abstract!Exclusive'
  <2> SUFFICES ASSUME Abstract!Exclusive, [Abstract!Next]_<<Queued, Running, EndedCalls>>
               PROVE  Abstract!Exclusive'
    OBVIOUS
  <2> USE DEF Abstract!Exclusive
  <2>1. ASSUME NEW c \in Call, Abstract!Enter(c) \/ Abstract!End(c)
        PROVE  Abstract!Exclusive'
    BY <2>1 DEF Abstract!Enter, Abstract!End, Abstract!Free, Hold
  <2>2. ASSUME NEW P \in SUBSET Queued, Abstract!Admit(P)
        PROVE  Abstract!Exclusive'
    <3>1. ASSUME NEW c \in P, NEW d \in (Running \cup P) \ {c}
          PROVE  Hold(c) \cap Hold(d) = {}
      <4>1. c \in Call /\ d \in Call
        BY DEF Queued, Running
      <4>2. Abstract!Free(c, Running \cup P)
        BY <2>2 DEF Abstract!Admit
      <4> QED
        BY <4>1, <4>2 DEF Abstract!Free
    <3>2. \A c, d \in Running : c # d => Hold(c) \cap Hold(d) = {}
      BY DEF Abstract!Free, Running
    <3>3. Running' = Running \cup P /\ P \subseteq Call /\ Running \subseteq Call
      BY <2>2 DEF Abstract!Admit, Queued, Running
    <3>4. \A c, d \in Running \cup P : c # d => Hold(c) \cap Hold(d) = {}
      BY <3>1, <3>2
    <3> QED
      BY <3>3, <3>4 DEF Abstract!Free, Hold
  <2> QED
    BY <2>1, <2>2 DEF Abstract!Next, Hold
<1>3. RInv /\ [Next]_vars => [Abstract!Next]_<<Queued, Running, EndedCalls>>
  BY ViewStep
<1>4. Spec => []RInv
  BY OrderlyInvariant
<1> QED
  BY <1>1, <1>2, <1>3, <1>4, PTL DEF Spec

-----------------------------------------------------------------------------
(* What the face is told.                                                    *)

\* The face was last told what the store derives, unless a report has been
\* recorded that is yet to be delivered, and that one says it.
ToldInv ==
    \A c \in Job :
        LET w == Own(c) IN
        /\ serving[First(w)] = "recorded" => folded[c] = "running"
        /\ serving[Final(w)] = "recorded" => folded[c] = outcome[w]
        /\ serving[First(w)] # "recorded" /\ serving[Final(w)] # "recorded" => surface[c] = folded[c]

\* Which reports there are of a job when it starts no async hop.
LEMMA OwnReport ==
    ASSUME Orderly, RInv, NEW r \in Report, serving[r] # "none"
    PROVE  LET c == Owner(Sender(r)) IN
           /\ c \in Call /\ Sender(r) = Own(c)
           /\ r = First(Own(c)) \/ r = Final(Own(c))
BY ReportSender, WorkerOwner DEF RInv, LocalInv, ReportInv, Orderly

\* Every step that folds a report leaves it to be delivered; a delivery says it.
LEMMA NextToldInv == Orderly /\ RInv /\ ToldInv /\ [Next]_vars => ToldInv'
<1> SUFFICES ASSUME Orderly, RInv, ToldInv, [Next]_vars PROVE ToldInv'
  OBVIOUS
<1> USE DEF ToldInv, store, queue, modules
<1>1. ASSUME NEW c \in Call, Reject(c) PROVE ToldInv'
  BY <1>1 DEF Reject
<1>2. ASSUME NEW c \in Call, Open(c) PROVE ToldInv'
  BY <1>2 DEF Open
<1>3. ASSUME NEW c \in Call, BeginWait(c) PROVE ToldInv'
  BY <1>3 DEF BeginWait
<1>4. ASSUME NEW c \in Call, WakeStarted(c) PROVE ToldInv'
  BY <1>4 DEF WakeStarted, Woken
<1>5. ASSUME NEW c \in Call, WakeTimedOut(c) PROVE ToldInv'
  BY <1>5 DEF WakeTimedOut, Woken
<1>6. ASSUME NEW c \in Call, WakeAgain(c) \/ Expire(c) \/ TimerFires(c) PROVE ToldInv'
  BY <1>6 DEF WakeAgain, Expire, TimerFires
<1>7. ASSUME NEW c \in Call, Dispatch(c) PROVE ToldInv'
  BY <1>7 DEF Dispatch
<1>8. ASSUME NEW c \in Call, RouteFails(c) PROVE ToldInv'
  BY <1>8 DEF RouteFails
<1>9. ASSUME NEW c \in Call, NEW answer \in {"ok", "error"}, Reply(c, answer) PROVE ToldInv'
  BY <1>9 DEF Reply
<1>10. ASSUME NEW c \in Call, Acknowledge(c) PROVE ToldInv'
  BY <1>10 DEF Acknowledge
<1>11. ASSUME NEW c \in Call, Complete(c) PROVE ToldInv'
  BY <1>11 DEF Complete
<1>12. ASSUME NEW c \in Call, AdvanceCall(c) PROVE ToldInv'
  BY <1>12 DEF AdvanceCall, Lock
<1>13. ASSUME NEW c \in Call, PromoteCall(c) PROVE ToldInv'
  BY <1>13 DEF PromoteCall, Promote
<1>14. ASSUME NEW c \in Call, Accept(c) PROVE ToldInv'
  BY <1>14 DEF Accept
<1>15. ASSUME NEW c \in Call, Hop(c) PROVE ToldInv'
  BY <1>15 DEF Hop
<1>16. ASSUME NEW c \in Call, HopReturns(c) PROVE ToldInv'
  BY <1>16 DEF HopReturns
<1>17. ASSUME NEW r \in Report, Record(r) PROVE ToldInv'
  <2> DEFINE c == Owner(Sender(r))
  <2>1. c \in Call /\ Sender(r) = Own(c) /\ (r = First(Own(c)) \/ r = Final(Own(c)))
    BY <1>17, OwnReport DEF Record, Deliver
  <2>2. \A d \in Job : d # c => /\ First(Own(d)) \in Report /\ First(Own(d)) # r
                                /\ Final(Own(d)) \in Report /\ Final(Own(d)) # r
    BY <2>1, WorkerIndex, ReportIndex DEF Call
  <2>3. First(Own(c)) \in Report /\ Final(Own(c)) \in Report /\ First(Own(c)) # Final(Own(c))
    BY <2>1, WorkerIndex, ReportIndex
  <2>4. serving[Final(Own(c))] # "none" => serving[First(Own(c))] = "answered"
    BY <2>1 DEF RInv, OrderInv
  <2> HIDE DEF c
  <2>5. /\ serving' = [serving EXCEPT ![r] = "recorded"] /\ surface' = surface /\ outcome' = outcome
        /\ folded' = [folded EXCEPT ![c] = IF r = First(Own(c)) THEN "running" ELSE outcome[Own(c)]]
        /\ serving[r] = "inflight"
    BY <1>17, <2>1 DEF Record, c
  <2> QED
    BY <2>1, <2>2, <2>3, <2>4, <2>5 DEF RInv, TypeOK, Call
<1>18. ASSUME NEW r \in Report, Deliver(r) PROVE ToldInv'
  <2> DEFINE c == Owner(Sender(r))
  <2>1. c \in Call /\ Sender(r) = Own(c) /\ (r = First(Own(c)) \/ r = Final(Own(c)))
    BY <1>18, OwnReport DEF Record, Deliver
  <2>2. \A d \in Job : d # c => /\ First(Own(d)) \in Report /\ First(Own(d)) # r
                                /\ Final(Own(d)) \in Report /\ Final(Own(d)) # r
    BY <2>1, WorkerIndex, ReportIndex DEF Call
  <2>3. First(Own(c)) \in Report /\ Final(Own(c)) \in Report /\ First(Own(c)) # Final(Own(c))
    BY <2>1, WorkerIndex, ReportIndex
  <2>4. serving[Final(Own(c))] # "none" => serving[First(Own(c))] = "answered"
    BY <2>1 DEF RInv, OrderInv
  <2> HIDE DEF c
  <2>5. /\ serving' = [serving EXCEPT ![r] = IF r = Final(Own(c)) THEN "advance" ELSE "answered"]
        /\ folded' = folded /\ outcome' = outcome /\ serving[r] = "recorded"
        /\ surface' = IF c \in Job
                      THEN [surface EXCEPT ![c] = IF r = First(Own(c)) THEN "running" ELSE outcome[Own(c)]]
                      ELSE surface
    BY <1>18, <2>1 DEF Deliver, c
  <2> QED
    BY <2>1, <2>2, <2>3, <2>4, <2>5 DEF RInv, TypeOK, Call
<1>19. ASSUME NEW r \in Report, AdvanceReport(r) PROVE ToldInv'
  BY <1>19 DEF AdvanceReport, Lock
<1>20. ASSUME NEW r \in Report, PromoteReport(r) PROVE ToldInv'
  BY <1>20, WorkerIndex, ReportIndex DEF PromoteReport, Promote, RInv, TypeOK, LocalInv, LockInv, Call
<1>21. ASSUME NEW w \in Worker, Announce(w) PROVE ToldInv'
  BY <1>21, WorkerIndex, ReportIndex DEF Announce, RInv, TypeOK, LocalInv, ReportInv, Call
<1>22. ASSUME NEW w \in Worker, Work(w) PROVE ToldInv'
  BY <1>22 DEF Work
<1>23. ASSUME NEW w \in Worker, NEW result \in Terminal, Finish(w, result) PROVE ToldInv'
  BY <1>23, WorkerIndex, ReportIndex DEF Finish, RInv, TypeOK, LocalInv, ReportInv, Call
<1>24. ASSUME NEW m \in Module, Die(m) PROVE ToldInv'
  BY <1>24 DEF Die
<1>25. CASE Quiet \/ UNCHANGED vars
  BY <1>25 DEF Quiet, vars
<1> QED
  BY <1>1, <1>2, <1>3, <1>4, <1>5, <1>6, <1>7, <1>8, <1>9, <1>10, <1>11,
     <1>12, <1>13, <1>14, <1>15, <1>16, <1>17, <1>18, <1>19, <1>20, <1>21,
     <1>22, <1>23, <1>24, <1>25
  DEF Next, Serve, Answer, ServeReport, RunAsync

-----------------------------------------------------------------------------
(* While no process dies.                                                    *)

\* A call that has a worker was or will be acknowledged, and a hop is at work only
\* under the handler that waits for it.
SteadyInv ==
    \A c \in Call :
        /\ worker[Own(c)] # "none" =>
              \/ pc[c] = "called"
              \/ pc[c] = "respond" /\ resp[c] = "accepted"
              \/ exchange[c] = "accepted"
        /\ worker[Side(c)] # "none" => c \in SyncHop
        /\ worker[Side(c)] = "working" => IF c \in Async THEN worker[Own(c)] = "working" ELSE pc[c] = "called"

Steady == Orderly /\ MaxCrash = 0

\* A handler waits for its hop, and its acknowledgement says accepted.
LEMMA NextSteadyInv == Steady /\ RInv /\ SteadyInv /\ [Next]_vars => SteadyInv'
<1> SUFFICES ASSUME Steady, Orderly, RInv, SteadyInv, [Next]_vars PROVE SteadyInv'
  BY DEF Steady
<1> USE DEF SteadyInv, RInv, TypeOK, store, queue, modules
<1>1. ASSUME NEW c \in Call, Reject(c) PROVE SteadyInv'
  BY <1>1 DEF Reject
<1>2. ASSUME NEW c \in Call, Open(c) PROVE SteadyInv'
  BY <1>2 DEF Open, LocalInv, CallInv
<1>3. ASSUME NEW c \in Call, BeginWait(c) PROVE SteadyInv'
  BY <1>3 DEF BeginWait
<1>4. ASSUME NEW c \in Call, WakeStarted(c) PROVE SteadyInv'
  BY <1>4 DEF WakeStarted, Woken
<1>5. ASSUME NEW c \in Call, WakeTimedOut(c) PROVE SteadyInv'
  BY <1>5 DEF WakeTimedOut, Woken
<1>6. ASSUME NEW c \in Call, WakeAgain(c) \/ Expire(c) \/ TimerFires(c) PROVE SteadyInv'
  BY <1>6 DEF WakeAgain, Expire, TimerFires
<1>7. ASSUME NEW c \in Call, Dispatch(c) PROVE SteadyInv'
  BY <1>7 DEF Dispatch
<1>8. ASSUME NEW c \in Call, RouteFails(c) PROVE SteadyInv'
  BY <1>8 DEF RouteFails
<1>9. ASSUME NEW c \in Call, NEW answer \in {"ok", "error"}, Reply(c, answer) PROVE SteadyInv'
  BY <1>9, WorkerIndex DEF Reply, HopAwaited, Orderly
<1>10. ASSUME NEW c \in Call, Acknowledge(c) PROVE SteadyInv'
  BY <1>10 DEF Acknowledge, LocalInv, WorkerInv
<1>11. ASSUME NEW c \in Call, Complete(c) PROVE SteadyInv'
  BY <1>11 DEF Complete, LocalInv, CallInv, InHand
<1>12. ASSUME NEW c \in Call, AdvanceCall(c) PROVE SteadyInv'
  BY <1>12 DEF AdvanceCall, Lock
<1>13. ASSUME NEW c \in Call, PromoteCall(c) PROVE SteadyInv'
  BY <1>13 DEF PromoteCall, Promote, LocalInv, LockInv
<1>14. ASSUME NEW c \in Call, Accept(c) PROVE SteadyInv'
  BY <1>14, WorkerIndex DEF Accept
<1>15. ASSUME NEW c \in Call, Hop(c) PROVE SteadyInv'
  BY <1>15, WorkerIndex DEF Hop, Orderly
<1>16. ASSUME NEW c \in Call, HopReturns(c) PROVE SteadyInv'
  BY <1>16, WorkerIndex DEF HopReturns
<1>17. ASSUME NEW r \in Report, Record(r) PROVE SteadyInv'
  BY <1>17 DEF Record
<1>18. ASSUME NEW r \in Report, Deliver(r) PROVE SteadyInv'
  BY <1>18 DEF Deliver
<1>19. ASSUME NEW r \in Report, AdvanceReport(r) PROVE SteadyInv'
  BY <1>19 DEF AdvanceReport, Lock
<1>20. ASSUME NEW r \in Report, PromoteReport(r) PROVE SteadyInv'
  BY <1>20 DEF PromoteReport, Promote
<1>21. ASSUME NEW w \in Worker, Announce(w) PROVE SteadyInv'
  BY <1>21 DEF Announce
<1>22. ASSUME NEW w \in Worker, Work(w) PROVE SteadyInv'
  BY <1>22, WorkerIndex DEF Work, LocalInv, WorkerInv, Orderly
<1>23. ASSUME NEW w \in Worker, NEW result \in Terminal, Finish(w, result) PROVE SteadyInv'
  BY <1>23, WorkerIndex DEF Finish, HopAwaited, Orderly
<1>24. ASSUME NEW m \in Module, Die(m) PROVE SteadyInv'
  BY <1>24 DEF Die, Steady
<1>25. CASE Quiet \/ UNCHANGED vars
  BY <1>25 DEF Quiet, vars
<1> QED
  BY <1>1, <1>2, <1>3, <1>4, <1>5, <1>6, <1>7, <1>8, <1>9, <1>10, <1>11,
     <1>12, <1>13, <1>14, <1>15, <1>16, <1>17, <1>18, <1>19, <1>20, <1>21,
     <1>22, <1>23, <1>24, <1>25
  DEF Next, Serve, Answer, ServeReport, RunAsync

\* Nothing takes back the end of a job, or changes it.
LEMMA EndStands ==
    ASSUME Steady, RInv, SteadyInv, [Next]_vars, NEW x \in Call, Ended(x)
    PROVE  Ended(x)' /\ Result(x)' = Result(x)
<1> DEFINE Stands == Ended(x)' /\ Result(x)' = Result(x)
<1> USE DEF Ended, Result, store, queue, modules
<1>1. ASSUME NEW c \in Call, Reject(c) PROVE Stands
  BY <1>1 DEF Reject
<1>2. ASSUME NEW c \in Call, Open(c) PROVE Stands
  <2>1. ~Recorded(c)
    BY <1>2 DEF Open, RInv, LocalInv, CallInv, Recorded
  <2>2. x # c
    BY <2>1, FoldedReported DEF Steady, Recorded
  <2> QED
    BY <1>2, <2>2 DEF Open, RInv, TypeOK
<1>3. ASSUME NEW c \in Call, BeginWait(c) PROVE Stands
  BY <1>3 DEF BeginWait
<1>4. ASSUME NEW c \in Call, WakeStarted(c) PROVE Stands
  BY <1>4 DEF WakeStarted, Woken
<1>5. ASSUME NEW c \in Call, WakeTimedOut(c) PROVE Stands
  BY <1>5 DEF WakeTimedOut, Woken
<1>6. ASSUME NEW c \in Call, WakeAgain(c) \/ Expire(c) \/ TimerFires(c) PROVE Stands
  BY <1>6 DEF WakeAgain, Expire, TimerFires
<1>7. ASSUME NEW c \in Call, Dispatch(c) PROVE Stands
  BY <1>7 DEF Dispatch
<1>8. ASSUME NEW c \in Call, RouteFails(c) PROVE Stands
  BY <1>8 DEF RouteFails
<1>9. ASSUME NEW c \in Call, NEW answer \in {"ok", "error"}, Reply(c, answer) PROVE Stands
  BY <1>9 DEF Reply
<1>10. ASSUME NEW c \in Call, Acknowledge(c) PROVE Stands
  BY <1>10 DEF Acknowledge
<1>11. ASSUME NEW c \in Call, Complete(c) PROVE Stands
  BY <1>11 DEF Complete, RInv, TypeOK, LocalInv, CallInv, InHand
<1>12. ASSUME NEW c \in Call, AdvanceCall(c) PROVE Stands
  BY <1>12 DEF AdvanceCall, Lock
<1>13. ASSUME NEW c \in Call, PromoteCall(c) PROVE Stands
  BY <1>13 DEF PromoteCall, Promote
<1>14. ASSUME NEW c \in Call, Accept(c) PROVE Stands
  BY <1>14 DEF Accept
<1>15. ASSUME NEW c \in Call, Hop(c) PROVE Stands
  BY <1>15 DEF Hop
<1>16. ASSUME NEW c \in Call, HopReturns(c) PROVE Stands
  BY <1>16 DEF HopReturns
<1>17. ASSUME NEW r \in Report, Record(r) PROVE Stands
  <2> DEFINE c == Owner(Sender(r))
  <2>1. /\ c \in Call /\ Sender(r) = Own(c) /\ (r = First(Own(c)) \/ r = Final(Own(c)))
        /\ serving[r] = "inflight"
    BY <1>17, OwnReport DEF Record, Steady
  <2>2. worker[Own(c)] # "none"
    BY <2>1, WorkerIndex DEF RInv, LocalInv, ReportInv
  <2>3. exchange[c] \in {"open", "accepted"}
    BY <2>1, <2>2 DEF SteadyInv, RInv, LocalInv, CallInv, InHand
  <2>4. folded[c] \notin Terminal
    BY <2>1, FoldedReported DEF Reported, Steady
  <2>5. x # c
    BY <2>3, <2>4
  <2> HIDE DEF c
  <2>6. folded'[x] = folded[x] /\ exchange' = exchange
    BY <1>17, <2>5 DEF Record, RInv, TypeOK, c
  <2> QED
    BY <2>6
<1>18. ASSUME NEW r \in Report, Deliver(r) PROVE Stands
  BY <1>18 DEF Deliver
<1>19. ASSUME NEW r \in Report, AdvanceReport(r) PROVE Stands
  BY <1>19 DEF AdvanceReport, Lock
<1>20. ASSUME NEW r \in Report, PromoteReport(r) PROVE Stands
  BY <1>20 DEF PromoteReport, Promote
<1>21. ASSUME NEW w \in Worker, Announce(w) PROVE Stands
  BY <1>21 DEF Announce
<1>22. ASSUME NEW w \in Worker, Work(w) PROVE Stands
  BY <1>22 DEF Work
<1>23. ASSUME NEW w \in Worker, NEW result \in Terminal, Finish(w, result) PROVE Stands
  BY <1>23 DEF Finish
<1>24. ASSUME NEW m \in Module, Die(m) PROVE Stands
  BY <1>24 DEF Die
<1>25. CASE Quiet \/ UNCHANGED vars
  BY <1>25 DEF Quiet, vars
<1> QED
  BY <1>1, <1>2, <1>3, <1>4, <1>5, <1>6, <1>7, <1>8, <1>9, <1>10, <1>11,
     <1>12, <1>13, <1>14, <1>15, <1>16, <1>17, <1>18, <1>19, <1>20, <1>21,
     <1>22, <1>23, <1>24, <1>25
  DEF Next, Serve, Answer, ServeReport, RunAsync

\* While a hop of a job is at work its handler waits for it.
LEMMA HopIsHeld ==
    ASSUME Orderly, IInv, SteadyInv
    PROVE  HopInsideFootprint
<1> SUFFICES ASSUME NEW c \in Job, HopRunning(c)
             PROVE  c \in Running
  BY DEF HopInsideFootprint
<1>1. c \in Simple /\ c \in Call
  BY DEF Simple, Orderly, Call
<1>2. worker[Side(c)] = "working"
  BY <1>1 DEF HopRunning, IInv, LocalInv, WorkerInv, Orderly
<1>3. Executing(c)
  BY <1>1, <1>2 DEF Executing, SteadyInv
<1> QED BY <1>1, <1>3, ExecutingIsLive, LiveRuns

\* So it is in every state, while no process dies.
LEMMA SteadyInvariant == ASSUME Steady PROVE Spec => []SteadyInv
<1>1. Orderly
  BY DEF Steady
<1>2. Init => SteadyInv
  BY WorkerIndex DEF Init, SteadyInv
<1>3. RInv /\ SteadyInv /\ [Next]_vars => SteadyInv'
  BY NextSteadyInv
<1> QED BY <1>1, <1>2, <1>3, OrderlyInvariant, PTL DEF Spec

\* While no process dies, work that a job does in another module is done inside
\* the footprint the job holds: its handler is still waiting for it.
THEOREM HopsInside == ASSUME Steady PROVE Spec => []HopInsideFootprint
<1>1. IInv /\ SteadyInv => HopInsideFootprint
  BY HopIsHeld DEF Steady
<1> QED BY <1>1, BrokerInvariant, SteadyInvariant, PTL

\* While no process dies a job ends once, in one way, and the face that waits for it
\* was told that way once its reports are served.
THEOREM EndsAreTold == ASSUME Steady PROVE Spec => EndsAsTold
<1>1. Orderly
  BY DEF Steady
<1>2. Init => ToldInv
  BY WorkerIndex, ReportIndex DEF Init, ToldInv, Call
<1>3. RInv /\ ToldInv /\ [Next]_vars => ToldInv'
  BY <1>1, NextToldInv
<1>4. ToldInv => SurfaceAgrees
  <2> SUFFICES ASSUME ToldInv, NEW c \in Job,
                      \A r \in Report : Owner(Sender(r)) = c => serving[r] \in {"none", "inflight", "answered"}
               PROVE  surface[c] = folded[c]
    BY DEF SurfaceAgrees
  <2>1. /\ First(Own(c)) \in Report /\ Final(Own(c)) \in Report
        /\ Owner(Sender(First(Own(c)))) = c /\ Owner(Sender(Final(Own(c)))) = c
    BY WorkerIndex, WorkerOwner, ReportIndex, ReportSender DEF Call
  <2> QED BY <2>1 DEF ToldInv
<1>5. RInv /\ SteadyInv /\ [Next]_vars => \A c \in Job : Ended(c) => Ended(c)' /\ Result(c)' = Result(c)
  BY EndStands DEF Call
<1>6. Spec => []RInv
  BY <1>1, OrderlyInvariant
<1>7. Spec => []SteadyInv
  BY SteadyInvariant
<1> QED BY <1>2, <1>3, <1>4, <1>5, <1>6, <1>7, PTL DEF Spec, EndsAsTold, EndIsFinal

-------------------------------------------------------------------------------
(* The promotion loop.  PlanSoFar is inductive once it is known what busy   *)
(* stands for.                                                              *)

\* What the loop's busy set is at every step.
BusyIsTaken == busy = Held \cup Taken(promote)

LoopInv == LoopTypeOK /\ BusyIsTaken /\ PlanSoFar

\* An entry beyond those of P is not earlier than any of them, and they are all
\* earlier than it.
LEMMA EarlierKeeps ==
    ASSUME NEW n \in Nat, NEW P \in SUBSET (1 .. n - 1)
    PROVE  /\ \A k \in 1 .. n : Earlier(P \cup {n}, k) = Earlier(P, k)
           /\ Earlier(P, n) = P
<1>1. \A p \in P : p < n
  OBVIOUS
<1>2. ASSUME NEW k \in 1 .. n PROVE Earlier(P \cup {n}, k) = Earlier(P, k)
  <2>1. ~(n < k)
    OBVIOUS
  <2> QED
    BY <2>1, Zenon DEF Earlier
<1>3. Earlier(P, n) = P
  BY <1>1, Zenon DEF Earlier
<1> QED
  BY <1>2, <1>3

\* A step that leaves the roots alone is judged by the same needs after it.
LEMMA PlanLater ==
    ASSUME root' = root, running' = running,
           promote' = {k \in 1 .. i' - 1 :
                         Admissible(Need(k), Held \cup Taken(Earlier(promote', k)))}
    PROVE  PlanSoFar'
<1>1. Held' = Held
  BY DEF Held
<1>2. \A k : Need(k)' = Need(k)
  BY DEF Need
<1>3. \A k : Taken(Earlier(promote, k))' = Taken(Earlier(promote', k))
  BY DEF Taken, Earlier, Need
<1>4. \A k : Admissible(Need(k), Held \cup Taken(Earlier(promote, k)))'
              <=> Admissible(Need(k), Held \cup Taken(Earlier(promote', k)))
  BY <1>1, <1>2, <1>3 DEF Admissible
<1>5. promote' = {k \in 1 .. i' - 1 :
                    Admissible(Need(k), Held \cup Taken(Earlier(promote, k)))'}
  BY <1>4
<1> QED
  BY <1>5 DEF PlanSoFar

LEMMA LoopInitInv == LoopInit => LoopInv
<1> SUFFICES ASSUME LoopInit PROVE LoopInv
  OBVIOUS
<1> USE LoopAssumption, FootprintAssumption DEF LoopInit
<1>1. LoopTypeOK
  BY DEF LoopTypeOK
<1>2. BusyIsTaken
  BY DEF BusyIsTaken, Held, Taken
<1>3. PlanSoFar
  BY DEF PlanSoFar, Earlier, Taken
<1> QED
  BY <1>1, <1>2, <1>3 DEF LoopInv

LEMMA LoopNextInv == LoopInv /\ [LoopNext]_loopVars => LoopInv'
<1> SUFFICES ASSUME LoopInv, [LoopNext]_loopVars PROVE LoopInv'
  OBVIOUS
<1> USE LoopAssumption, FootprintAssumption DEF LoopInv
<1>0. /\ promote \in SUBSET (1 .. i - 1)
      /\ length \in Nat /\ i \in Nat
      /\ promote \subseteq 1 .. i - 1
      /\ promote \subseteq 1 .. length
      /\ \A k \in 1 .. length : Need(k) \subseteq Module
  BY DEF LoopTypeOK, Need
<1>1. CASE Take
  <2> USE <1>0, <1>1 DEF Take
  <2>1. i \in 1 .. length /\ i \notin promote
    BY DEF LoopTypeOK
  <2>2. LoopTypeOK'
    BY <2>1 DEF LoopTypeOK
  <2>3. /\ Held' = Held
        /\ \A P, k : Taken(P)' = Taken(P) /\ Earlier(P, k)' = Earlier(P, k)
        /\ \A k : Need(k)' = Need(k)
    BY DEF Held, Taken, Earlier, Need
  <2>4. Taken(promote') = Taken(promote) \cup Need(i)
    BY DEF Taken
  <2>5. BusyIsTaken'
    <3>1. busy' = Held \cup Taken(promote')
      BY <2>4 DEF BusyIsTaken
    <3> QED
      BY <3>1, <2>3 DEF BusyIsTaken, Held, Taken, Need
  <2>6. \A k \in 1 .. i : Earlier(promote \cup {i}, k) = Earlier(promote, k)
    BY EarlierKeeps
  <2>7. Earlier(promote, i) = promote
    BY EarlierKeeps
  <2>8. \A k \in 1 .. i :
           k \in promote' <=> Admissible(Need(k), Held \cup Taken(Earlier(promote', k)))
    <3> SUFFICES ASSUME NEW k \in 1 .. i
                 PROVE  k \in promote' <=>
                        Admissible(Need(k), Held \cup Taken(Earlier(promote', k)))
      OBVIOUS
    <3>1. CASE k = i
      <4>1. Earlier(promote', k) = promote
        BY <3>1, <2>6, <2>7
      <4>2. Admissible(Need(k), Held \cup Taken(promote))
        BY <3>1 DEF BusyIsTaken
      <4> QED
        BY <3>1, <4>1, <4>2
    <3>2. CASE k # i
      <4>1. k \in 1 .. i - 1 /\ (k \in promote' <=> k \in promote)
        BY <3>2
      <4>2. Earlier(promote', k) = Earlier(promote, k)
        BY <2>6
      <4>3. k \in promote <=> Admissible(Need(k), Held \cup Taken(Earlier(promote, k)))
        BY <4>1 DEF PlanSoFar
      <4> QED
        BY <4>1, <4>2, <4>3
    <3> QED
      BY <3>1, <3>2
  <2>9. promote' \subseteq 1 .. i /\ i' - 1 = i
    BY <2>1
  <2>10. promote' = {k \in 1 .. i' - 1 :
                       Admissible(Need(k), Held \cup Taken(Earlier(promote', k)))}
    BY <2>8, <2>9
  <2>11. PlanSoFar'
    BY <2>10, PlanLater
  <2> QED
    BY <2>2, <2>5, <2>11
<1>2. CASE Pass
  <2> USE <1>0, <1>2 DEF Pass
  <2>1. i \in 1 .. length /\ i \notin promote /\ i' - 1 = i
    BY DEF LoopTypeOK
  <2>2. LoopTypeOK'
    BY <2>1 DEF LoopTypeOK
  <2>3. BusyIsTaken'
    BY DEF BusyIsTaken, Held, Taken, Need
  <2>4. Earlier(promote, i) = promote
    BY EarlierKeeps
  <2>5. ~Admissible(Need(i), Held \cup Taken(Earlier(promote, i)))
    BY <2>4 DEF BusyIsTaken
  <2>6. promote = {k \in 1 .. i' - 1 :
                     Admissible(Need(k), Held \cup Taken(Earlier(promote, k)))}
    BY <2>1, <2>5 DEF PlanSoFar
  <2>7. PlanSoFar'
    BY <2>6, PlanLater
  <2> QED
    BY <2>2, <2>3, <2>7
<1>3. CASE Return \/ UNCHANGED loopVars
  <2>1. UNCHANGED loopVars
    BY <1>3 DEF Return
  <2> QED
    BY <2>1 DEF loopVars, LoopTypeOK, BusyIsTaken, PlanSoFar, Held, Taken, Earlier, Need, Admissible
<1> QED
  BY <1>1, <1>2, <1>3 DEF LoopNext

LEMMA LoopInvariant == LoopSpec => []LoopInv
  BY LoopInitInv, LoopNextInv, PTL DEF LoopSpec

\* The loop of planPromotions computes the plan that Broker's advance() uses.
THEOREM LoopFollowsPlan == LoopSpec => []PlanSoFar
<1>1. LoopInv => PlanSoFar
  BY DEF LoopInv
<1> QED
  BY <1>1, LoopInvariant, PTL

\* No two promoted jobs need the same module: the later one saw the earlier one.
THEOREM LoopIsExclusive == LoopSpec => []PromotedDisjoint
<1>1. LoopInv => PromotedDisjoint
  <2> SUFFICES ASSUME LoopInv, NEW k \in promote, NEW l \in promote, k < l
               PROVE  Need(k) \cap Need(l) = {}
    BY DEF PromotedDisjoint, LoopInv, LoopTypeOK
  <2>1. k \in Earlier(promote, l)
    BY DEF Earlier
  <2>2. Need(k) \subseteq Taken(Earlier(promote, l))
    BY <2>1 DEF Taken
  <2>3. Need(l) \cap Taken(Earlier(promote, l)) = {}
    BY DEF LoopInv, PlanSoFar, Admissible
  <2> QED
    BY <2>2, <2>3
<1> QED
  BY <1>1, LoopInvariant, PTL

\* A job the finished loop leaves behind shares a module with one that runs.
THEOREM LoopIsWorkConserving == LoopSpec => []NobodyLeftBehind
<1>1. LoopInv => NobodyLeftBehind
  <2> SUFFICES ASSUME LoopInv, i > length, NEW k \in (1 .. length) \ promote
               PROVE  Need(k) \cap (Held \cup Taken(promote)) # {}
    BY DEF NobodyLeftBehind
  <2>1. k \in 1 .. i - 1
    BY DEF LoopInv, LoopTypeOK
  <2>2. Need(k) \cap (Held \cup Taken(Earlier(promote, k))) # {}
    BY <2>1 DEF LoopInv, PlanSoFar, Admissible
  <2>3. Taken(Earlier(promote, k)) \subseteq Taken(promote)
    BY DEF Taken, Earlier
  <2> QED
    BY <2>2, <2>3
<1> QED
  BY <1>1, LoopInvariant, PTL

\* The promotion loop does all that advance() relies on.
THEOREM LoopIsRight == LoopSpec => []PlanIsRight
BY LoopFollowsPlan, LoopIsExclusive, LoopIsWorkConserving, PTL DEF PlanIsRight
\* The loop is run over Q in opening order, beside the running calls R: entry[k] is
\* the call at position k of the queue that advance() has read.
Listing(entry, Q, R) ==
    /\ entry \in [1 .. length -> Q]
    /\ \A c \in Q : \E k \in 1 .. length : entry[k] = c
    /\ \A k, l \in 1 .. length : k < l => queuedAt[entry[k]] < queuedAt[entry[l]]
    /\ root = [k \in 1 .. length |-> Target[entry[k]]]
    /\ running = {Target[c] : c \in R}

\* Run over what a pass has read, the loop of planPromotions ends with the plan that
\* Broker's Promote stamps.
THEOREM LoopComputesPlan ==
    ASSUME NEW Q \in SUBSET Call, NEW R \in SUBSET Call, NEW entry
    PROVE  LoopSpec => [](TypeOK /\ i > length /\ Listing(entry, Q, R)
                            => IsPlan({entry[k] : k \in promote}, Q, R))
<1> DEFINE P == {entry[k] : k \in promote}
<1>1. ASSUME LoopInv, TypeOK, i > length, Listing(entry, Q, R) PROVE IsPlan(P, Q, R)
  <2>1. /\ length \in Nat /\ i - 1 = length /\ promote \subseteq 1 .. length
        /\ queuedAt \in [Call -> Nat]
    BY <1>1 DEF LoopInv, LoopTypeOK, TypeOK
  <2>2. \A k \in 1 .. length : entry[k] \in Q /\ Need(k) = Hold(entry[k])
    BY <1>1 DEF Listing, Need, Hold
  <2>3. \A k, l \in 1 .. length : /\ k < l <=> queuedAt[entry[k]] < queuedAt[entry[l]]
                                  /\ entry[k] = entry[l] => k = l
    <3> SUFFICES ASSUME NEW k \in 1 .. length, NEW l \in 1 .. length
                 PROVE  /\ k < l <=> queuedAt[entry[k]] < queuedAt[entry[l]]
                        /\ entry[k] = entry[l] => k = l
      OBVIOUS
    <3>1. queuedAt[entry[k]] \in Nat /\ queuedAt[entry[l]] \in Nat
      BY <2>1, <2>2
    <3>2. /\ k < l => queuedAt[entry[k]] < queuedAt[entry[l]]
          /\ l < k => queuedAt[entry[l]] < queuedAt[entry[k]]
      BY <1>1 DEF Listing
    <3> QED BY <2>1, <3>1, <3>2
  <2>4. Busy(R) = Held
    BY <1>1 DEF Listing, Busy, Hold, Held
  <2>5. ASSUME NEW k \in 1 .. length PROVE Busy(Before(P, entry[k])) = Taken(Earlier(promote, k))
    <3>1. \A p : p \in Before(P, entry[k]) <=> \E l \in Earlier(promote, k) : p = entry[l]
      BY <2>1, <2>3, <2>5 DEF Before, Earlier
    <3> QED BY <2>1, <2>2, <3>1, ZenonT(30) DEF Busy, Taken, Earlier
  <2>6. ASSUME NEW k \in 1 .. length
        PROVE  entry[k] \in P <=> Admissible(Hold(entry[k]), Busy(R) \cup Busy(Before(P, entry[k])))
    <3>1. entry[k] \in P <=> k \in promote
      BY <2>1, <2>3, <2>6
    <3>2. k \in promote <=> Admissible(Need(k), Held \cup Taken(Earlier(promote, k)))
      BY <1>1, <2>1 DEF LoopInv, PlanSoFar
    <3> QED BY <2>2, <2>4, <2>5, <3>1, <3>2
  <2>7. P \subseteq Q
    BY <2>1, <2>2
  <2>8. \A c \in Q : c \in P <=> Admissible(Hold(c), Busy(R) \cup Busy(Before(P, c)))
    BY <1>1, <2>6 DEF Listing
  <2> HIDE DEF P
  <2> QED BY <2>7, <2>8 DEF IsPlan
<1>2. LoopInv => (TypeOK /\ i > length /\ Listing(entry, Q, R) => IsPlan(P, Q, R))
  BY <1>1
<1> QED BY <1>2, LoopInvariant, PTL
=============================================================================
